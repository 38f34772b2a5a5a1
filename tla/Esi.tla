---------------------------------- MODULE Esi ----------------------------------
(***************************************************************************)
(* fastly::esi (esi.h, src/cpp/esi.cpp, src/esi.rs): a Processor, whose    *)
(* box is moved into the one call that it can make, and the two functors   *)
(* of the program that Rust calls back for each fragment of a document,    *)
(* each call on a copy of the functor.  Requests and responses go to a     *)
(* callback and come back as raw pointers.                                 *)
(*                                                                         *)
(* The crate esi is external: it finds fragments, in order, and waits for  *)
(* the pending ones; an error of a callback ends the document or, where    *)
(* the document says so, only the fragment.                                *)
(***************************************************************************)
EXTENDS Integers, Sequences

CONSTANTS
  EsiFragments \* bound: the fragments of a document

ASSUME EsiAssumption == EsiFragments \in Nat

VARIABLES
  e_processor, \* processor_: "none", "live", "running" or "moved"
  e_fragments, \* of the document, in order
  e_result     \* of the call: "none", "ok" or "error"

evars == <<e_processor, e_fragments, e_result>>

\* A fragment waits for its response, has it, is written out or has nothing.
FragmentStates == {"pending", "complete", "written", "empty", "failed"}

\* esi.cpp:102: a processor that runs has no result of a document before.
ETypeOK ==
  /\ e_processor \in {"none", "live", "running", "moved"}
  /\ e_fragments \in Seq(FragmentStates)
  /\ e_result \in {"none", "ok", "error"}
  /\ e_processor = "running" => e_result = "none"

EInit ==
  e_processor = "none" /\ e_fragments = <<>> /\ e_result = "none"

-------------------------------------------------------------------------------

\* Processor(), with the request that fragments take after, whose box goes to
\* Rust if there is one.
Processor ==
  /\ e_processor \in {"none", "moved"}
  /\ e_processor' = "live" /\ e_result' = "none" /\ e_fragments' = <<>>

\* process_response and process_document move the box; that of a Processor that
\* was used is null, and no program may call it.
ProcessBegins ==
  /\ e_processor' = "running"
  /\ UNCHANGED <<e_fragments, e_result>>
process_response_Again == e_processor \in {"live", "moved"} /\ ProcessBegins
process_response == e_processor = "live" /\ ProcessBegins
process_document == e_processor = "live" /\ ProcessBegins

\* What Rust makes of an error of a callback.
Failed(fragments) ==
  /\ e_fragments' = fragments
  /\ \/ UNCHANGED <<e_processor, e_result>>
     \/ e_processor' = "moved" /\ e_result' = "error"
Goes(fragments) == e_fragments' = fragments /\ UNCHANGED <<e_processor, e_result>>

\* DispatchFragmentRequestFn: nullopt is an error, a PendingRequest, a Response
\* or nothing the content.
dispatch ==
  /\ e_processor = "running" /\ Len(e_fragments) < EsiFragments
  /\ \/ Failed(Append(e_fragments, "failed"))
     \/ \E content \in {"pending", "complete", "empty"} :
          Goes(Append(e_fragments, content))

\* The host has the response of a pending fragment, or an error.
Responded(i) ==
  /\ e_processor = "running" /\ e_fragments[i] = "pending"
  /\ \/ Failed([e_fragments EXCEPT ![i] = "failed"])
     \/ Goes([e_fragments EXCEPT ![i] = "complete"])

\* ProcessFragmentResponseFn: nullopt is an error.  Without one the response is
\* written as it is.
process(i) ==
  /\ e_processor = "running" /\ e_fragments[i] = "complete"
  /\ \/ Failed([e_fragments EXCEPT ![i] = "failed"])
     \/ Goes([e_fragments EXCEPT ![i] = "written"])

ProcessEnds ==
  /\ e_processor = "running"
  /\ \A i \in 1 .. Len(e_fragments) : e_fragments[i] \notin {"pending", "complete"}
  /\ e_processor' = "moved" /\ e_result' = "ok"
  /\ UNCHANGED e_fragments

ENext ==
  \/ Processor \/ process_response \/ process_document \/ dispatch \/ ProcessEnds
  \/ \E i \in 1 .. Len(e_fragments) : Responded(i) \/ process(i)

ESpec == EInit /\ [][ENext]_evars

===============================================================================
