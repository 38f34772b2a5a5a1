----------------------------- MODULE HttpExchange -----------------------------
(***************************************************************************)
(* Requests to backends (http/request.h, src/cpp/http/request.cpp,         *)
(* src/http/request.rs).  A C++ object of this part of the SDK is a box of *)
(* a Rust object, and every operation that sends, waits or polls moves the *)
(* box out of the C++ object, which stays in scope and is empty.  So an    *)
(* exchange wanders from a Request through PendingRequests, the parameters *)
(* of poll, wait and select and the vectors that select makes, until it    *)
(* ends as a Response or an error.                                         *)
(*                                                                         *)
(* An exchange is named by its request.  A program has one thread; while a *)
(* call of it blocks, only the backends act.  An operation on an empty     *)
(* object is an error of the program, and has no action.                   *)
(***************************************************************************)
EXTENDS Integers, FiniteSets

CONSTANTS
  Exchanges, \* the requests that a program makes
  Places,    \* the PendingRequest objects: variables, vector elements
  Empty      \* what a place has that was moved from

ASSUME ExchangeAssumption == Empty \notin Exchanges

VARIABLES
  alive,   \* the program runs
  request, \* [Exchanges -> {"none", "made", "moved"}]: the Request object
  box,     \* [Places -> Exchanges \cup {Empty}]: PendingRequest::req
  call,    \* the call that blocks
  vecreqs, \* the exchanges whose boxes were moved into that call
  result,  \* [Exchanges -> what the program got of it]
  stream,  \* [Exchanges -> the StreamingBody of the request]
  net      \* [Exchanges -> how far the backend is]

programVars == <<alive, request, box, call, vecreqs, result, stream>>
vars == <<alive, request, box, call, vecreqs, result, stream, net>>

Calls == {"none", "send", "wait", "select"}
Results == {"none", "response", "error"}
NetStates == {"idle", "streaming", "sent", "cut", "answered", "failed"}

\* Only a call that blocks has boxes; only an exchange that the backend has
\* answered has a response; the backend waits for the body of an open stream.
TypeOK ==
  /\ alive \in BOOLEAN
  /\ request \in [Exchanges -> {"none", "made", "moved"}]
  /\ box \in [Places -> Exchanges \cup {Empty}]
  /\ call \in Calls
  /\ vecreqs \in SUBSET Exchanges
  /\ vecreqs = {} <=> call = "none"
  /\ result \in [Exchanges -> Results]
  /\ stream \in [Exchanges -> {"none", "open", "finished", "dropped"}]
  /\ net \in [Exchanges -> NetStates]
  /\ \A x \in Exchanges :
       /\ result[x] = "response" => net[x] = "answered"
       /\ stream[x] = "open" => net[x] \in {"streaming", "failed"}
       /\ net[x] = "streaming" => stream[x] = "open"

Init ==
  /\ alive = TRUE
  /\ request = [x \in Exchanges |-> "none"]
  /\ box = [p \in Places |-> Empty]
  /\ call = "none"
  /\ vecreqs = {}
  /\ result = [x \in Exchanges |-> "none"]
  /\ stream = [x \in Exchanges |-> "none"]
  /\ net = [x \in Exchanges |-> "idle"]

Held(x) == x \in vecreqs \/ \E p \in Places : box[p] = x

-------------------------------------------------------------------------------
(* The backends, and what the host tells of them.                          *)

Ready(x) == net[x] \in {"answered", "failed"}

\* A backend answers a request whose body has come to its end.
Answer(x) ==
  /\ net[x] = "sent"
  /\ net' = [net EXCEPT ![x] = "answered"]
  /\ UNCHANGED programVars

\* A connection may fail or time out at any moment.
Fail(x) ==
  /\ net[x] \in {"streaming", "sent", "cut"}
  /\ net' = [net EXCEPT ![x] = "failed"]
  /\ UNCHANGED programVars

-------------------------------------------------------------------------------
(* Sending.                                                                *)

Running == alive /\ call = "none"

\* The constructors, and the requests that are clones of another.
Make(x) ==
  /\ Running
  /\ request[x] = "none"
  /\ request' = [request EXCEPT ![x] = "made"]
  /\ UNCHANGED <<alive, box, call, vecreqs, result, stream, net>>

\* The box of the request is moved to Rust before the host is asked.
MoveOut(x) ==
  /\ Running
  /\ request[x] = "made"
  /\ request' = [request EXCEPT ![x] = "moved"]
  /\ UNCHANGED alive

\* The host does not take the request: an error, and the request is gone.  (A
\* name of a backend that is not known is an error that leaves the request.)
Refuse(x) ==
  /\ MoveOut(x)
  /\ result' = [result EXCEPT ![x] = "error"]
  /\ UNCHANGED <<box, call, vecreqs, stream, net>>

send(x) ==
  /\ MoveOut(x)
  /\ net' = [net EXCEPT ![x] = "sent"]
  /\ call' = "send"
  /\ vecreqs' = {x}
  /\ UNCHANGED <<box, result, stream>>

send_async(x, p) ==
  /\ MoveOut(x)
  /\ box[p] = Empty
  /\ box' = [box EXCEPT ![p] = x]
  /\ net' = [net EXCEPT ![x] = "sent"]
  /\ UNCHANGED <<call, vecreqs, result, stream>>

send_async_streaming(x, p) ==
  /\ MoveOut(x)
  /\ box[p] = Empty
  /\ box' = [box EXCEPT ![p] = x]
  /\ net' = [net EXCEPT ![x] = "streaming"]
  /\ stream' = [stream EXCEPT ![x] = "open"]
  /\ UNCHANGED <<call, vecreqs, result>>

\* StreamingBody::finish, and the end of a StreamingBody without it, or with a
\* finish that the host refuses.
EndStream_Silent(x, state, then) ==
  /\ Running
  /\ stream[x] = "open"
  /\ stream' = [stream EXCEPT ![x] = state]
  /\ UNCHANGED <<alive, request, box, call, vecreqs, result, net>>
EndStream(x, state, then) ==
  /\ Running
  /\ stream[x] = "open"
  /\ stream' = [stream EXCEPT ![x] = state]
  /\ net' = [net EXCEPT ![x] = IF @ = "streaming" THEN then ELSE @]
  /\ UNCHANGED <<alive, request, box, call, vecreqs, result>>

finish(x) == EndStream(x, "finished", "sent")
DropStream(x) == EndStream(x, "dropped", "cut")

-------------------------------------------------------------------------------
(* Pending requests.                                                       *)

\* The expected<Response> that poll, wait, send and select make of a result.
Got_NoError(x) == result' = [result EXCEPT ![x] = "response"]
Got(x) ==
  result' = [result EXCEPT ![x] = IF net[x] = "answered" THEN "response" ELSE "error"]

\* The box goes into poll.  A request that is not ready comes back in the
\* variant that poll returns, as another object.
poll_Copies(p, q) ==
  /\ Running
  /\ box[p] # Empty
  /\ \/ /\ Ready(box[p])
        /\ Got(box[p])
        /\ UNCHANGED box
     \/ /\ ~Ready(box[p])
        /\ q = p \/ box[q] = Empty
        /\ box' = [box EXCEPT ![p] = Empty, ![q] = box[p]]
        /\ UNCHANGED result
  /\ UNCHANGED <<alive, request, call, vecreqs, stream, net>>
poll(p, q) ==
  /\ Running
  /\ box[p] # Empty
  /\ \/ /\ Ready(box[p])
        /\ Got(box[p])
        /\ box' = [box EXCEPT ![p] = Empty]
     \/ /\ ~Ready(box[p])
        /\ q = p \/ box[q] = Empty
        /\ box' = [box EXCEPT ![p] = Empty, ![q] = box[p]]
        /\ UNCHANGED result
  /\ UNCHANGED <<alive, request, call, vecreqs, stream, net>>

\* The boxes of the places P go into a call that blocks.
Block(op, P) ==
  /\ Running
  /\ call' = op
  /\ vecreqs' = {box[p] : p \in P}
  /\ box' = [p \in Places |-> IF p \in P THEN Empty ELSE box[p]]
  /\ UNCHANGED <<alive, request, result, stream, net>>

wait(p) == box[p] # Empty /\ Block("wait", {p})

\* An empty vector makes the host's select panic.
select(P) ==
  /\ P # {} /\ \A p \in P : box[p] # Empty
  /\ Block("select", P)

\* What select returns beside the result of x, whether that is a response or
\* an error.
Others_OfResponse(x) == IF net[x] = "answered" THEN vecreqs \ {x} ELSE {}
Others(x) == vecreqs \ {x}

\* All ways to put the exchanges of S, each into a place of its own.
Placed(S) ==
  LET free == {p \in Places : box[p] = Empty}
  IN  {b \in [Places -> S \cup {box[p] : p \in Places}] :
         /\ \A p \in Places \ free : b[p] = box[p]
         /\ \A p \in free : b[p] \in S \cup {Empty}
         /\ \A y \in S : \E p \in free : b[p] = y
         /\ \A p, q \in free : b[p] = b[q] /\ b[p] \in S => p = q}

\* The requests that the call may return with.
Chosen_OfAll(x) == x \in vecreqs /\ \A y \in vecreqs : Ready(y)
Chosen(x) == x \in vecreqs /\ Ready(x)

Return(x) ==
  /\ alive /\ Chosen(x)
  /\ Got(x)
  /\ box' \in Placed(Others(x))
  /\ call' = "none"
  /\ vecreqs' = {}
  /\ UNCHANGED <<alive, request, stream, net>>

\* The destructor of a PendingRequest: the request goes on without it.
DropPending(p) ==
  /\ Running
  /\ box[p] # Empty
  /\ box' = [box EXCEPT ![p] = Empty]
  /\ UNCHANGED <<alive, request, call, vecreqs, result, stream, net>>

\* The end of the program, by a return or a trap, also while it blocks.
End ==
  /\ alive
  /\ alive' = FALSE
  /\ box' = [p \in Places |-> Empty]
  /\ call' = "none"
  /\ vecreqs' = {}
  /\ stream' = [x \in Exchanges |-> IF stream[x] = "open" THEN "dropped" ELSE stream[x]]
  /\ net' = [x \in Exchanges |-> IF net[x] = "streaming" THEN "cut" ELSE net[x]]
  /\ UNCHANGED <<request, result>>

-------------------------------------------------------------------------------
Next ==
  \/ \E x \in Exchanges :
       \/ Make(x) \/ Refuse(x) \/ send(x) \/ finish(x) \/ DropStream(x)
       \/ \E p \in Places : send_async(x, p) \/ send_async_streaming(x, p)
       \/ Return(x) \/ Answer(x) \/ Fail(x)
  \/ \E p, q \in Places : poll(p, q)
  \/ \E p \in Places : wait(p) \/ DropPending(p)
  \/ \E P \in SUBSET Places : select(P)
  \/ End

Spec == Init /\ [][Next]_vars

\* Backends answer or time out, but one that waits for the rest of a body may do
\* so for ever; a call whose request is ready returns.
Fairness ==
  \A x \in Exchanges :
    /\ WF_vars(Answer(x) \/ (net[x] # "streaming" /\ Fail(x)))
    /\ WF_vars(Return(x))

FairSpec == Spec /\ Fairness

-------------------------------------------------------------------------------
(* Properties.                                                             *)

\* However boxes are moved among requests, pending requests, calls and the
\* vectors of select, no exchange is in two of them, and none is still pending
\* that the program has the result of: no response comes twice.
OneOwner ==
  /\ \A p, q \in Places : box[p] = box[q] /\ box[p] # Empty => p = q
  /\ \A p \in Places : box[p] \notin vecreqs
  /\ \A x \in Exchanges : Held(x) => request[x] = "moved" /\ result[x] = "none"

Outcome(x) ==
  CASE result[x] # "none"                             -> result[x]
    [] result[x] = "none" /\ request[x] # "moved"     -> "unsent"
    [] result[x] = "none" /\ request[x] = "moved"     ->
         IF Held(x) THEN "pending" ELSE "abandoned"

\* Every request comes to one result, that of its own exchange, unless the
\* program drops it: poll, wait and select lose none, also when the one that
\* became ready is an error.
Promise == INSTANCE Answers WITH
  outcome  <- [x \in Exchanges |-> Outcome(x)],
  answered <- {x \in Exchanges : net[x] = "answered"},
  failed   <- {x \in Exchanges : net[x] = "failed"}
IsAnswers == Promise!AnswersSpec

\* What a call waits for can come, and the call can return then: each of its
\* requests is done, or with a backend that has its whole body, or in the midst
\* of a body that the program still has to send, which is never so in send; and
\* whichever is done first, there is room for the others.
CallsCanReturn ==
  \A x \in vecreqs :
    /\ \/ Ready(x)
       \/ net[x] \in {"sent", "cut"}
       \/ net[x] = "streaming" /\ stream[x] = "open" /\ call # "send"
    /\ Placed(Others(x)) # {}

\* A call of send, wait or select comes back, however many requests it is given
\* that are still without an end, if one of them has its whole body.
CallsReturn ==
  call # "none" /\ (\E x \in vecreqs : stream[x] # "open") ~> call = "none"

===============================================================================
