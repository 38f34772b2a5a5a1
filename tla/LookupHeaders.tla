----------------------------- MODULE LookupHeaders -----------------------------
(***************************************************************************)
(* The headers of a cache operation (cache/core.h, src/cpp/cache/core.cpp: *)
(* LookupBuilder, TransactionLookupBuilder, InsertBuilder and Replace keep *)
(* them alike).  They are those of an otherwise empty request of the host, *)
(* whose handle the options keep in an optional<RequestHandle>.  A         *)
(* RequestHandle is copied as the number it is, and each copy closes the   *)
(* handle when it goes.                                                    *)
(***************************************************************************)
EXTENDS Integers, FiniteSets

CONSTANTS
  Builders, \* the builder objects: variables and temporaries
  Handles,  \* the numbers of the host's requests
  Names,    \* names of headers
  None      \* an empty optional; no answer yet

ASSUME HeadersAssumption == None \notin Handles

VARIABLES
  builder,         \* [Builders -> {"none", "live", "moved"}]
  request_headers, \* [Builders -> Handles \cup {None}], kept by moved ones too
  asked,           \* [Builders -> the headers that the program set]
  open_requests,            \* the handles that are open in the host
  headers,         \* [Handles -> the headers of the request in the host]
  answer           \* the last execute: what was asked for, what it came to

lvars == <<builder, request_headers, asked, open_requests, headers, answer>>

BadHandle == "BadHandle"
LookupAnswers == [asked : SUBSET Names, with : SUBSET Names, code : {"Ok", "BadHandle"}]

\* A builder has a handle if, and only if, a header was set in it or in the one
\* that it was made from.
LTypeOK ==
  /\ builder \in [Builders -> {"none", "live", "moved"}]
  /\ request_headers \in [Builders -> Handles \cup {None}]
  /\ asked \in [Builders -> SUBSET Names]
  /\ open_requests \in SUBSET Handles
  /\ headers \in [Handles -> SUBSET Names]
  /\ answer \in LookupAnswers \cup {None}
  /\ \A b \in Builders :
       builder[b] = "live" => (request_headers[b] = None <=> asked[b] = {})

LInit ==
  /\ builder = [b \in Builders |-> "none"]
  /\ request_headers = [b \in Builders |-> None]
  /\ asked = [b \in Builders |-> {}]
  /\ open_requests = {}
  /\ headers = [h \in Handles |-> {}]
  /\ answer = None

-------------------------------------------------------------------------------

\* cache::core::lookup, insert, replace and the like.
NewBuilderObject(b) ==
  /\ builder[b] = "none"
  /\ builder' = [builder EXCEPT ![b] = "live"]
  /\ asked' = [asked EXCEPT ![b] = {}]
  /\ UNCHANGED <<request_headers, open_requests, headers, answer>>

\* What is open when RequestHandle(h) has been assigned to the optional, from
\* a temporary whose destructor ends the statement.
Assigned_Moves(h) == open_requests \cup {h}
Assigned(h) == (open_requests \cup {h}) \ {h}

\* The handle that set_request_header_values uses, the number in the optional
\* or a new one, and what is open then.
Uses(b, h, opened) ==
  \/ /\ request_headers[b] # None
     /\ h = request_headers[b] /\ opened = open_requests
  \/ /\ request_headers[b] = None
     /\ h \notin open_requests /\ opened = Assigned(h)

\* http_req_header_values_set, whose status nobody looks at.
SetHeader(h, name, opened, made) ==
  headers' = [headers EXCEPT ![h] =
                (IF made THEN {} ELSE @) \cup (IF h \in opened THEN {name} ELSE {})]

\* A setter returns std::move(*this): c, with a copy of the RequestHandle, while
\* b keeps its own until it is destroyed.
header_values(b, c, name) ==
  /\ builder[b] = "live" /\ builder[c] = "none"
  /\ \E h \in Handles, opened \in SUBSET Handles :
       /\ Uses(b, h, opened)
       /\ open_requests' = opened
       /\ SetHeader(h, name, opened, request_headers[b] = None)
       /\ request_headers' = [request_headers EXCEPT ![b] = h, ![c] = h]
  /\ builder' = [builder EXCEPT ![b] = "moved", ![c] = "live"]
  /\ asked' = [asked EXCEPT ![c] = asked[b] \cup {name}]
  /\ UNCHANGED answer

\* The setters of other options, and a copy of a builder.
CopyTo_NoHeaders(b, c, left) ==
  /\ builder[b] = "live" /\ builder[c] = "none"
  /\ builder' = [builder EXCEPT ![b] = left, ![c] = "live"]
  /\ asked' = [asked EXCEPT ![c] = asked[b]]
  /\ UNCHANGED <<request_headers, open_requests, headers, answer>>
CopyTo(b, c, left) ==
  /\ builder[b] = "live" /\ builder[c] = "none"
  /\ builder' = [builder EXCEPT ![b] = left, ![c] = "live"]
  /\ request_headers' = [request_headers EXCEPT ![c] = request_headers[b]]
  /\ asked' = [asked EXCEPT ![c] = asked[b]]
  /\ UNCHANGED <<open_requests, headers, answer>>

on_behalf_of(b, c) == CopyTo(b, c, "moved")
CopyBuilder(b, c) == CopyTo(b, c, "live")

\* The end of a builder, with ~RequestHandle.  Closing a handle that is not open
\* is an error that nobody looks at.
DestroyBuilder(b) ==
  /\ builder[b] # "none"
  /\ builder' = [builder EXCEPT ![b] = "none"]
  /\ request_headers' = [request_headers EXCEPT ![b] = None]
  /\ open_requests' = open_requests \ {request_headers[b]}
  /\ UNCHANGED <<asked, headers, answer>>

\* What the host takes the options of as_abi for.
Looked(b) ==
  LET h == request_headers[b]
  IN  [asked |-> asked[b], with |-> IF h \in open_requests THEN headers[h] ELSE {},
       code |-> IF h \in open_requests \cup {None} THEN "Ok" ELSE BadHandle]

\* execute, and execute_async; the builder is left as it is.
execute(b) ==
  /\ builder[b] = "live"
  /\ answer' = Looked(b)
  /\ UNCHANGED <<builder, request_headers, asked, open_requests, headers>>

LNext ==
  \/ \E b \in Builders : NewBuilderObject(b) \/ DestroyBuilder(b) \/ execute(b)
  \/ \E b, c \in Builders : on_behalf_of(b, c) \/ CopyBuilder(b, c)
  \/ \E b, c \in Builders, name \in Names : header_values(b, c, name)

LSpec == LInit /\ [][LNext]_lvars

-------------------------------------------------------------------------------
(* Properties.                                                             *)

\* However builders are chained, copied, kept and dropped, an operation without
\* headers is not disturbed by the handles of others, and one with headers is
\* refused, as its handle was closed before the first header was set.
RefusedIffHeaders ==
  answer # None => (answer.code = BadHandle <=> answer.asked # {})

\* core.h:416 and 442: header and header_values set a header for this lookup.
HeadersAreUsed == answer # None => answer.with = answer.asked

===============================================================================
