------------------------------ MODULE HttpMessage ------------------------------
(***************************************************************************)
(* The objects Request and Response of a program (http/request.h,          *)
(* http/response.h and their .cpp): each holds a box with a message of the *)
(* Rust SDK.  A set_ method changes the message in its place; a with_      *)
(* method is the set_ method and then std::move( *this ).  try_fe! of the  *)
(* bridge refuses a value before anything is changed, through an error     *)
(* pointer that the C++ side turns into a fastly::expected.                *)
(*                                                                         *)
(* A message is the set of the fields that were set in it, and its body.   *)
(* What can be in a header is in HeaderRanges; send and its likes are in   *)
(* HttpExchange.                                                           *)
(***************************************************************************)
EXTENDS Integers, FiniteSetsExt

CONSTANTS
  Msgs,      \* the objects: variables and temporaries
  MsgBodies, \* the host's bodies
  NoBody,    \* a message without a body
  MaxSet     \* bound: when a field is set, the fields of all messages and the bodies

ASSUME MsgAssumption == NoBody \notin MsgBodies /\ MaxSet \in Nat

VARIABLES
  m_msg,   \* [Msgs -> the message of the box, if there is one]
  m_held,  \* the bodies that are in Body objects of the program
  m_once,  \* the calls made that a program may make once
  m_error  \* the object for which the last call answered an error, if it did

mvars == <<m_msg, m_held, m_once, m_error>>

\* What set_pass(true) overrides, and what a new URL replaces.
Overrides == {"ttl", "stale_while_revalidate", "pci", "surrogate_key"}
UrlParts == {"path", "query"}
\* "header" stands for all headers, "other" for what nothing else depends on:
\* method, version, status, auto_decompress_gzip and cache_key.
ReqFields == {"url", "header", "pass", "other"} \cup Overrides \cup UrlParts
RespFields == {"header", "other"}

Once == {"from_client", "send_to_client"}

Message(kind, from, set, body) ==
  [kind |-> kind, from |-> from, set |-> set, body |-> body]
Messages ==
  [kind : {"request"}, from : {"program"}, set : SUBSET ReqFields,
   body : MsgBodies \cup {NoBody}] \cup
  [kind : {"response"}, from : {"program", "backend", "asked"},
   set : SUBSET RespFields, body : MsgBodies \cup {NoBody}]

\* No object, or one whose box was moved from.
Gone(how) == Message(how, "program", {}, NoBody)
Places == {Gone(how) : how \in {"none", "moved"}}

Live(m) == m_msg[m].kind \in {"request", "response"}
Open(m) == ~Live(m)
Has(m, kind) == m_msg[m].kind = kind

\* No message passes and overrides the cache at once; fields are those of its
\* kind.
MTypeOK ==
  /\ m_msg \in [Msgs -> Messages \cup Places]
  /\ m_held \in SUBSET MsgBodies
  /\ m_once \in SUBSET Once
  /\ m_error \in SUBSET Msgs
  /\ \A m \in Msgs : Live(m) /\ "pass" \in m_msg[m].set =>
                       m_msg[m].set \cap Overrides = {}

MInit ==
  /\ m_msg = [m \in Msgs |-> Gone("none")]
  /\ m_held = {} /\ m_once = {} /\ m_error = {}

\* The bodies of messages, and those that nobody has.
BodyOf(m) == IF Live(m) THEN m_msg[m].body ELSE NoBody
Fresh == MsgBodies \ (m_held \cup {BodyOf(m) : m \in Msgs})

\* Room under the bound for set in the place of the fields of m.
MRoom(m, set) ==
  Cardinality(set) + Cardinality(MsgBodies \ Fresh)
    + MapThenSumSet(LAMBDA o : Cardinality(m_msg[o].set), Msgs \ {m}) <= MaxSet

\* Rust panics: the instance ends, and the next one begins with nothing.
Panic ==
  /\ m_msg' = [m \in Msgs |-> Gone("none")]
  /\ m_held' = {} /\ m_once' = {} /\ m_error' = {}

-------------------------------------------------------------------------------
(* Messages come and go. *)

MMake(m, msg) ==
  /\ Open(m) /\ MRoom(m, msg.set)
  /\ m_msg' = [m_msg EXCEPT ![m] = msg]
  /\ m_error' = {}

\* Request::get and its likes, the constructors and create; create may refuse
\* the method.
NewRequest(m) ==
  MMake(m, Message("request", "program", {}, NoBody)) /\ UNCHANGED <<m_held, m_once>>
\* Response(), from_status, see_other, redirect and temporary_redirect.
NewResponse(m) ==
  \E set \in {{}, {"other"}, {"other", "header"}} :
    /\ MMake(m, Message("response", "program", set, NoBody))
    /\ UNCHANGED <<m_held, m_once>>
from_body(m) ==
  \E b \in m_held :
    /\ MMake(m, Message("response", "program", {}, b))
    /\ m_held' = m_held \ {b}
    /\ UNCHANGED m_once

\* Request::from_client; a second call of the instance panics.
from_client(m) ==
  \/ "from_client" \in m_once /\ Panic
  \/ /\ "from_client" \notin m_once
     /\ \E b \in Fresh : MMake(m, Message("request", "program", {}, b))
     /\ m_once' = m_once \cup {"from_client"} /\ UNCHANGED m_held

\* A backend's response, as send, wait and select give it to the program.
Receive(m) ==
  \E b \in Fresh :
    /\ MMake(m, Message("response", "backend", {}, b))
    /\ UNCHANGED <<m_held, m_once>>

\* clone_without_body and clone_with_body read nothing else from the message.
Clone(m, c) ==
  /\ Live(m)
  /\ \E b \in IF m_msg[m].body = NoBody THEN {NoBody} ELSE Fresh \cup {NoBody} :
       MMake(c, Message(m_msg[m].kind, "program", m_msg[m].set, b))
  /\ UNCHANGED <<m_held, m_once>>

\* Response::take_backend_request, once for a response.
take_backend_request(m, c) ==
  /\ Has(m, "response") /\ m_msg[m].from = "backend" /\ m # c
  /\ Open(c)
  /\ m_msg' = [m_msg EXCEPT ![m].from = "asked",
                 ![c] = Message("request", "program", {}, NoBody)]
  /\ m_error' = {} /\ UNCHANGED <<m_held, m_once>>

DestroyMessage(m) ==
  /\ ~Has(m, "none")
  /\ m_msg' = [m_msg EXCEPT ![m] = Gone("none")]
  /\ m_error' = {} /\ UNCHANGED <<m_held, m_once>>

\* send_to_client and stream_to_client, which panic when a response was sent.
send_to_client(m) ==
  /\ Has(m, "response")
  /\ \/ "send_to_client" \in m_once /\ Panic
     \/ /\ "send_to_client" \notin m_once
        /\ m_once' = m_once \cup {"send_to_client"}
        /\ m_msg' = [m_msg EXCEPT ![m] = Gone("moved")]
        /\ m_error' = {} /\ UNCHANGED m_held

-------------------------------------------------------------------------------
(* Fields.  c is m for a set_ method; for a with_ method it is the object    *)
(* that the message moves to, unless an error is answered.                   *)

MResult(m, c, msg, error) ==
  /\ c # m => Open(c)
  /\ m_msg' = IF error THEN [m_msg EXCEPT ![m] = msg]
              ELSE [m_msg EXCEPT ![m] = Gone("moved"), ![c] = msg]
  /\ m_error' = {o \in {m} : error}
  /\ UNCHANGED m_once

With(m, set) == [m_msg[m] EXCEPT !.set = set]

\* A method that cannot fail, and one whose argument Rust may refuse.
Plain(m, c, set) ==
  /\ MRoom(m, set)
  /\ MResult(m, c, With(m, set), FALSE) /\ UNCHANGED m_held
Unset(m, set) == m_msg[m].set \ set
Try(m, c, set) ==
  /\ MRoom(m, set)
  /\ \E refused \in BOOLEAN :
       MResult(m, c, IF refused THEN m_msg[m] ELSE With(m, set), refused)
  /\ UNCHANGED m_held

\* Of requests.
set_method(m, c) == Has(m, "request") /\ Try(m, c, m_msg[m].set \cup {"other"})
set_url(m, c) == Has(m, "request") /\ Try(m, c, Unset(m, UrlParts) \cup {"url"})
set_path(m, c) == Has(m, "request") /\ Try(m, c, m_msg[m].set \cup {"path"})
set_query_string(m, c) == Has(m, "request") /\ Try(m, c, m_msg[m].set \cup {"query"})
remove_query(m) == Has(m, "request") /\ Plain(m, m, Unset(m, {"query"}))
set_surrogate_key(m, c) ==
  Has(m, "request") /\ Try(m, c, Unset(m, {"pass"}) \cup {"surrogate_key"})

\* set_ttl, set_stale_while_revalidate and set_pci.  with_ttl calls set_pass
\* with the number of seconds as a truth value.
Pass_KeepsTtl(m, pass) ==
  IF pass THEN m_msg[m].set \cup {"pass"} ELSE Unset(m, {"pass"})
Pass(m, pass) ==
  IF pass THEN Unset(m, Overrides) \cup {"pass"} ELSE Unset(m, {"pass"})
set_pass(m, c) ==
  Has(m, "request") /\ \E pass \in BOOLEAN : Plain(m, c, Pass(m, pass))
Override(m, c, field) ==
  Has(m, "request") /\ Plain(m, c, Unset(m, {"pass"}) \cup {field})
with_ttl(m, c, seconds) ==
  Has(m, "request") /\ c # m /\ Plain(m, c, Pass(m, seconds # 0))

set_auto_decompress_gzip(m, c) ==
  Has(m, "request") /\ Plain(m, c, m_msg[m].set \cup {"other"})
set_cache_key(m, c) == Has(m, "request") /\ Plain(m, c, m_msg[m].set \cup {"other"})

\* Of both, and of responses.
set_header(m, c) == Live(m) /\ Try(m, c, m_msg[m].set \cup {"header"})
remove_header(m) == Live(m) /\ Try(m, m, Unset(m, {"header"}))
set_version(m, c) == Live(m) /\ Plain(m, c, m_msg[m].set \cup {"other"})
set_status(m, c) == Has(m, "response") /\ Plain(m, c, m_msg[m].set \cup {"other"})

-------------------------------------------------------------------------------
(* Bodies. *)

\* set_body and with_body; the body that was there goes.
set_body_Shared(m, c) ==
  /\ Live(m)
  /\ \E b \in m_held : MResult(m, c, [m_msg[m] EXCEPT !.body = b], FALSE)
  /\ UNCHANGED m_held
set_body(m, c) ==
  /\ Live(m)
  /\ \E b \in m_held :
       /\ MResult(m, c, [m_msg[m] EXCEPT !.body = b], FALSE)
       /\ m_held' = m_held \ {b}

\* Response::append_body, of a body that is read behind the one there is.
append_body(m) ==
  /\ Has(m, "response")
  /\ \E b \in m_held :
       /\ MResult(m, m, [m_msg[m] EXCEPT !.body = IF @ = NoBody THEN b ELSE @], FALSE)
       /\ m_held' = m_held \ {b}

\* take_body leaves the message without one, and into_body ends the message;
\* there is always a body to return.
Given(m) == IF m_msg[m].body = NoBody THEN Fresh ELSE {m_msg[m].body}
take_body(m) ==
  /\ Live(m)
  /\ MResult(m, m, [m_msg[m] EXCEPT !.body = NoBody], FALSE)
  /\ \E b \in Given(m) : m_held' = m_held \cup {b}
into_body(m) ==
  /\ Live(m)
  /\ \E b \in Given(m) : m_held' = m_held \cup {b}
  /\ m_msg' = [m_msg EXCEPT ![m] = Gone("moved")]
  /\ m_error' = {} /\ UNCHANGED m_once
DropBody(b) ==
  b \in m_held /\ m_held' = m_held \ {b} /\ m_error' = {} /\ UNCHANGED <<m_msg, m_once>>

\* The text methods refuse what is not UTF-8.  set_body_text_html of a response
\* has its two returns the wrong way round.
Text(m, b) ==
  [m_msg[m] EXCEPT !.body = b, !.set = @ \cup {"header"}]
TextWith(m, c, refused, error) ==
  /\ Live(m)
  /\ MRoom(m, m_msg[m].set \cup {"header"})
  /\ \E b \in Fresh : MResult(m, c, IF refused THEN m_msg[m] ELSE Text(m, b), error)
  /\ UNCHANGED m_held
Tells_Inverted(m, refused) == ~refused
Tells(m, refused) == IF m_msg[m].kind = "request" THEN refused ELSE ~refused
set_body_text_plain(m, c) ==
  \E refused \in BOOLEAN : TextWith(m, c, refused, refused)
set_body_text_html(m, c) ==
  \E refused \in BOOLEAN : TextWith(m, c, refused, Tells(m, refused))

\* set_body_octet_stream cannot fail; set_content_type panics on a bad type.
set_body_octet_stream(m, c) ==
  /\ Live(m)
  /\ MRoom(m, m_msg[m].set \cup {"header"})
  /\ \E b \in Fresh : MResult(m, c, Text(m, b), FALSE)
  /\ UNCHANGED m_held
set_content_type(m, c) ==
  Live(m) /\ (Plain(m, c, m_msg[m].set \cup {"header"}) \/ Panic)

-------------------------------------------------------------------------------

MNext ==
  \/ \E m \in Msgs :
       \/ NewRequest(m) \/ NewResponse(m) \/ from_body(m) \/ from_client(m)
       \/ Receive(m) \/ DestroyMessage(m) \/ send_to_client(m)
       \/ remove_query(m) \/ remove_header(m)
       \/ append_body(m) \/ take_body(m) \/ into_body(m)
  \/ \E m, c \in Msgs :
       \/ \E seconds \in 0 .. 1 : with_ttl(m, c, seconds)
       \/ Clone(m, c) \/ take_backend_request(m, c)
       \/ set_method(m, c) \/ set_url(m, c) \/ set_path(m, c)
       \/ set_query_string(m, c) \/ set_surrogate_key(m, c) \/ set_pass(m, c)
       \/ Override(m, m, "ttl")
       \/ \E field \in {"stale_while_revalidate", "pci"} : Override(m, c, field)
       \/ set_auto_decompress_gzip(m, c) \/ set_cache_key(m, c)
       \/ set_header(m, c) \/ set_version(m, c) \/ set_status(m, c)
       \/ set_body(m, c) \/ set_body_text_plain(m, c) \/ set_body_text_html(m, c)
       \/ set_body_octet_stream(m, c) \/ set_content_type(m, c)
  \/ \E b \in MsgBodies : DropBody(b)

MSpec == MInit /\ [][MNext]_mvars

-------------------------------------------------------------------------------
(* Properties.                                                             *)

\* However messages are chained, cloned, taken apart and put together, a body
\* has one owner: a message or a Body object.
OneBodyOwner ==
  /\ \A m, o \in Msgs : m # o /\ BodyOf(m) # NoBody => BodyOf(m) # BodyOf(o)
  /\ \A m \in Msgs : BodyOf(m) \notin m_held

\* test/request.cpp: "The request's method is unchanged after a failed
\* set_method."  A request for which an error is answered is where and as it was.
RequestErrors ==
  [][\A m \in Msgs :
       m \in m_error' /\ Has(m, "request") => m_msg' = m_msg]_mvars

\* response.h:224: set_body_text_html is to "set the given string as the
\* response's body"; a call that has set it answers no error.
ResponseErrors ==
  [][\A m \in Msgs :
       m \in m_error' /\ Has(m, "response") => m_msg' = m_msg]_mvars

\* request.h: with_ttl is the builder-style equivalent of set_ttl, which "sets
\* the Request::set_pass() behavior to false".
TtlIsNotPass ==
  [][\A m, c \in Msgs, seconds \in 0 .. 1 :
       with_ttl(m, c, seconds) => "pass" \notin m_msg'[c].set]_mvars

===============================================================================
