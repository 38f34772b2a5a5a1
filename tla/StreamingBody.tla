----------------------------- MODULE StreamingBody -----------------------------
(***************************************************************************)
(* fastly::http::StreamingBody (include/fastly/http/body.h, src/cpp/http/  *)
(* body.cpp): the writing end of a body that somebody else is reading, the *)
(* client, a backend or the cache.  Bytes wait in the put area (pbuf) of   *)
(* an object until overflow or sync hands them to the host; the host's end *)
(* moves from object to object until finish gives it up.                   *)
(*                                                                         *)
(* The n-th byte that the program puts in is the number n.  The host is    *)
(* external: it takes any part of a write, if it may refuse bytes at all.  *)
(***************************************************************************)
EXTENDS Integers, Sequences

CONSTANTS
  StreamBuf,     \* pbuf.max_size(), 512 in the code
  StreamRefuses, \* may the host refuse further bytes
  StreamMax      \* bound: the bytes that a program puts in

ASSUME StreamAssumption ==
  /\ StreamBuf \in Nat \ {0}
  /\ StreamMax \in Nat
  /\ StreamRefuses \in BOOLEAN

VARIABLES
  s_end,      \* of the stream: "open", "finished", "failed" or "dropped"
  s_count,    \* the bytes that the program put in
  s_put,      \* pbase .. pptr of the object that has the stream
  s_received, \* what the reader gets, in order
  s_bad,      \* badbit of that object
  s_told,     \* some object of the stream was bad
  s_untold,   \* bytes were refused in a call that says nothing of it
  s_ahead     \* a write or append overtook bytes that waited

svars == <<s_end, s_count, s_put, s_received, s_bad, s_told, s_untold, s_ahead>>

Numbers(i, j) == [k \in 1 .. j - i |-> i + k]

\* The put area fits in pbuf, and every byte was put in by the program.
STypeOK ==
  /\ s_end \in {"open", "finished", "failed", "dropped"}
  /\ s_count \in Nat
  /\ s_put \in Seq(1 .. s_count) /\ Len(s_put) <= StreamBuf
  /\ s_received \in Seq(1 .. s_count)
  /\ s_bad \in BOOLEAN /\ s_told \in BOOLEAN
  /\ s_untold \in BOOLEAN /\ s_ahead \in BOOLEAN

SInit ==
  /\ s_end = "open" /\ s_count = 0
  /\ s_put = <<>> /\ s_received = <<>>
  /\ s_bad = FALSE /\ s_told = FALSE /\ s_untold = FALSE /\ s_ahead = FALSE

\* from_body_handle, or a box from Rust: the next stream of the program.
SOpen ==
  /\ s_end # "open" /\ s_end' = "open" /\ s_count' = 0
  /\ s_put' = <<>> /\ s_received' = <<>>
  /\ s_bad' = FALSE /\ s_told' = FALSE /\ s_untold' = FALSE /\ s_ahead' = FALSE

\* How many of k bytes the host takes.
STaken(k) == IF StreamRefuses THEN 0 .. k ELSE {k}

\* overflow hands n bytes of the put area over; only then does it call setp.
SOverflow(n) == s_received' = s_received \o SubSeq(s_put, 1, n)
SRest_NoSetp(n) == s_put
SRest(n) == IF n = Len(s_put) THEN <<>> ELSE s_put

\* pptr is before epptr, which setp put StreamBuf away.
SRoom_OneMore == Len(s_put) <= StreamBuf
SRoom == Len(s_put) < StreamBuf

\* operator<< of one byte; a byte whose overflow failed is dropped.
SPut ==
  /\ s_end = "open" /\ ~s_bad /\ s_count < StreamMax
  /\ s_count' = s_count + 1
  /\ \/ /\ SRoom
        /\ s_put' = Append(s_put, s_count + 1)
        /\ UNCHANGED <<s_received, s_bad, s_told>>
     \/ /\ ~SRoom
        /\ \E n \in STaken(StreamBuf) :
             /\ SOverflow(n)
             /\ s_put' = IF n < StreamBuf THEN s_put
                         ELSE Append(SRest(n), s_count + 1)
             /\ s_bad' = (n < StreamBuf) /\ s_told' = (s_told \/ n < StreamBuf)
  /\ UNCHANGED <<s_end, s_untold, s_ahead>>

\* std::flush; an ostream that is bad does not call sync.
SFlush ==
  /\ s_end = "open" /\ ~s_bad
  /\ \E n \in STaken(Len(s_put)) :
       /\ SOverflow(n)
       /\ s_put' = SRest(n)
       /\ s_bad' = (n < Len(s_put)) /\ s_told' = (s_told \/ n < Len(s_put))
  /\ UNCHANGED <<s_end, s_count, s_untold, s_ahead>>

\* StreamingBody::write and append go past the put area.  The caller of write
\* learns how many bytes went in; a body is synced when it is moved into the
\* parameter of append, and nobody learns how many of its bytes were refused.
SPast(k, n) ==
  /\ s_end = "open" /\ s_count + k <= StreamMax
  /\ s_count' = s_count + k
  /\ s_received' = s_received \o Numbers(s_count, s_count + n)
  /\ s_untold' = (s_untold \/ n < k)
  /\ s_ahead' = (s_ahead \/ s_put # <<>>)
  /\ UNCHANGED <<s_end, s_put, s_bad, s_told>>
SWrite(k) == SPast(k, k)
SAppend(k) == \E n \in STaken(k) : SPast(k, n)

\* StreamingBody(StreamingBody &&other): other.sync(), its result ignored; the
\* new object has an empty put area and is good.
SMove ==
  /\ s_end = "open"
  /\ \E n \in STaken(Len(s_put)) :
       SOverflow(n) /\ s_untold' = (s_untold \/ n < Len(s_put))
  /\ s_put' = <<>> /\ s_bad' = FALSE
  /\ UNCHANGED <<s_end, s_count, s_told, s_ahead>>

\* finish: flush, unless the stream is bad, and whatever it comes to the host's
\* end goes.  The destructor does not flush.
SFinish_NoFlush ==
  /\ s_end = "open"
  /\ s_end' \in {"finished", "failed"}
  /\ s_put' = <<>>
  /\ UNCHANGED <<s_count, s_received, s_bad, s_told, s_untold, s_ahead>>
SFinish ==
  /\ s_end = "open"
  /\ s_end' \in {"finished", "failed"}
  /\ \E n \in (IF s_bad THEN {0} ELSE STaken(Len(s_put))) :
       SOverflow(n) /\ s_untold' = (s_untold \/ n < Len(s_put))
  /\ s_put' = <<>>
  /\ UNCHANGED <<s_count, s_bad, s_told, s_ahead>>
SDrop ==
  /\ s_end = "open" /\ s_end' = "dropped" /\ s_put' = <<>>
  /\ UNCHANGED <<s_count, s_received, s_bad, s_told, s_untold, s_ahead>>

SNext ==
  \/ SOpen \/ SPut \/ SFlush \/ SMove \/ SFinish \/ SDrop
  \/ \E k \in 1 .. StreamMax : SWrite(k) \/ SAppend(k)

SSpec == SInit /\ [][SNext]_svars

-------------------------------------------------------------------------------
(* Properties.                                                             *)

\* body.h:71 and body.cpp:138: a move, an append and finish tell nobody that
\* bytes were refused.  But for these, and for a write past bytes that wait, a
\* stream that was never bad reaches its reader whole and in order when finish
\* succeeds.
FinishedIsWhole ==
  s_end = "finished" /\ ~s_told /\ ~s_untold /\ ~s_ahead
    => s_received = Numbers(0, s_count)

\* body.cpp:124: a part of the put area is handed over a second time only when
\* the stream was bad before.
NoByteTwice ==
  ~s_told => \A i, j \in 1 .. Len(s_received) :
               s_received[i] = s_received[j] => i = j

===============================================================================
