------------------------------ MODULE BodyStream ------------------------------
(***************************************************************************)
(* fastly::http::Body (include/fastly/http/body.h, src/cpp/http/body.cpp): *)
(* an iostream over a body the host keeps.  Each Body object has a put     *)
(* area (pbuf) that overflow and sync write to the host and a get area     *)
(* (gbuf) that underflow fills from the host; the host's body is owned     *)
(* through a box (bod) that moves from object to object.                   *)
(*                                                                         *)
(* The host and the Rust wrapper are external: a write may be accepted in  *)
(* part, a write that accepts nothing means end of file, and a read        *)
(* returns any number of the bytes that are there.                         *)
(***************************************************************************)
EXTENDS Integers, Sequences, FiniteSetsExt

CONSTANTS
  Bodies,    \* the Body objects of a program
  Bytes,     \* the values of a byte
  EofByte,   \* the byte whose plain char, 0xFF, is traits_type::eof()
  BufSize,   \* pbuf.max_size() and gbuf.max_size(), 512 in the code
  HostEofs,  \* may the host refuse further bytes of a body
  MaxLen     \* bound: bytes all bodies hold before another is put in

ASSUME BodyAssumption ==
  /\ BufSize \in Nat \ {0}
  /\ MaxLen \in Nat
  /\ HostEofs \in BOOLEAN

VARIABLES
  life,  \* [Bodies -> Lives]
  host,  \* the bytes behind bod: written and not yet read
  put,   \* pbase .. pptr
  get,   \* gptr .. egptr
  bad,   \* badbit of the iostream
  eof,   \* the last call on the body was a read that answered end of file
  in,    \* the bytes the program put in with the last call
  out    \* the bytes the program got from the last call

vars == <<life, host, put, get, bad, eof, in, out>>

Lives == {"unborn", "live", "moved", "given"}

\* What the program put into b and has not got back, in order.
Content(b) == get[b] \o host[b] \o put[b]

\* Room for k more bytes under the bound.
Room(k) == MapThenSumSet(LAMBDA b : Len(Content(b)), Bodies) + k <= MaxLen

Chunks == UNION {[1 .. n -> Bytes] : n \in 0 .. MaxLen}

\* The values of pbuf and gbuf.
Areas == {s \in Seq(Bytes) : Len(s) <= BufSize}

\* The put and get areas never outgrow pbuf and gbuf.
TypeOK ==
  /\ life \in [Bodies -> Lives]
  /\ host \in [Bodies -> Seq(Bytes)]
  /\ put \in [Bodies -> Areas]
  /\ get \in [Bodies -> Areas]
  /\ bad \in [Bodies -> BOOLEAN]
  /\ eof \in [Bodies -> BOOLEAN]
  /\ in \in Seq(Bytes)
  /\ out \in Seq(Bytes)

Init ==
  /\ life = [b \in Bodies |-> "unborn"]
  /\ host = [b \in Bodies |-> <<>>]
  /\ put = [b \in Bodies |-> <<>>]
  /\ get = [b \in Bodies |-> <<>>]
  /\ bad = [b \in Bodies |-> FALSE]
  /\ eof = [b \in Bodies |-> FALSE]
  /\ in = <<>>
  /\ out = <<>>

\* A call that puts in i, gets out o and does not answer end of file.
Call(b, i, o) ==
  /\ in' = i
  /\ out' = o
  /\ eof' = [eof EXCEPT ![b] = FALSE]

-------------------------------------------------------------------------------
(* The put area. *)

\* How many of k bytes the loop in overflow gets written: all of them, or
\* those before the write that accepts none.
Accepted(k) == IF HostEofs THEN 0 .. k ELSE {k}

\* The host's body when the host took n bytes of the put area.
Written(b, n) == host[b] \o SubSeq(put[b], 1, n)

\* The put area after overflow or sync: only a complete write reaches setp.
Unwritten_NoSetp(b, n) == put[b]
Unwritten(b, n) == IF n = Len(put[b]) THEN <<>> ELSE put[b]

\* A failed write makes overflow and sync answer end of file, which the
\* stream turns into badbit.
Reported(b, n) == n < Len(put[b])

\* Room in the put area: pptr is before epptr, which setp put BufSize away.
HasRoom_OneMore(b) == Len(put[b]) <= BufSize
HasRoom(b) == Len(put[b]) < BufSize

\* Body(std::string) and its likes: operator<<, which overflows each time the
\* put area is full, then std::flush.  When the host takes only n bytes, the
\* put area still holds the stretch of s in which the writing stopped.
Construct(b, s) ==
  /\ life[b] = "unborn"
  /\ Room(Len(s))
  /\ life' = [life EXCEPT ![b] = "live"]
  /\ \E n \in Accepted(Len(s)) :
       LET start == n - (n % BufSize)
           stop == IF start + BufSize < Len(s) THEN start + BufSize ELSE Len(s)
       IN /\ host' = [host EXCEPT ![b] = SubSeq(s, 1, n)]
          /\ put' = [put EXCEPT ![b] =
                       IF n = Len(s) THEN <<>> ELSE SubSeq(s, start + 1, stop)]
          /\ bad' = [bad EXCEPT ![b] = n < Len(s)]
  /\ Call(b, s, <<>>)
  /\ UNCHANGED get

\* Body(std::vector<uint8_t>): the loop of fill_from_vec runs while the
\* result of the last write is not 0, and that result starts as 0.
ConstructFromVec(b, s) ==
  /\ life[b] = "unborn"
  /\ Room(Len(s))
  /\ life' = [life EXCEPT ![b] = "live"]
  /\ Call(b, s, <<>>)
  /\ UNCHANGED <<host, put, get, bad>>

\* operator<< of one byte: sputc, and overflow when the put area is full.
Put(b, c) ==
  /\ life[b] = "live"
  /\ ~bad[b]
  /\ Room(1)
  /\ \/ /\ HasRoom(b)
        /\ put' = [put EXCEPT ![b] = Append(@, c)]
        /\ UNCHANGED <<host, bad>>
     \/ /\ ~HasRoom(b)
        /\ \E n \in Accepted(Len(put[b])) :
             /\ host' = [host EXCEPT ![b] = Written(b, n)]
             /\ put' = [put EXCEPT ![b] =
                          IF n = Len(@) THEN Append(Unwritten(b, n), c) ELSE @]
             /\ bad' = [bad EXCEPT ![b] = Reported(b, n)]
  /\ Call(b, <<c>>, <<>>)
  /\ UNCHANGED <<life, get>>

\* std::flush: sync, whose failure sets badbit.
Flush(b) ==
  /\ life[b] = "live"
  /\ ~bad[b]
  /\ \E n \in Accepted(Len(put[b])) :
       /\ host' = [host EXCEPT ![b] = Written(b, n)]
       /\ put' = [put EXCEPT ![b] = Unwritten(b, n)]
       /\ bad' = [bad EXCEPT ![b] = Reported(b, n)]
  /\ Call(b, <<>>, <<>>)
  /\ UNCHANGED <<life, get>>

\* Body::write goes to the host directly, past the put area; the caller
\* learns how many bytes went in.
Write(b, s) ==
  /\ life[b] = "live"
  /\ Room(Len(s))
  /\ host' = [host EXCEPT ![b] = @ \o s]
  /\ Call(b, s, <<>>)
  /\ UNCHANGED <<life, put, get, bad>>

-------------------------------------------------------------------------------
(* The get area. *)

\* Does underflow, having filled the get area with n bytes, return what its
\* caller takes for end of file?
AnswersEof_Short(b, n) == n < BufSize
AnswersEof(b, n) == Head(host[b]) = EofByte

\* underflow: with an empty get area, read up to BufSize bytes into it.  The
\* caller gets the first byte, or stops where it sees end of file.
Underflow(b) ==
  \/ /\ host[b] = <<>>
     /\ eof' = [eof EXCEPT ![b] = TRUE]
     /\ out' = <<>>
     /\ UNCHANGED <<host, get>>
  \/ \E n \in 1 .. Len(host[b]) :
       LET k == IF AnswersEof(b, n) THEN 0 ELSE 1
       IN /\ n <= BufSize
          /\ out' = SubSeq(host[b], 1, k)
          /\ get' = [get EXCEPT ![b] = SubSeq(host[b], k + 1, n)]
          /\ host' = [host EXCEPT ![b] = SubSeq(@, n + 1, Len(@))]
          /\ eof' = [eof EXCEPT ![b] = AnswersEof(b, n)]

\* sbumpc, as operator>> and istreambuf_iterator call it: the next byte of
\* the get area, or underflow.
Take(b) ==
  /\ life[b] = "live"
  /\ \/ /\ get[b] # <<>>
        /\ get' = [get EXCEPT ![b] = Tail(@)]
        /\ out' = <<Head(get[b])>>
        /\ eof' = [eof EXCEPT ![b] = FALSE]
        /\ UNCHANGED host
     \/ get[b] = <<>> /\ Underflow(b)
  /\ in' = <<>>
  /\ UNCHANGED <<life, put, bad>>

\* Body::read takes from the host directly, past the get area.
Read(b, n) ==
  /\ life[b] = "live"
  /\ n <= Len(host[b])
  /\ host' = [host EXCEPT ![b] = SubSeq(@, n + 1, Len(@))]
  /\ Call(b, <<>>, SubSeq(host[b], 1, n))
  /\ UNCHANGED <<life, put, get, bad>>

-------------------------------------------------------------------------------
(* Ownership. *)

\* Body(Body &&old): old.sync(), its result ignored; then the host's body and
\* the get area move, and the new object starts with a good stream state.
Move(o, b) ==
  /\ life[o] = "live"
  /\ life[b] = "unborn"
  /\ life' = [life EXCEPT ![o] = "moved", ![b] = "live"]
  /\ \E n \in Accepted(Len(put[o])) :
       host' = [host EXCEPT ![o] = <<>>, ![b] = Written(o, n)]
  /\ put' = [put EXCEPT ![o] = <<>>]
  /\ get' = [get EXCEPT ![o] = <<>>, ![b] = get[o]]
  /\ Call(o, <<>>, <<>>)
  /\ UNCHANGED bad

\* b.append(std::move(o)): the argument is move-constructed from o, which
\* syncs o; the flush in append then has nothing to do.  Neither the put area
\* of b nor the get area of o is looked at.
AppendBody(b, o) ==
  /\ b # o
  /\ life[b] = "live"
  /\ life[o] = "live"
  /\ life' = [life EXCEPT ![o] = "moved"]
  /\ \E n \in Accepted(Len(put[o])) :
       host' = [host EXCEPT ![b] = @ \o Written(o, n), ![o] = <<>>]
  /\ put' = [put EXCEPT ![o] = <<>>]
  /\ get' = [get EXCEPT ![o] = <<>>]
  /\ in' = <<>>
  /\ out' = <<>>
  /\ eof' = [eof EXCEPT ![b] = FALSE, ![o] = FALSE]
  /\ UNCHANGED bad

\* The box of b goes to the host with a message or a value.  synced says that
\* the put area was written first: by the flush in set_body, or by the move
\* into a parameter of from_body or insert.  A body returned straight into
\* such a parameter is not moved, and its put area is dropped.
Give(b, synced) ==
  /\ life[b] = "live"
  /\ life' = [life EXCEPT ![b] = "given"]
  /\ \E n \in (IF synced THEN Accepted(Len(put[b])) ELSE {0}) :
       host' = [host EXCEPT ![b] = Written(b, n)]
  /\ put' = [put EXCEPT ![b] = <<>>]
  /\ get' = [get EXCEPT ![b] = <<>>]
  /\ Call(b, <<>>, <<>>)
  /\ UNCHANGED bad

\* ~Body: the box closes the host's body, nothing is flushed.
Destroy(b) ==
  /\ life[b] # "unborn"
  /\ life' = [life EXCEPT ![b] = "unborn"]
  /\ host' = [host EXCEPT ![b] = <<>>]
  /\ put' = [put EXCEPT ![b] = <<>>]
  /\ get' = [get EXCEPT ![b] = <<>>]
  /\ bad' = [bad EXCEPT ![b] = FALSE]
  /\ Call(b, <<>>, <<>>)

-------------------------------------------------------------------------------
(* Programs. *)

\* Any program: every call is allowed in every order.
Next ==
  \E b \in Bodies :
    \/ \E s \in Chunks : Construct(b, s) \/ ConstructFromVec(b, s) \/ Write(b, s)
    \/ \E c \in Bytes : Put(b, c)
    \/ \E n \in 0 .. MaxLen : Read(b, n)
    \/ Flush(b) \/ Take(b) \/ Destroy(b)
    \/ \E o \in Bodies : Move(o, b) \/ AppendBody(b, o)
    \/ \E synced \in BOOLEAN : Give(b, synced)

Spec == Init /\ [][Next]_vars

\* A sync of b is sure to write what waits in its put area.
Syncable(b) == ~bad[b] /\ (put[b] = <<>> \/ ~HostEofs)

\* A program that flushes before it goes past the put area, drains the get
\* area before it goes past that, checks a body before it moves it, and makes
\* no body from a vector.
CarefulNext ==
  \E b \in Bodies :
    \/ \E s \in Chunks : Construct(b, s) \/ (put[b] = <<>> /\ Write(b, s))
    \/ \E c \in Bytes : Put(b, c)
    \/ \E n \in 0 .. MaxLen : get[b] = <<>> /\ Read(b, n)
    \/ Flush(b) \/ Take(b) \/ Destroy(b)
    \/ \E o \in Bodies : Syncable(o) /\ Move(o, b)
    \/ \E o \in Bodies :
         Syncable(o) /\ put[b] = <<>> /\ get[o] = <<>> /\ AppendBody(b, o)
    \/ get[b] = <<>> /\ Syncable(b) /\ Give(b, TRUE)
    \/ get[b] = <<>> /\ put[b] = <<>> /\ Give(b, FALSE)

CarefulSpec == Init /\ [][CarefulNext]_vars

-------------------------------------------------------------------------------
(* Properties. *)

\* Used carefully, a Body is a queue of bytes: no call of body.cpp loses,
\* doubles or reorders a byte unless the stream of the body is bad.
Queue == INSTANCE ByteStream WITH
           content <- [b \in Bodies |-> Content(b)], failed <- bad
IsQueue == Queue!Spec

\* Whatever the program does, a read of a body answers end of file only when
\* the host has no more bytes, or when underflow returned EofByte as a char.
EofIsGenuine ==
  \A b \in Bodies :
    eof[b] => IF get[b] = <<>> THEN host[b] = <<>> ELSE Head(get[b]) = EofByte

\* body.h: "Take the entire body as a string."  take_body_string stops at the
\* first end of file, so no byte may be left behind it in a flushed body.
TakesEntireBody == \A b \in Bodies : eof[b] /\ put[b] = <<>> => Content(b) = <<>>

\* body.h: the constructor from a vector aborts unless fill_from_vec could
\* write the bytes of the vector to the new body.
VecFillsBody ==
  [][\A b \in Bodies, s \in Chunks : ConstructFromVec(b, s) => Content(b)' = s]_vars

===============================================================================
