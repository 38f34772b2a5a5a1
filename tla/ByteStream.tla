------------------------------ MODULE ByteStream ------------------------------
(***************************************************************************)
(* What a fastly::http::Body promises its user: a queue of bytes.  Bytes   *)
(* go in at the end and come out at the front; appending a body, moving a  *)
(* body and handing a body to the host each carry the whole queue.  After  *)
(* a reported write failure a body promises nothing about its bytes.       *)
(***************************************************************************)
EXTENDS Integers, Sequences

CONSTANTS Bodies,   \* the Body objects of a program
          Bytes     \* the values of a byte

VARIABLES life,     \* [Bodies -> {"unborn", "live", "moved", "given"}]
          content,  \* what a reader of the body has still to get, in order
          failed,   \* the body has reported a failure
          in,       \* the bytes the last call put in
          out       \* the bytes the last call got out

vars == <<life, content, failed, in, out>>

Init ==
  /\ life = [b \in Bodies |-> "unborn"]
  /\ content = [b \in Bodies |-> <<>>]
  /\ failed = [b \in Bodies |-> FALSE]
  /\ in = <<>>
  /\ out = <<>>

NothingIn == in' = <<>>
NothingOut == out' = <<>>

\* A body comes to life holding the bytes it is made from.
Construct(b) ==
  /\ life[b] = "unborn"
  /\ life' = [life EXCEPT ![b] = "live"]
  /\ content' = [content EXCEPT ![b] = in']
  /\ NothingOut
  /\ UNCHANGED failed

\* Bytes go in at the end.
Insert(b) ==
  /\ life[b] = "live"
  /\ content' = [content EXCEPT ![b] = @ \o in']
  /\ NothingOut
  /\ UNCHANGED <<life, failed>>

\* Bytes come out at the front.
Extract(b) ==
  /\ life[b] = "live"
  /\ content' = [content EXCEPT ![b] = SubSeq(@, Len(out') + 1, Len(@))]
  /\ content[b] = out' \o content'[b]
  /\ NothingIn
  /\ UNCHANGED <<life, failed>>

\* The whole of o goes to the end of b, and o is used up.
AppendBody(b, o) ==
  /\ b # o
  /\ life[b] = "live"
  /\ life[o] = "live"
  /\ life' = [life EXCEPT ![o] = "moved"]
  /\ content' = [content EXCEPT ![b] = @ \o content[o], ![o] = <<>>]
  /\ failed' = [failed EXCEPT ![b] = @ \/ failed[o]]
  /\ NothingIn /\ NothingOut

\* The whole of o becomes b, and o is used up.
Move(o, b) ==
  /\ life[o] = "live"
  /\ life[b] = "unborn"
  /\ life' = [life EXCEPT ![o] = "moved", ![b] = "live"]
  /\ content' = [content EXCEPT ![o] = <<>>, ![b] = content[o]]
  /\ failed' = [failed EXCEPT ![b] = failed[o]]
  /\ NothingIn /\ NothingOut

\* The host gets the whole of b, as the body of a message or a stored value.
Give(b) ==
  /\ life[b] = "live"
  /\ life' = [life EXCEPT ![b] = "given"]
  /\ NothingIn /\ NothingOut
  /\ UNCHANGED <<content, failed>>

Destroy(b) ==
  /\ life[b] # "unborn"
  /\ life' = [life EXCEPT ![b] = "unborn"]
  /\ content' = [content EXCEPT ![b] = <<>>]
  /\ failed' = [failed EXCEPT ![b] = FALSE]
  /\ NothingIn /\ NothingOut

\* A failed write is reported; from then on the bytes of b may be anything.
Fail(b) ==
  /\ life[b] \in {"unborn", "live"}
  /\ life' = [life EXCEPT ![b] = "live"]
  /\ content'[b] \in Seq(Bytes)
  /\ content' = [content EXCEPT ![b] = content'[b]]
  /\ failed' = [failed EXCEPT ![b] = TRUE]
  /\ NothingOut

\* A call that does nothing to the bytes, as a flush.
Idle == NothingIn /\ NothingOut /\ UNCHANGED <<life, content, failed>>

Next ==
  \/ Idle
  \/ \E b \in Bodies :
       \/ Construct(b) \/ Insert(b) \/ Extract(b)
       \/ Give(b) \/ Destroy(b) \/ Fail(b)
       \/ \E o \in Bodies : AppendBody(b, o) \/ Move(o, b)

Spec == Init /\ [][Next]_vars
===============================================================================
