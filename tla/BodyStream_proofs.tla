-------------------------- MODULE BodyStream_proofs --------------------------
(***************************************************************************)
(* Proofs about BodyStream, for any set of bodies and of bytes, any size   *)
(* of the put and get areas and a host that may or may not refuse bytes.   *)
(***************************************************************************)
EXTENDS BodyStream, SequenceTheorems, TLAPS

\* A piece of a sequence is a sequence over the same set.
LEMMA PieceOfSeq ==
  ASSUME NEW S, NEW s \in Seq(S), NEW m \in Nat \ {0}, NEW n \in 0 .. Len(s)
  PROVE  /\ SubSeq(s, m, n) \in Seq(S)
         /\ Len(SubSeq(s, m, n)) = IF m <= n THEN n - m + 1 ELSE 0
<1>1. \A i \in m .. n : s[i] \in S
  BY ElementOfSeq
<1>2. QED
  BY <1>1, SubSeqProperties

\* A non-empty sequence is its first n elements and the rest.
LEMMA Split ==
  ASSUME NEW S, NEW s \in Seq(S), NEW n \in 0 .. Len(s)
  PROVE  s = SubSeq(s, 1, n) \o SubSeq(s, n + 1, Len(s))
<1>1. SubSeq(s, 1, n) \o SubSeq(s, n + 1, Len(s)) = SubSeq(s, 1, Len(s))
  <2>1. /\ Len(s) \in Nat
        /\ 1 \in 1 .. Len(s) + 1 /\ n \in 1 - 1 .. Len(s) /\ Len(s) \in n .. Len(s)
    BY LenProperties
  <2>2. QED
    BY <2>1, ConcatAdjacentSubSeq
<1>2. QED
  BY <1>1, SubSeqFull

LEMMA ChunksAreSeqs == \A s \in Chunks : s \in Seq(Bytes)
<1> TAKE s \in Chunks
<1>1. PICK n \in 0 .. MaxLen : s \in [1 .. n -> Bytes]
  BY DEF Chunks
<1>2. QED
  BY <1>1, SeqDef, BodyAssumption

LEMMA CarefulIsAny == CarefulNext => Next
BY DEF CarefulNext, Next

-------------------------------------------------------------------------------
(* Types. *)

LEMMA TypeInit == Init => TypeOK
BY EmptySeq, BodyAssumption DEF Init, TypeOK, Lives, Areas

LEMMA AreaType ==
  ASSUME TypeOK, NEW b \in Bodies
  PROVE  /\ put[b] \in Seq(Bytes) /\ Len(put[b]) \in 0 .. BufSize
         /\ get[b] \in Seq(Bytes) /\ Len(get[b]) \in 0 .. BufSize
         /\ host[b] \in Seq(Bytes) /\ Len(host[b]) \in Nat
BY LenProperties, BodyAssumption DEF TypeOK, Areas

LEMMA EmptyArea == <<>> \in Areas /\ <<>> \in Seq(Bytes)
BY EmptySeq, BodyAssumption DEF Areas

LEMMA AcceptedType ==
  ASSUME NEW k \in Nat, NEW n \in Accepted(k)
  PROVE  n \in 0 .. k
BY DEF Accepted

LEMMA WrittenType ==
  ASSUME TypeOK, NEW b \in Bodies, NEW n \in Accepted(Len(put[b])) \cup {0}
  PROVE  Written(b, n) \in Seq(Bytes)
<1>1. n \in 0 .. Len(put[b])
  BY AreaType, AcceptedType
<1>2. QED
  BY <1>1, AreaType, PieceOfSeq, ConcatProperties DEF Written

LEMMA UnwrittenType ==
  ASSUME TypeOK, NEW b \in Bodies, NEW n
  PROVE  Unwritten(b, n) \in Areas
BY EmptyArea DEF Unwritten, TypeOK

\* What the put area holds when the write of s stopped after n bytes.
LEMMA StretchType ==
  ASSUME NEW s \in Seq(Bytes), NEW n \in 0 .. Len(s),
         NEW start, start = n - (n % BufSize),
         NEW stop,
         stop = IF start + BufSize < Len(s) THEN start + BufSize ELSE Len(s)
  PROVE  SubSeq(s, start + 1, stop) \in Areas
<1> USE BodyAssumption
<1>1. Len(s) \in Nat
  BY LenProperties
<1>2. n % BufSize \in 0 .. BufSize - 1 /\ n % BufSize <= n
  BY <1>1
<1>3. start \in 0 .. Len(s) /\ stop \in 0 .. Len(s) /\ stop - start <= BufSize
  BY <1>1, <1>2
<1>4. start + 1 \in Nat \ {0}
  BY <1>3, <1>1
<1>5. /\ SubSeq(s, start + 1, stop) \in Seq(Bytes)
      /\ Len(SubSeq(s, start + 1, stop)) =
           IF start + 1 <= stop THEN stop - (start + 1) + 1 ELSE 0
  BY <1>3, <1>4, PieceOfSeq
<1>6. QED
  BY <1>1, <1>3, <1>5 DEF Areas

LEMMA TypeStep == TypeOK /\ [Next]_vars => TypeOK'
<1> SUFFICES ASSUME TypeOK, [Next]_vars
             PROVE  TypeOK'
  OBVIOUS
<1> USE EmptyArea
<1>1. ASSUME NEW b \in Bodies, NEW s \in Chunks, Construct(b, s)
      PROVE  TypeOK'
  <2>1. s \in Seq(Bytes)
    BY ChunksAreSeqs
  <2>2. PICK n \in Accepted(Len(s)) :
          LET start == n - (n % BufSize)
              stop == IF start + BufSize < Len(s) THEN start + BufSize ELSE Len(s)
          IN /\ host' = [host EXCEPT ![b] = SubSeq(s, 1, n)]
             /\ put' = [put EXCEPT ![b] =
                          IF n = Len(s) THEN <<>> ELSE SubSeq(s, start + 1, stop)]
             /\ bad' = [bad EXCEPT ![b] = n < Len(s)]
    BY <1>1 DEF Construct
  <2> DEFINE start == n - (n % BufSize)
             stop == IF start + BufSize < Len(s) THEN start + BufSize ELSE Len(s)
             left == IF n = Len(s) THEN <<>> ELSE SubSeq(s, start + 1, stop)
             lost == n < Len(s)
  <2>3. n \in 0 .. Len(s)
    BY <2>1, AcceptedType, LenProperties
  <2>4. SubSeq(s, 1, n) \in Seq(Bytes)
    BY <2>1, <2>3, PieceOfSeq
  <2>5. left \in Areas
    BY <2>1, <2>3, StretchType
  <2>6. lost \in BOOLEAN
    OBVIOUS
  <2>7. /\ host' = [host EXCEPT ![b] = SubSeq(s, 1, n)]
        /\ put' = [put EXCEPT ![b] = left]
        /\ bad' = [bad EXCEPT ![b] = lost]
    BY <2>2
  <2> HIDE DEF start, stop, left, lost
  <2>8. QED
    BY <1>1, <2>1, <2>4, <2>5, <2>6, <2>7 DEF TypeOK, Construct, Call, Lives
<1>2. ASSUME NEW b \in Bodies, NEW s \in Chunks, ConstructFromVec(b, s)
      PROVE  TypeOK'
  BY <1>2, ChunksAreSeqs DEF TypeOK, ConstructFromVec, Call, Lives
<1>3. ASSUME NEW b \in Bodies, NEW s \in Chunks, Write(b, s)
      PROVE  TypeOK'
  <2>1. s \in Seq(Bytes) /\ host[b] \o s \in Seq(Bytes)
    BY ChunksAreSeqs, AreaType, ConcatProperties
  <2>2. QED
    BY <1>3, <2>1 DEF TypeOK, Write, Call
<1>4. ASSUME NEW b \in Bodies, NEW c \in Bytes, Put(b, c)
      PROVE  TypeOK'
  <2>1. <<c>> \in Seq(Bytes) /\ Append(<<>>, c) = <<c>>
    OBVIOUS
  <2>2. <<c>> \in Areas
    BY BodyAssumption DEF Areas
  <2>3. CASE HasRoom(b)
    <3>1. Append(put[b], c) \in Areas
      BY <2>3, AreaType, AppendProperties, BodyAssumption DEF Areas, HasRoom
    <3>2. put' = [put EXCEPT ![b] = Append(put[b], c)] /\ UNCHANGED <<host, bad>>
      BY <1>4, <2>3 DEF Put, TypeOK
    <3>3. QED
      BY <1>4, <2>1, <3>1, <3>2 DEF TypeOK, Put, Call
  <2>4. CASE ~HasRoom(b)
    <3>1. PICK n \in Accepted(Len(put[b])) :
             /\ host' = [host EXCEPT ![b] = Written(b, n)]
             /\ put' = [put EXCEPT ![b] =
                          IF n = Len(@) THEN Append(Unwritten(b, n), c) ELSE @]
             /\ bad' = [bad EXCEPT ![b] = Reported(b, n)]
      BY <1>4, <2>4 DEF Put
    <3> DEFINE left == IF n = Len(put[b]) THEN <<c>> ELSE put[b]
    <3>2. Written(b, n) \in Seq(Bytes)
      BY WrittenType
    <3>3. put' = [put EXCEPT ![b] = left]
      BY <3>1, <2>1 DEF Unwritten, TypeOK
    <3>4. left \in Areas
      BY <2>2 DEF TypeOK
    <3>5. Reported(b, n) \in BOOLEAN
      BY DEF Reported
    <3>6. in' = <<c>> /\ out' = <<>> /\ eof' = [eof EXCEPT ![b] = FALSE]
          /\ UNCHANGED <<life, get>>
      BY <1>4 DEF Put, Call
    <3> HIDE DEF left
    <3>7. QED
      BY <2>1, <3>1, <3>2, <3>3, <3>4, <3>5, <3>6 DEF TypeOK
  <2>5. QED
    BY <2>3, <2>4
<1>5. ASSUME NEW b \in Bodies, NEW n \in 0 .. MaxLen, Read(b, n)
      PROVE  TypeOK'
  <2>1. /\ SubSeq(host[b], n + 1, Len(host[b])) \in Seq(Bytes)
        /\ SubSeq(host[b], 1, n) \in Seq(Bytes)
    BY <1>5, AreaType, PieceOfSeq, BodyAssumption DEF Read
  <2>2. QED
    BY <1>5, <2>1 DEF TypeOK, Read, Call
<1>6. ASSUME NEW b \in Bodies, Flush(b)
      PROVE  TypeOK'
  <2>1. PICK n \in Accepted(Len(put[b])) :
          /\ host' = [host EXCEPT ![b] = Written(b, n)]
          /\ put' = [put EXCEPT ![b] = Unwritten(b, n)]
          /\ bad' = [bad EXCEPT ![b] = Reported(b, n)]
    BY <1>6 DEF Flush
  <2>2. Written(b, n) \in Seq(Bytes) /\ Unwritten(b, n) \in Areas
    BY WrittenType, UnwrittenType
  <2>3. Reported(b, n) \in BOOLEAN
    BY DEF Reported
  <2>4. QED
    BY <1>6, <2>1, <2>2, <2>3 DEF TypeOK, Flush, Call
<1>7. ASSUME NEW b \in Bodies, Take(b)
      PROVE  TypeOK'
  <2>1. CASE get[b] # <<>>
    <3>1. /\ Tail(get[b]) \in Seq(Bytes) /\ Len(Tail(get[b])) = Len(get[b]) - 1
          /\ Head(get[b]) \in Bytes
      BY <2>1, AreaType, HeadTailProperties
    <3>2. Tail(get[b]) \in Areas
      BY <3>1, AreaType, BodyAssumption DEF Areas
    <3>3. <<Head(get[b])>> \in Seq(Bytes)
      BY <3>1
    <3>4. /\ get' = [get EXCEPT ![b] = Tail(get[b])]
          /\ out' = <<Head(get[b])>>
          /\ eof' = [eof EXCEPT ![b] = FALSE]
          /\ UNCHANGED <<host, life, put, bad>>
          /\ in' = <<>>
      BY <1>7, <2>1 DEF Take, TypeOK
    <3>5. QED
      BY <3>2, <3>3, <3>4 DEF TypeOK
  <2>2. CASE get[b] = <<>>
    <3>1. Underflow(b) /\ in' = <<>> /\ UNCHANGED <<life, put, bad>>
      BY <1>7, <2>2 DEF Take
    <3>2. CASE /\ host[b] = <<>>
               /\ eof' = [eof EXCEPT ![b] = TRUE]
               /\ out' = <<>>
               /\ UNCHANGED <<host, get>>
      BY <3>1, <3>2 DEF TypeOK
    <3>3. CASE \E n \in 1 .. Len(host[b]) :
                 LET k == IF AnswersEof(b, n) THEN 0 ELSE 1
                 IN /\ n <= BufSize
                    /\ out' = SubSeq(host[b], 1, k)
                    /\ get' = [get EXCEPT ![b] = SubSeq(host[b], k + 1, n)]
                    /\ host' = [host EXCEPT ![b] = SubSeq(@, n + 1, Len(@))]
                    /\ eof' = [eof EXCEPT ![b] = AnswersEof(b, n)]
      <4> DEFINE k(n) == IF AnswersEof(b, n) THEN 0 ELSE 1
      <4>1. PICK n \in 1 .. Len(host[b]) :
              /\ n <= BufSize
              /\ out' = SubSeq(host[b], 1, k(n))
              /\ get' = [get EXCEPT ![b] = SubSeq(host[b], k(n) + 1, n)]
              /\ host' = [host EXCEPT ![b] = SubSeq(host[b], n + 1, Len(host[b]))]
              /\ eof' = [eof EXCEPT ![b] = AnswersEof(b, n)]
        BY <3>3, Zenon DEF TypeOK
      <4>2. k(n) \in {0, 1}
        OBVIOUS
      <4>3. AnswersEof(b, n) \in BOOLEAN
        BY DEF AnswersEof
      <4> HIDE DEF k
      <4>4. k(n) \in 0 .. Len(host[b]) /\ k(n) + 1 \in Nat \ {0} /\ n + 1 \in Nat \ {0}
            /\ n \in 0 .. Len(host[b]) /\ Len(host[b]) \in 0 .. Len(host[b])
        BY <4>2, AreaType
      <4>5. /\ SubSeq(host[b], 1, k(n)) \in Seq(Bytes)
            /\ SubSeq(host[b], n + 1, Len(host[b])) \in Seq(Bytes)
        BY <4>4, AreaType, PieceOfSeq
      <4>6. /\ SubSeq(host[b], k(n) + 1, n) \in Seq(Bytes)
            /\ Len(SubSeq(host[b], k(n) + 1, n)) =
                 IF k(n) + 1 <= n THEN n - (k(n) + 1) + 1 ELSE 0
        BY <4>4, AreaType, PieceOfSeq
      <4>7. SubSeq(host[b], k(n) + 1, n) \in Areas
        BY <4>1, <4>2, <4>6, BodyAssumption DEF Areas
      <4>8. QED
        BY <3>1, <4>1, <4>3, <4>5, <4>7 DEF TypeOK
    <3>4. QED
      BY <3>1, <3>2, <3>3 DEF Underflow
  <2>3. QED
    BY <2>1, <2>2
<1>8. ASSUME NEW b \in Bodies, Destroy(b)
      PROVE  TypeOK'
  BY <1>8 DEF TypeOK, Destroy, Call, Lives
<1>9. ASSUME NEW b \in Bodies, NEW o \in Bodies, Move(o, b)
      PROVE  TypeOK'
  <2>1. PICK n \in Accepted(Len(put[o])) :
          host' = [host EXCEPT ![o] = <<>>, ![b] = Written(o, n)]
    BY <1>9 DEF Move
  <2>2. Written(o, n) \in Seq(Bytes)
    BY WrittenType
  <2>3. QED
    BY <1>9, <2>1, <2>2 DEF TypeOK, Move, Call, Lives
<1>10. ASSUME NEW b \in Bodies, NEW o \in Bodies, AppendBody(b, o)
       PROVE  TypeOK'
  <2>1. PICK n \in Accepted(Len(put[o])) :
          host' = [host EXCEPT ![b] = @ \o Written(o, n), ![o] = <<>>]
    BY <1>10 DEF AppendBody
  <2>2. Written(o, n) \in Seq(Bytes)
    BY WrittenType
  <2>3. host[b] \o Written(o, n) \in Seq(Bytes)
    BY <2>2, AreaType, ConcatProperties
  <2>4. host' = [host EXCEPT ![b] = host[b] \o Written(o, n), ![o] = <<>>]
    BY <2>1, Zenon DEF TypeOK
  <2>5. QED
    BY <1>10, <2>3, <2>4 DEF TypeOK, AppendBody, Lives
<1>11. ASSUME NEW b \in Bodies, NEW synced \in BOOLEAN, Give(b, synced)
       PROVE  TypeOK'
  <2>1. PICK n \in (IF synced THEN Accepted(Len(put[b])) ELSE {0}) :
          host' = [host EXCEPT ![b] = Written(b, n)]
    BY <1>11 DEF Give
  <2>2. n \in Accepted(Len(put[b])) \cup {0}
    BY <2>1
  <2>3. Written(b, n) \in Seq(Bytes)
    BY <2>2, WrittenType
  <2>4. QED
    BY <1>11, <2>1, <2>3 DEF TypeOK, Give, Call, Lives
<1>12. CASE UNCHANGED vars
  BY <1>12 DEF TypeOK, vars
<1>13. QED
  BY <1>1, <1>2, <1>3, <1>4, <1>5, <1>6, <1>7, <1>8, <1>9, <1>10, <1>11, <1>12 DEF Next

\* Every program keeps the put and get areas within BufSize and everything
\* in them made of bytes.
THEOREM TypeCorrect == Spec => []TypeOK
<1>1. QED
  BY TypeInit, TypeStep, PTL DEF Spec

-------------------------------------------------------------------------------
(* End of file.  EofIsGenuine alone is not inductive: a moved-to body takes  *)
(* over bytes while its eof flag stays, so that flag has to be down.         *)

UnbornHasNoEof == \A b \in Bodies : life[b] = "unborn" => ~eof[b]

EofInv == TypeOK /\ UnbornHasNoEof /\ EofIsGenuine

\* The invariant survives a step whose every body has no eof any more, or is
\* left alone.
LEMMA EofFrame ==
  ASSUME EofInv, TypeOK',
         \A x \in Bodies :
           \/ eof'[x] = FALSE
           \/ /\ eof'[x] = eof[x] /\ get'[x] = get[x] /\ host'[x] = host[x]
              /\ life'[x] = "unborn" => life[x] = "unborn"
  PROVE  EofInv'
BY DEF EofInv, UnbornHasNoEof, EofIsGenuine

\* A fresh get area that starts with the byte underflow stopped at.
LEMMA EofUnderflow ==
  ASSUME EofInv, TypeOK', NEW b \in Bodies, Take(b), get[b] = <<>>
  PROVE  EofInv'
<1>1. Underflow(b) /\ UNCHANGED <<life, put, bad>> /\ life[b] = "live"
  BY DEF Take
<1>2. ASSUME host[b] = <<>>, eof' = [eof EXCEPT ![b] = TRUE], UNCHANGED <<host, get>>
      PROVE  EofInv'
  BY <1>1, <1>2 DEF EofInv, TypeOK, UnbornHasNoEof, EofIsGenuine
<1>3. ASSUME NEW n \in 1 .. Len(host[b]),
             LET k == IF AnswersEof(b, n) THEN 0 ELSE 1
             IN /\ n <= BufSize
                /\ out' = SubSeq(host[b], 1, k)
                /\ get' = [get EXCEPT ![b] = SubSeq(host[b], k + 1, n)]
                /\ host' = [host EXCEPT ![b] = SubSeq(@, n + 1, Len(@))]
                /\ eof' = [eof EXCEPT ![b] = AnswersEof(b, n)]
      PROVE  EofInv'
  <2>0. \A x \in Bodies \ {b} :
          eof'[x] = eof[x] /\ get'[x] = get[x] /\ host'[x] = host[x]
    BY <1>3, Zenon DEF EofInv, TypeOK
  <2>1. CASE ~AnswersEof(b, n)
    <3>1. eof'[b] = FALSE
      BY <1>3, <2>1, Zenon DEF EofInv, TypeOK
    <3>2. QED
      BY <1>1, <2>0, <3>1, EofFrame
  <2>2. CASE AnswersEof(b, n)
    <3>1. get'[b] = SubSeq(host[b], 1, n)
      BY <1>3, <2>2 DEF EofInv, TypeOK
    <3>2. host[b] \in Seq(Bytes) /\ Len(host[b]) \in Nat
      BY AreaType DEF EofInv
    <3>3. /\ SubSeq(host[b], 1, n) \in Seq(Bytes)
          /\ Len(SubSeq(host[b], 1, n)) = n
          /\ SubSeq(host[b], 1, n)[1] = host[b][1]
      BY <3>2, PieceOfSeq, SubSeqProperties, ElementOfSeq
    <3>4. get'[b] # <<>> /\ Head(get'[b]) = Head(host[b])
      BY <3>1, <3>2, <3>3
    <3>5. Head(get'[b]) = EofByte
      BY <2>2, <3>4 DEF AnswersEof
    <3>6. ASSUME NEW x \in Bodies
          PROVE  /\ eof'[x] => IF get'[x] = <<>> THEN host'[x] = <<>>
                                                  ELSE Head(get'[x]) = EofByte
                 /\ life'[x] = "unborn" => ~eof'[x]
      <4>1. CASE x = b
        BY <1>1, <3>4, <3>5, <4>1
      <4>2. CASE x # b
        BY <1>1, <2>0, <4>2 DEF EofInv, EofIsGenuine, UnbornHasNoEof
      <4>3. QED
        BY <4>1, <4>2
    <3>7. QED
      BY <3>6 DEF EofInv, EofIsGenuine, UnbornHasNoEof
  <2>3. QED
    BY <2>1, <2>2
<1>4. QED
  BY <1>1, <1>2, <1>3 DEF Underflow

LEMMA EofStep == EofInv /\ [Next]_vars => EofInv'
<1> SUFFICES ASSUME EofInv, [Next]_vars
             PROVE  EofInv'
  OBVIOUS
<1>0. TypeOK /\ TypeOK' /\ eof \in [Bodies -> BOOLEAN]
  BY TypeStep DEF EofInv, TypeOK
<1> USE <1>0
<1>1. ASSUME NEW b \in Bodies,
             \/ \E s \in Chunks : Construct(b, s) \/ ConstructFromVec(b, s) \/ Write(b, s)
             \/ \E c \in Bytes : Put(b, c)
             \/ \E n \in 0 .. MaxLen : Read(b, n)
             \/ Flush(b)
             \/ \E synced \in BOOLEAN : Give(b, synced)
      PROVE  EofInv'
  <2>1. eof' = [eof EXCEPT ![b] = FALSE]
    BY <1>1 DEF Construct, ConstructFromVec, Write, Put, Read, Flush, Give, Call
  <2>2. \A x \in Bodies \ {b} : life'[x] = life[x]
    BY <1>1 DEF Construct, ConstructFromVec, Write, Put, Read, Flush, Give, TypeOK
  <2>3. \A x \in Bodies \ {b} : get'[x] = get[x]
    BY <1>1 DEF Construct, ConstructFromVec, Write, Put, Read, Flush, Give, TypeOK
  <2>4. \A x \in Bodies \ {b} : host'[x] = host[x]
    <3>1. CASE \E s \in Chunks : Construct(b, s) \/ ConstructFromVec(b, s) \/ Write(b, s)
      BY <3>1 DEF Construct, ConstructFromVec, Write, TypeOK
    <3>2. CASE \E c \in Bytes : Put(b, c)
      BY <3>2 DEF Put, TypeOK
    <3>3. CASE \E n \in 0 .. MaxLen : Read(b, n)
      BY <3>3 DEF Read, TypeOK
    <3>4. CASE Flush(b) \/ \E synced \in BOOLEAN : Give(b, synced)
      BY <3>4 DEF Flush, Give, TypeOK
    <3>5. QED
      BY <1>1, <3>1, <3>2, <3>3, <3>4
  <2>5. QED
    BY <2>1, <2>2, <2>3, <2>4, EofFrame
<1>2. ASSUME NEW b \in Bodies, Destroy(b)
      PROVE  EofInv'
  <2>1. \A x \in Bodies :
          \/ eof'[x] = FALSE
          \/ x # b /\ eof'[x] = eof[x] /\ get'[x] = get[x] /\ host'[x] = host[x]
             /\ life'[x] = life[x]
    BY <1>2 DEF Destroy, Call, TypeOK
  <2>2. QED
    BY <2>1, EofFrame
<1>3. ASSUME NEW b \in Bodies, Take(b)
      PROVE  EofInv'
  <2>1. CASE get[b] # <<>>
    <3>1. \A x \in Bodies :
            \/ eof'[x] = FALSE
            \/ eof'[x] = eof[x] /\ get'[x] = get[x] /\ host'[x] = host[x]
               /\ life'[x] = life[x]
      BY <1>3, <2>1 DEF Take, TypeOK
    <3>2. QED
      BY <3>1, EofFrame
  <2>2. CASE get[b] = <<>>
    BY <1>3, <2>2, EofUnderflow
  <2>3. QED
    BY <2>1, <2>2
<1>4. ASSUME NEW b \in Bodies, NEW o \in Bodies, Move(o, b)
      PROVE  EofInv'
  <2>1. /\ eof' = [eof EXCEPT ![o] = FALSE]
        /\ \A x \in Bodies \ {o, b} :
             life'[x] = life[x] /\ get'[x] = get[x] /\ host'[x] = host[x]
    BY <1>4 DEF Move, Call, TypeOK
  <2>2. eof[b] = FALSE
    BY <1>4 DEF Move, EofInv, UnbornHasNoEof
  <2>3. QED
    BY <2>1, <2>2, EofFrame
<1>5. ASSUME NEW b \in Bodies, NEW o \in Bodies, AppendBody(b, o)
      PROVE  EofInv'
  <2>1. /\ eof' = [eof EXCEPT ![b] = FALSE, ![o] = FALSE]
        /\ \A x \in Bodies \ {o, b} :
             life'[x] = life[x] /\ get'[x] = get[x] /\ host'[x] = host[x]
    BY <1>5 DEF AppendBody, TypeOK
  <2>2. QED
    BY <2>1, EofFrame
<1>6. CASE UNCHANGED vars
  BY <1>6, EofFrame DEF vars
<1>7. QED
  BY <1>1, <1>2, <1>3, <1>4, <1>5, <1>6 DEF Next

\* In every program, when a read of a body answers end of file, the host has
\* no more bytes of it or underflow met the byte its char type confuses with
\* end of file.
THEOREM EofCorrect == Spec => []EofIsGenuine
<1>1. Init => EofInv
  BY TypeInit DEF EofInv, UnbornHasNoEof, EofIsGenuine, Init
<1>2. EofInv => EofIsGenuine
  BY DEF EofInv
<1>3. QED
  BY <1>1, <1>2, EofStep, PTL DEF Spec

===============================================================================
