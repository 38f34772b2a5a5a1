--------------------------- MODULE BodyQueue_proofs ---------------------------
(***************************************************************************)
(* A carefully used BodyStream implements ByteStream: every step of        *)
(* CarefulSpec is a step of the queue of bytes, or a failure it reports.   *)
(***************************************************************************)
EXTENDS BodyStream_proofs

\* The queue that the three places of the bytes make up.
Contents == [b \in Bodies |-> Content(b)]

-------------------------------------------------------------------------------
(* Concatenation. *)

LEMMA ConcatType ==
  ASSUME NEW S, NEW s \in Seq(S), NEW t \in Seq(S)
  PROVE  s \o t \in Seq(S)
BY ConcatProperties

LEMMA Associate ==
  \A g, h, p \in Seq(Bytes) : g \o (h \o p) = (g \o h) \o p
BY ConcatAssociative, SMTT(20)

\* Bytes that leave the put area for the host stay where they were.
LEMMA Regroup ==
  \A g, h, p \in Seq(Bytes) :
    /\ g \o (h \o p) = (g \o h) \o p
    /\ (g \o (h \o p)) \o <<>> = (g \o h) \o p
    /\ ((g \o h) \o <<>>) \o p = (g \o h) \o p
    /\ (<<>> \o h) \o p = h \o p
<1> TAKE g, h, p \in Seq(Bytes)
<1>1. h \o p \in Seq(Bytes) /\ g \o h \in Seq(Bytes) /\ g \o (h \o p) \in Seq(Bytes)
  BY ConcatType
<1>2. g \o (h \o p) = (g \o h) \o p
  BY Associate, Zenon
<1>3. (g \o (h \o p)) \o <<>> = g \o (h \o p)
  BY <1>1, ConcatEmptySeq
<1>4. (g \o h) \o <<>> = g \o h /\ <<>> \o h = h
  BY <1>1, ConcatEmptySeq
<1>5. QED
  BY <1>2, <1>3, <1>4

\* What is left behind the first part of a sequence.
LEMMA Rest ==
  ASSUME NEW S, NEW s \in Seq(S), NEW t \in Seq(S)
  PROVE  SubSeq(s \o t, Len(s) + 1, Len(s \o t)) = t
<1>1. /\ s \o t \in Seq(S) /\ Len(s \o t) = Len(s) + Len(t)
      /\ Len(s) \in Nat /\ Len(t) \in Nat
      /\ \A i \in 1 .. Len(s) + Len(t) :
           (s \o t)[i] = IF i <= Len(s) THEN s[i] ELSE t[i - Len(s)]
  BY ConcatProperties, LenProperties
<1> DEFINE r == SubSeq(s \o t, Len(s) + 1, Len(s \o t))
<1>2. \A i \in Len(s) + 1 .. Len(s \o t) : (s \o t)[i] \in S
  BY <1>1, ElementOfSeq
<1>3. /\ r \in Seq(S)
      /\ Len(r) = IF Len(s) + 1 <= Len(s) + Len(t)
                    THEN Len(s) + Len(t) - (Len(s) + 1) + 1 ELSE 0
      /\ \A i \in 1 .. Len(s) + Len(t) - (Len(s) + 1) + 1 :
           r[i] = (s \o t)[Len(s) + 1 + i - 1]
  BY <1>1, <1>2, SubSeqProperties
<1> HIDE DEF r
<1>4. Len(r) = Len(t)
  BY <1>1, <1>3
<1>5. ASSUME NEW i \in 1 .. Len(t)
      PROVE  r[i] = t[i]
  <2>1. /\ i \in 1 .. Len(s) + Len(t) - (Len(s) + 1) + 1 /\ Len(s) + 1 + i - 1 = Len(s) + i
        /\ Len(s) + i \in 1 .. Len(s) + Len(t)
        /\ ~(Len(s) + i <= Len(s)) /\ (Len(s) + i) - Len(s) = i
    BY <1>1
  <2>2. (s \o t)[Len(s) + i] = t[i]
    BY <1>1, <2>1
  <2>3. QED
    BY <1>3, <2>1, <2>2
<1>6. r = t
  BY <1>3, <1>4, <1>5, SeqEqual
<1>7. QED
  BY <1>6 DEF r

-------------------------------------------------------------------------------
(* The invariant: a body that is not yet born holds nothing. *)

UnbornIsEmpty ==
  \A b \in Bodies :
    life[b] = "unborn" => /\ get[b] = <<>> /\ host[b] = <<>> /\ put[b] = <<>>
                          /\ ~bad[b]

CarefulInv == TypeOK /\ UnbornIsEmpty

LEMMA UnbornStep ==
  ASSUME CarefulInv, [CarefulNext]_vars
  PROVE  CarefulInv'
<1>1. [Next]_vars
  BY CarefulIsAny
<1>2. TypeOK /\ TypeOK'
  BY <1>1, TypeStep DEF CarefulInv
<1>3. ASSUME NEW b \in Bodies, Destroy(b)
      PROVE  UnbornIsEmpty'
  BY <1>2, <1>3 DEF CarefulInv, UnbornIsEmpty, Destroy, TypeOK
<1>4. ASSUME NEW b \in Bodies, life'[b] # "unborn",
             \A x \in Bodies \ {b} : /\ life'[x] = life[x] /\ get'[x] = get[x]
                                     /\ host'[x] = host[x] /\ put'[x] = put[x]
                                     /\ bad'[x] = bad[x]
      PROVE  UnbornIsEmpty'
  BY <1>4 DEF CarefulInv, UnbornIsEmpty
<1>5. ASSUME NEW b \in Bodies,
             \/ \E s \in Chunks : Construct(b, s) \/ ConstructFromVec(b, s) \/ Write(b, s)
             \/ \E n \in 0 .. MaxLen : Read(b, n)
             \/ Flush(b)
             \/ \E synced \in BOOLEAN : Give(b, synced)
      PROVE  UnbornIsEmpty'
  <2>1. life'[b] # "unborn"
    BY <1>2, <1>5 DEF Construct, ConstructFromVec, Write, Read, Flush, Give, TypeOK
  <2>2. \A x \in Bodies \ {b} : life'[x] = life[x] /\ get'[x] = get[x]
                                /\ host'[x] = host[x]
    BY <1>2, <1>5 DEF Construct, ConstructFromVec, Write, Read, Flush, Give, TypeOK
  <2>3. \A x \in Bodies \ {b} : put'[x] = put[x] /\ bad'[x] = bad[x]
    BY <1>2, <1>5 DEF Construct, ConstructFromVec, Write, Read, Flush, Give, TypeOK
  <2>4. QED
    BY <1>4, <2>1, <2>2, <2>3
<1>6. ASSUME NEW b \in Bodies, NEW c \in Bytes, Put(b, c)
      PROVE  UnbornIsEmpty'
  <2>1. life'[b] # "unborn"
    BY <1>2, <1>6 DEF Put
  <2>2. \A x \in Bodies \ {b} : /\ life'[x] = life[x] /\ get'[x] = get[x]
                                /\ host'[x] = host[x] /\ put'[x] = put[x]
                                /\ bad'[x] = bad[x]
    BY <1>2, <1>6 DEF Put, TypeOK
  <2>3. QED
    BY <1>4, <2>1, <2>2
<1>7. ASSUME NEW b \in Bodies, Take(b)
      PROVE  UnbornIsEmpty'
  <2>1. life'[b] # "unborn"
    BY <1>2, <1>7 DEF Take
  <2>2. \A x \in Bodies \ {b} : /\ life'[x] = life[x] /\ get'[x] = get[x]
                                /\ host'[x] = host[x] /\ put'[x] = put[x]
                                /\ bad'[x] = bad[x]
    BY <1>2, <1>7 DEF Take, Underflow, TypeOK
  <2>3. QED
    BY <1>4, <2>1, <2>2
<1>8. ASSUME NEW b \in Bodies, NEW o \in Bodies, Move(o, b)
      PROVE  UnbornIsEmpty'
  <2>1. /\ life'[b] # "unborn" /\ life'[o] # "unborn"
        /\ \A x \in Bodies \ {b, o} : /\ life'[x] = life[x] /\ get'[x] = get[x]
                                      /\ host'[x] = host[x] /\ put'[x] = put[x]
                                      /\ bad'[x] = bad[x]
    BY <1>2, <1>8 DEF Move, TypeOK
  <2>2. QED
    BY <2>1 DEF CarefulInv, UnbornIsEmpty
<1>9. ASSUME NEW b \in Bodies, NEW o \in Bodies, AppendBody(b, o)
      PROVE  UnbornIsEmpty'
  <2>1. /\ life'[b] # "unborn" /\ life'[o] # "unborn"
        /\ \A x \in Bodies \ {b, o} : /\ life'[x] = life[x] /\ get'[x] = get[x]
                                      /\ host'[x] = host[x] /\ put'[x] = put[x]
                                      /\ bad'[x] = bad[x]
    BY <1>2, <1>9 DEF AppendBody, TypeOK
  <2>2. QED
    BY <2>1 DEF CarefulInv, UnbornIsEmpty
<1>10. ASSUME UNCHANGED vars
       PROVE  UnbornIsEmpty'
  <2>1. \A x \in Bodies : /\ life'[x] = life[x] /\ get'[x] = get[x]
                           /\ host'[x] = host[x] /\ put'[x] = put[x]
                           /\ bad'[x] = bad[x]
    BY <1>10 DEF vars
  <2>2. QED
    BY <2>1 DEF CarefulInv, UnbornIsEmpty
<1>11. UnbornIsEmpty'
  BY <1>1, <1>3, <1>5, <1>6, <1>7, <1>8, <1>9, <1>10 DEF Next
<1>12. QED
  BY <1>2, <1>11 DEF CarefulInv

-------------------------------------------------------------------------------
(* Reading the content off a step. *)

\* Every place of bytes, and their concatenation, holds bytes.
LEMMA ContentType ==
  ASSUME TypeOK, NEW b \in Bodies
  PROVE  Content(b) \in Seq(Bytes)
BY AreaType, ConcatType DEF Content

\* A step that touches the bytes of b alone changes Contents at b alone.
LEMMA OneContent ==
  ASSUME NEW b \in Bodies, NEW c, get'[b] \o host'[b] \o put'[b] = c,
         \A x \in Bodies \ {b} :
           get'[x] = get[x] /\ host'[x] = host[x] /\ put'[x] = put[x]
  PROVE  Contents' = [Contents EXCEPT ![b] = c]
BY DEF Contents, Content

LEMMA WrittenAll ==
  ASSUME TypeOK, NEW b \in Bodies
  PROVE  Written(b, Len(put[b])) = host[b] \o put[b]
BY AreaType, SubSeqFull DEF Written

\* The sync of a syncable body writes all of its put area.
LEMMA SyncWrites ==
  ASSUME TypeOK, NEW b \in Bodies, Syncable(b), NEW n \in Accepted(Len(put[b]))
  PROVE  Written(b, n) = host[b] \o put[b]
<1>1. n = Len(put[b])
  BY AreaType, AcceptedType, EmptySeq DEF Syncable, Accepted
<1>2. QED
  BY <1>1, WrittenAll

-------------------------------------------------------------------------------
(* Each careful call is a step of the queue. *)

\* A call that hands i to b and answers nothing.
LEMMA CallIdles ==
  ASSUME NEW b, Call(b, <<>>, <<>>)
  PROVE  Queue!NothingIn /\ Queue!NothingOut
BY DEF Call, Queue!NothingIn, Queue!NothingOut

\* A write failure of b, whatever else it did to the bytes of b.
LEMMA FailStep ==
  ASSUME TypeOK, TypeOK', NEW b \in Bodies,
         life[b] \in {"unborn", "live"},
         life' = [life EXCEPT ![b] = "live"],
         bad' = [bad EXCEPT ![b] = TRUE],
         out' = <<>>,
         \A x \in Bodies \ {b} :
           get'[x] = get[x] /\ host'[x] = host[x] /\ put'[x] = put[x]
  PROVE  Queue!Fail(b)
<1>1. (Content(b) \in Seq(Bytes))'
  BY ContentType, PTL
<1>2. /\ Contents' = [Contents EXCEPT ![b] = Content(b)']
      /\ Contents'[b] = Content(b)'
  BY OneContent DEF Contents, Content
<1>3. QED
  BY <1>1, <1>2 DEF Queue!Fail, Queue!NothingOut, Contents

\* A call that puts bytes in at the end of b.
LEMMA InsertStep ==
  ASSUME NEW b \in Bodies, life[b] = "live", UNCHANGED <<life, bad>>, out' = <<>>,
         get'[b] \o host'[b] \o put'[b] = Content(b) \o in',
         \A x \in Bodies \ {b} :
           get'[x] = get[x] /\ host'[x] = host[x] /\ put'[x] = put[x]
  PROVE  Queue!Insert(b)
<1>1. Contents' = [Contents EXCEPT ![b] = Content(b) \o in']
  BY OneContent
<1>2. QED
  BY <1>1 DEF Queue!Insert, Queue!NothingOut, Contents

\* A call that gets bytes out of the front of b.
LEMMA ExtractStep ==
  ASSUME NEW b \in Bodies, life[b] = "live", UNCHANGED <<life, bad>>, in' = <<>>,
         NEW rest \in Seq(Bytes), out' \in Seq(Bytes),
         get'[b] \o host'[b] \o put'[b] = rest,
         Content(b) = out' \o rest,
         \A x \in Bodies \ {b} :
           get'[x] = get[x] /\ host'[x] = host[x] /\ put'[x] = put[x]
  PROVE  Queue!Extract(b)
<1>1. Contents' = [Contents EXCEPT ![b] = rest]
  BY OneContent
<1>2. SubSeq(Content(b), Len(out') + 1, Len(Content(b))) = rest
  BY Rest
<1>3. Contents[b] = Content(b) /\ Contents'[b] = rest
  BY <1>1 DEF Contents
<1>4. QED
  BY <1>1, <1>2, <1>3 DEF Queue!Extract, Queue!NothingIn, Contents

LEMMA ConstructStep ==
  ASSUME CarefulInv, TypeOK', NEW b \in Bodies, NEW s \in Chunks, Construct(b, s)
  PROVE  Queue!Construct(b) \/ Queue!Fail(b)
<1>1. s \in Seq(Bytes) /\ Len(s) \in Nat
  BY ChunksAreSeqs, LenProperties
<1>2. PICK n \in Accepted(Len(s)) :
        LET start == n - (n % BufSize)
            stop == IF start + BufSize < Len(s) THEN start + BufSize ELSE Len(s)
        IN /\ host' = [host EXCEPT ![b] = SubSeq(s, 1, n)]
           /\ put' = [put EXCEPT ![b] =
                        IF n = Len(s) THEN <<>> ELSE SubSeq(s, start + 1, stop)]
           /\ bad' = [bad EXCEPT ![b] = n < Len(s)]
  BY DEF Construct
<1> DEFINE left == LET start == n - (n % BufSize)
                       stop == IF start + BufSize < Len(s) THEN start + BufSize ELSE Len(s)
                   IN IF n = Len(s) THEN <<>> ELSE SubSeq(s, start + 1, stop)
<1>3. /\ host' = [host EXCEPT ![b] = SubSeq(s, 1, n)]
      /\ put' = [put EXCEPT ![b] = left]
      /\ bad' = [bad EXCEPT ![b] = n < Len(s)]
  BY <1>2
<1>4. n = Len(s) => left = <<>>
  OBVIOUS
<1> HIDE DEF left
<1>5. /\ life[b] = "unborn" /\ life' = [life EXCEPT ![b] = "live"]
      /\ UNCHANGED get /\ in' = s /\ out' = <<>>
  BY DEF Construct, Call
<1>6. TypeOK /\ get[b] = <<>> /\ bad[b] = FALSE
  BY <1>5 DEF CarefulInv, UnbornIsEmpty, TypeOK
<1>7. \A x \in Bodies \ {b} : get'[x] = get[x] /\ host'[x] = host[x] /\ put'[x] = put[x]
  BY <1>3, <1>5, <1>6 DEF TypeOK
<1>8. n \in 0 .. Len(s)
  BY <1>1, AcceptedType
<1>9. CASE n = Len(s)
  <2>1. get'[b] = <<>> /\ host'[b] = s /\ put'[b] = <<>>
    BY <1>1, <1>3, <1>4, <1>5, <1>6, <1>9, SubSeqFull DEF TypeOK
  <2>2. get'[b] \o host'[b] \o put'[b] = s
    BY <1>1, <2>1, ConcatEmptySeq
  <2>3. Contents' = [Contents EXCEPT ![b] = in']
    BY <1>5, <1>7, <2>2, OneContent
  <2>4. (n < Len(s)) = FALSE
    BY <1>1, <1>9
  <2>5. UNCHANGED bad
    BY <1>3, <1>6, <2>4 DEF TypeOK
  <2>6. QED
    BY <1>5, <2>3, <2>5 DEF Queue!Construct, Queue!NothingOut, Contents
<1>10. CASE n # Len(s)
  <2>1. (n < Len(s)) = TRUE
    BY <1>1, <1>8, <1>10
  <2>2. bad' = [bad EXCEPT ![b] = TRUE]
    BY <1>3, <2>1
  <2>3. QED
    BY <1>5, <1>6, <1>7, <2>2, FailStep
<1>11. QED
  BY <1>9, <1>10

LEMMA PutStep ==
  ASSUME CarefulInv, TypeOK', NEW b \in Bodies, NEW c \in Bytes, Put(b, c)
  PROVE  Queue!Insert(b) \/ Queue!Fail(b)
<1>1. /\ TypeOK /\ life[b] = "live" /\ bad[b] = FALSE
      /\ UNCHANGED <<life, get>> /\ in' = <<c>> /\ out' = <<>>
  BY DEF CarefulInv, Put, Call, TypeOK
<1>2. /\ get[b] \in Seq(Bytes) /\ host[b] \in Seq(Bytes) /\ put[b] \in Seq(Bytes)
      /\ <<c>> \in Seq(Bytes) /\ Len(put[b]) \in Nat
  BY <1>1, AreaType
<1>3. CASE HasRoom(b)
  <2>1. put' = [put EXCEPT ![b] = Append(put[b], c)] /\ UNCHANGED <<host, bad>>
    BY <1>1, <1>3 DEF Put, TypeOK
  <2>2. get'[b] = get[b] /\ host'[b] = host[b] /\ put'[b] = put[b] \o <<c>>
    BY <1>1, <1>2, <2>1, AppendIsConcat DEF TypeOK
  <2>3. get[b] \o host[b] \o (put[b] \o <<c>>) = get[b] \o host[b] \o put[b] \o <<c>>
    <3>1. get[b] \o host[b] \in Seq(Bytes)
      BY <1>2, ConcatType
    <3>2. QED
      BY <1>2, <3>1, Regroup, ZenonT(30)
  <2>4. \A x \in Bodies \ {b} :
          get'[x] = get[x] /\ host'[x] = host[x] /\ put'[x] = put[x]
    BY <1>1, <2>1 DEF TypeOK
  <2>5. QED
    BY <1>1, <2>1, <2>2, <2>3, <2>4, InsertStep DEF Content
<1>4. CASE ~HasRoom(b)
  <2>1. PICK n \in Accepted(Len(put[b])) :
           /\ host' = [host EXCEPT ![b] = Written(b, n)]
           /\ put' = [put EXCEPT ![b] =
                        IF n = Len(@) THEN Append(Unwritten(b, n), c) ELSE @]
           /\ bad' = [bad EXCEPT ![b] = Reported(b, n)]
    BY <1>4 DEF Put
  <2>2. n \in 0 .. Len(put[b])
    BY <1>2, AcceptedType
  <2>3. \A x \in Bodies \ {b} :
          get'[x] = get[x] /\ host'[x] = host[x] /\ put'[x] = put[x]
    BY <1>1, <2>1 DEF TypeOK
  <2>4. CASE n = Len(put[b])
    <3>1. Append(<<>>, c) = <<c>>
      OBVIOUS
    <3>2. put'[b] = <<c>>
      BY <1>1, <2>1, <2>4, <3>1 DEF Unwritten, TypeOK
    <3>3. get'[b] = get[b] /\ host'[b] = host[b] \o put[b]
      BY <1>1, <2>1, <2>4, WrittenAll DEF TypeOK
    <3>4. Reported(b, n) = FALSE
      BY <1>2, <2>4 DEF Reported
    <3>5. UNCHANGED bad
      BY <1>1, <2>1, <3>4 DEF TypeOK
    <3>6. get[b] \o (host[b] \o put[b]) \o <<c>> = get[b] \o host[b] \o put[b] \o <<c>>
      BY <1>2, Regroup, ZenonT(30)
    <3>7. QED
      BY <1>1, <2>3, <3>2, <3>3, <3>5, <3>6, InsertStep DEF Content
  <2>5. CASE n # Len(put[b])
    <3>1. Reported(b, n) = TRUE
      BY <1>2, <2>2, <2>5 DEF Reported
    <3>2. bad' = [bad EXCEPT ![b] = TRUE]
      BY <2>1, <3>1
    <3>3. life' = [life EXCEPT ![b] = "live"]
      BY <1>1 DEF TypeOK
    <3>4. QED
      BY <1>1, <2>3, <3>2, <3>3, FailStep
  <2>6. QED
    BY <2>4, <2>5
<1>5. QED
  BY <1>3, <1>4

LEMMA FlushStep ==
  ASSUME CarefulInv, TypeOK', NEW b \in Bodies, Flush(b)
  PROVE  Queue!Idle \/ Queue!Fail(b)
<1>1. /\ TypeOK /\ life[b] = "live" /\ bad[b] = FALSE
      /\ UNCHANGED <<life, get>> /\ in' = <<>> /\ out' = <<>>
  BY DEF CarefulInv, Flush, Call, TypeOK
<1>2. /\ get[b] \in Seq(Bytes) /\ host[b] \in Seq(Bytes) /\ put[b] \in Seq(Bytes)
      /\ Len(put[b]) \in Nat
  BY <1>1, AreaType
<1>3. PICK n \in Accepted(Len(put[b])) :
         /\ host' = [host EXCEPT ![b] = Written(b, n)]
         /\ put' = [put EXCEPT ![b] = Unwritten(b, n)]
         /\ bad' = [bad EXCEPT ![b] = Reported(b, n)]
  BY DEF Flush
<1>4. n \in 0 .. Len(put[b])
  BY <1>2, AcceptedType
<1>5. \A x \in Bodies \ {b} :
        get'[x] = get[x] /\ host'[x] = host[x] /\ put'[x] = put[x]
  BY <1>1, <1>3 DEF TypeOK
<1>6. CASE n = Len(put[b])
  <2>1. get'[b] = get[b] /\ host'[b] = host[b] \o put[b] /\ put'[b] = <<>>
    BY <1>1, <1>3, <1>6, WrittenAll DEF TypeOK, Unwritten
  <2>2. get'[b] \o host'[b] \o put'[b] = Content(b)
    <3>1. (get[b] \o (host[b] \o put[b])) \o <<>> = (get[b] \o host[b]) \o put[b]
      BY <1>2, Regroup
    <3>2. QED
      BY <2>1, <3>1 DEF Content
  <2>3. Contents' = [Contents EXCEPT ![b] = Content(b)]
    BY <1>5, <2>2, OneContent
  <2>4. Contents' = Contents
    BY <2>3 DEF Contents
  <2>5. Reported(b, n) = FALSE
    BY <1>2, <1>6 DEF Reported
  <2>6. UNCHANGED bad
    BY <1>1, <1>3, <2>5 DEF TypeOK
  <2>7. QED
    BY <1>1, <2>4, <2>6 DEF Queue!Idle, Queue!NothingIn, Queue!NothingOut, Contents
<1>7. CASE n # Len(put[b])
  <2>1. Reported(b, n) = TRUE
    BY <1>2, <1>4, <1>7 DEF Reported
  <2>2. bad' = [bad EXCEPT ![b] = TRUE]
    BY <1>3, <2>1
  <2>3. life' = [life EXCEPT ![b] = "live"]
    BY <1>1 DEF TypeOK
  <2>4. QED
    BY <1>1, <1>5, <2>2, <2>3, FailStep
<1>8. QED
  BY <1>6, <1>7

LEMMA WriteStep ==
  ASSUME CarefulInv, NEW b \in Bodies, NEW s \in Chunks, put[b] = <<>>, Write(b, s)
  PROVE  Queue!Insert(b)
<1>1. /\ TypeOK /\ life[b] = "live" /\ host' = [host EXCEPT ![b] = host[b] \o s]
      /\ UNCHANGED <<life, put, get, bad>> /\ in' = s /\ out' = <<>>
  BY DEF CarefulInv, Write, Call, TypeOK
<1>2. get[b] \in Seq(Bytes) /\ host[b] \in Seq(Bytes) /\ s \in Seq(Bytes)
  BY <1>1, AreaType, ChunksAreSeqs
<1>3. get'[b] = get[b] /\ host'[b] = host[b] \o s /\ put'[b] = <<>>
  BY <1>1 DEF TypeOK
<1>4. get'[b] \o host'[b] \o put'[b] = Content(b) \o in'
  <2>1. (get[b] \o (host[b] \o s)) \o <<>> = (get[b] \o host[b]) \o s
    BY <1>2, Regroup, ZenonT(30)
  <2>2. ((get[b] \o host[b]) \o <<>>) \o s = (get[b] \o host[b]) \o s
    BY <1>2, Regroup
  <2>3. QED
    BY <1>1, <1>3, <2>1, <2>2 DEF Content
<1>5. \A x \in Bodies \ {b} :
        get'[x] = get[x] /\ host'[x] = host[x] /\ put'[x] = put[x]
  BY <1>1 DEF TypeOK
<1>6. QED
  BY <1>1, <1>4, <1>5, InsertStep

\* Body::read skips the get area, which is empty.
LEMMA ReadStep ==
  ASSUME CarefulInv, NEW b \in Bodies, NEW n \in 0 .. MaxLen, get[b] = <<>>, Read(b, n)
  PROVE  Queue!Extract(b)
<1>1. /\ TypeOK /\ life[b] = "live" /\ n \in 0 .. Len(host[b])
      /\ host' = [host EXCEPT ![b] = SubSeq(host[b], n + 1, Len(host[b]))]
      /\ UNCHANGED <<life, put, get, bad>>
      /\ in' = <<>> /\ out' = SubSeq(host[b], 1, n)
  BY BodyAssumption DEF CarefulInv, Read, Call, TypeOK
<1>2. host[b] \in Seq(Bytes) /\ put[b] \in Seq(Bytes) /\ Len(host[b]) \in Nat
  BY <1>1, AreaType
<1> DEFINE head == SubSeq(host[b], 1, n)
           tail == SubSeq(host[b], n + 1, Len(host[b]))
<1>3. head \in Seq(Bytes) /\ tail \in Seq(Bytes) /\ head \o tail = host[b]
  <2>1. n + 1 \in Nat \ {0} /\ Len(host[b]) \in 0 .. Len(host[b])
    BY <1>1, <1>2
  <2>2. head \in Seq(Bytes) /\ tail \in Seq(Bytes)
    BY <1>1, <1>2, <2>1, PieceOfSeq
  <2>3. head \o tail = host[b]
    BY <1>1, <1>2, Split
  <2>4. QED
    BY <2>2, <2>3
<1>4. get'[b] = <<>> /\ host'[b] = tail /\ put'[b] = put[b]
  BY <1>1 DEF TypeOK
<1>5. \A x \in Bodies \ {b} :
        get'[x] = get[x] /\ host'[x] = host[x] /\ put'[x] = put[x]
  BY <1>1 DEF TypeOK
<1> HIDE DEF head, tail
<1>6. tail \o put[b] \in Seq(Bytes)
  BY <1>2, <1>3, ConcatType
<1>7. (<<>> \o tail) \o put[b] = tail \o put[b] /\ (<<>> \o host[b]) \o put[b] = host[b] \o put[b]
  BY <1>2, <1>3, Regroup, EmptySeq
<1>8. head \o (tail \o put[b]) = (head \o tail) \o put[b]
  BY <1>2, <1>3, Associate, Zenon
<1>9. get'[b] \o host'[b] \o put'[b] = tail \o put[b]
  BY <1>4, <1>7
<1>10. Content(b) = out' \o (tail \o put[b])
  BY <1>1, <1>3, <1>7, <1>8 DEF Content, head
<1>11. out' \in Seq(Bytes)
  BY <1>1, <1>3 DEF head
<1>12. QED
  BY <1>1, <1>5, <1>6, <1>9, <1>10, <1>11, ExtractStep

\* The first byte of the get area.
LEMMA TakeBuffered ==
  ASSUME CarefulInv, NEW b \in Bodies, Take(b), get[b] # <<>>
  PROVE  Queue!Extract(b)
<1>1. /\ TypeOK /\ life[b] = "live"
      /\ get' = [get EXCEPT ![b] = Tail(get[b])]
      /\ UNCHANGED <<life, host, put, bad>>
      /\ in' = <<>> /\ out' = <<Head(get[b])>>
  BY DEF CarefulInv, Take, TypeOK
<1>2. /\ get[b] \in Seq(Bytes) /\ host[b] \in Seq(Bytes) /\ put[b] \in Seq(Bytes)
  BY <1>1, AreaType
<1>3. /\ <<Head(get[b])>> \in Seq(Bytes) /\ Tail(get[b]) \in Seq(Bytes)
      /\ <<Head(get[b])>> \o Tail(get[b]) = get[b]
  BY <1>2, HeadTailProperties, ConcatProperties
<1> DEFINE h == <<Head(get[b])>>
           t == Tail(get[b])
<1>4. get'[b] = t /\ host'[b] = host[b] /\ put'[b] = put[b]
  BY <1>1 DEF TypeOK
<1>5. \A x \in Bodies \ {b} :
        get'[x] = get[x] /\ host'[x] = host[x] /\ put'[x] = put[x]
  BY <1>1 DEF TypeOK
<1>6. h \in Seq(Bytes) /\ t \in Seq(Bytes) /\ h \o t = get[b] /\ out' = h
  BY <1>1, <1>3
<1> HIDE DEF h, t
<1>7. (t \o host[b]) \o put[b] \in Seq(Bytes)
  BY <1>2, <1>6, ConcatType
<1>8. h \o ((t \o host[b]) \o put[b]) = ((h \o t) \o host[b]) \o put[b]
  <2>1. t \o host[b] \in Seq(Bytes)
    BY <1>2, <1>6, ConcatType
  <2>2. h \o ((t \o host[b]) \o put[b]) = (h \o (t \o host[b])) \o put[b]
    <3> DEFINE m == t \o host[b]
    <3>1. m \in Seq(Bytes)
      BY <2>1
    <3> HIDE DEF m
    <3>2. h \in Seq(Bytes) /\ put[b] \in Seq(Bytes)
      BY <1>2, <1>6
    <3>3. h \o (m \o put[b]) = (h \o m) \o put[b]
      BY <3>1, <3>2, Associate
    <3>4. QED
      BY <3>3 DEF m
  <2>3. h \o (t \o host[b]) = (h \o t) \o host[b]
    BY <1>2, <1>6, Associate, ZenonT(30)
  <2>4. QED
    BY <2>2, <2>3
<1>9. Content(b) = out' \o ((t \o host[b]) \o put[b])
  BY <1>6, <1>8 DEF Content
<1>10. QED
  BY <1>1, <1>4, <1>5, <1>6, <1>7, <1>9, ExtractStep

LEMMA TakeUnderflow ==
  ASSUME CarefulInv, NEW b \in Bodies, Take(b), get[b] = <<>>
  PROVE  Queue!Extract(b)
<1>1. /\ TypeOK /\ life[b] = "live" /\ Underflow(b)
      /\ UNCHANGED <<life, put, bad>> /\ in' = <<>>
  BY DEF CarefulInv, Take
<1>2. host[b] \in Seq(Bytes) /\ put[b] \in Seq(Bytes) /\ Len(host[b]) \in Nat
  BY <1>1, AreaType
<1>3. ASSUME host[b] = <<>>, out' = <<>>, UNCHANGED <<host, get>>
      PROVE  Queue!Extract(b)
  <2>1. Content(b) \in Seq(Bytes)
    BY <1>1, ContentType
  <2>2. get'[b] \o host'[b] \o put'[b] = Content(b)
    BY <1>1, <1>3 DEF Content
  <2>3. out' \in Seq(Bytes) /\ Content(b) = out' \o Content(b)
    BY <1>3, <2>1, ConcatEmptySeq, EmptySeq
  <2>4. \A x \in Bodies \ {b} :
          get'[x] = get[x] /\ host'[x] = host[x] /\ put'[x] = put[x]
    BY <1>1, <1>3 DEF TypeOK
  <2>5. QED
    BY <1>1, <2>1, <2>2, <2>3, <2>4, ExtractStep
<1>4. ASSUME NEW n \in 1 .. Len(host[b]), NEW k \in {0, 1},
             out' = SubSeq(host[b], 1, k),
             get' = [get EXCEPT ![b] = SubSeq(host[b], k + 1, n)],
             host' = [host EXCEPT ![b] = SubSeq(host[b], n + 1, Len(host[b]))]
      PROVE  Queue!Extract(b)
  <2> DEFINE first == SubSeq(host[b], 1, k)
             mid == SubSeq(host[b], k + 1, n)
             tail == SubSeq(host[b], n + 1, Len(host[b]))
  <2>1. /\ k \in 0 .. Len(host[b]) /\ n \in 0 .. Len(host[b]) /\ k + 1 \in Nat \ {0}
        /\ n + 1 \in Nat \ {0} /\ Len(host[b]) \in 0 .. Len(host[b])
        /\ 1 \in 1 .. Len(host[b]) + 1 /\ k \in 1 - 1 .. Len(host[b]) /\ n \in k .. Len(host[b])
    BY <1>2
  <2>2. first \in Seq(Bytes) /\ mid \in Seq(Bytes) /\ tail \in Seq(Bytes)
    BY <1>2, <2>1, PieceOfSeq
  <2>3. first \o mid = SubSeq(host[b], 1, n)
    BY <1>2, <2>1, ConcatAdjacentSubSeq
  <2>4. SubSeq(host[b], 1, n) \o tail = host[b]
    BY <1>2, <2>1, Split
  <2>5. get'[b] = mid /\ host'[b] = tail /\ put'[b] = put[b] /\ out' = first
    BY <1>1, <1>4 DEF TypeOK
  <2>6. \A x \in Bodies \ {b} :
          get'[x] = get[x] /\ host'[x] = host[x] /\ put'[x] = put[x]
    BY <1>1, <1>4 DEF TypeOK
  <2>7. (first \o mid) \o tail = host[b]
    BY <2>3, <2>4
  <2> HIDE DEF first, mid, tail
  <2>8. (mid \o tail) \o put[b] \in Seq(Bytes)
    BY <1>2, <2>2, ConcatType
  <2>9. first \o ((mid \o tail) \o put[b]) = ((first \o mid) \o tail) \o put[b]
    <3>1. first \in Seq(Bytes) /\ mid \o tail \in Seq(Bytes) /\ put[b] \in Seq(Bytes)
      BY <1>2, <2>2, ConcatType
    <3>2. first \o ((mid \o tail) \o put[b]) = (first \o (mid \o tail)) \o put[b]
      BY <3>1, Associate, Zenon
    <3>3. first \o (mid \o tail) = (first \o mid) \o tail
      BY <2>2, Associate, Zenon
    <3>4. QED
      BY <3>2, <3>3
  <2>10. (<<>> \o host[b]) \o put[b] = host[b] \o put[b]
    BY <1>2, Regroup, EmptySeq
  <2>11. Content(b) = out' \o ((mid \o tail) \o put[b])
    BY <2>5, <2>7, <2>9, <2>10 DEF Content
  <2>12. QED
    BY <1>1, <2>2, <2>5, <2>6, <2>8, <2>11, ExtractStep
<1>5. ASSUME \E n \in 1 .. Len(host[b]) :
               LET k == IF AnswersEof(b, n) THEN 0 ELSE 1
               IN /\ n <= BufSize
                  /\ out' = SubSeq(host[b], 1, k)
                  /\ get' = [get EXCEPT ![b] = SubSeq(host[b], k + 1, n)]
                  /\ host' = [host EXCEPT ![b] = SubSeq(@, n + 1, Len(@))]
                  /\ eof' = [eof EXCEPT ![b] = AnswersEof(b, n)]
      PROVE  Queue!Extract(b)
  <2> DEFINE k(n) == IF AnswersEof(b, n) THEN 0 ELSE 1
  <2>1. PICK n \in 1 .. Len(host[b]) :
          /\ out' = SubSeq(host[b], 1, k(n))
          /\ get' = [get EXCEPT ![b] = SubSeq(host[b], k(n) + 1, n)]
          /\ host' = [host EXCEPT ![b] = SubSeq(host[b], n + 1, Len(host[b]))]
    BY <1>1, <1>5, Zenon DEF TypeOK
  <2>2. k(n) \in {0, 1}
    OBVIOUS
  <2> HIDE DEF k
  <2>3. QED
    BY <1>4, <2>1, <2>2
<1>6. QED
  BY <1>1, <1>3, <1>5 DEF Underflow

LEMMA MoveStep ==
  ASSUME CarefulInv, NEW b \in Bodies, NEW o \in Bodies, Syncable(o), Move(o, b)
  PROVE  Queue!Move(o, b)
<1>1. /\ TypeOK /\ life[o] = "live" /\ life[b] = "unborn" /\ o # b
      /\ life' = [life EXCEPT ![o] = "moved", ![b] = "live"]
      /\ put' = [put EXCEPT ![o] = <<>>]
      /\ get' = [get EXCEPT ![o] = <<>>, ![b] = get[o]]
      /\ UNCHANGED bad /\ in' = <<>> /\ out' = <<>>
  BY DEF CarefulInv, Move, Call
<1>2. get[o] \in Seq(Bytes) /\ host[o] \in Seq(Bytes) /\ put[o] \in Seq(Bytes)
  BY <1>1, AreaType
<1>3. PICK n \in Accepted(Len(put[o])) :
        host' = [host EXCEPT ![o] = <<>>, ![b] = Written(o, n)]
  BY DEF Move
<1>4. Written(o, n) = host[o] \o put[o]
  BY <1>1, SyncWrites
<1>5. put[b] = <<>> /\ bad[b] = FALSE /\ bad[o] = FALSE
  BY <1>1 DEF CarefulInv, UnbornIsEmpty, TypeOK, Syncable
<1>6. /\ get'[b] = get[o] /\ host'[b] = host[o] \o put[o] /\ put'[b] = <<>>
      /\ get'[o] = <<>> /\ host'[o] = <<>> /\ put'[o] = <<>>
      /\ \A x \in Bodies \ {b, o} :
           get'[x] = get[x] /\ host'[x] = host[x] /\ put'[x] = put[x]
  BY <1>1, <1>3, <1>4, <1>5 DEF TypeOK
<1>7. (get[o] \o (host[o] \o put[o])) \o <<>> = (get[o] \o host[o]) \o put[o]
  BY <1>2, Regroup
<1>8. (<<>> \o <<>>) \o <<>> = <<>>
  BY EmptySeq, ConcatEmptySeq
<1>9. Contents' = [Contents EXCEPT ![o] = <<>>, ![b] = Content(o)]
  <2>1. Content(b)' = Content(o) /\ Content(o)' = <<>>
    BY <1>6, <1>7, <1>8 DEF Content
  <2>2. \A x \in Bodies \ {b, o} : Content(x)' = Content(x)
    BY <1>6 DEF Content
  <2> QED
    BY <1>1, <2>1, <2>2 DEF Contents
<1>10. bad' = [bad EXCEPT ![b] = bad[o]]
  BY <1>1, <1>5 DEF TypeOK
<1>11. Contents[o] = Content(o)
  BY DEF Contents
<1>12. QED
  BY <1>1, <1>9, <1>10, <1>11 DEF Queue!Move, Queue!NothingIn, Queue!NothingOut, Contents

LEMMA AppendBodyStep ==
  ASSUME CarefulInv, NEW b \in Bodies, NEW o \in Bodies,
         Syncable(o), put[b] = <<>>, get[o] = <<>>, AppendBody(b, o)
  PROVE  Queue!AppendBody(b, o)
<1>1. /\ TypeOK /\ b # o /\ life[b] = "live" /\ life[o] = "live"
      /\ life' = [life EXCEPT ![o] = "moved"]
      /\ put' = [put EXCEPT ![o] = <<>>]
      /\ get' = [get EXCEPT ![o] = <<>>]
      /\ UNCHANGED bad /\ in' = <<>> /\ out' = <<>>
  BY DEF CarefulInv, AppendBody
<1>2. /\ get[b] \in Seq(Bytes) /\ host[b] \in Seq(Bytes)
      /\ host[o] \in Seq(Bytes) /\ put[o] \in Seq(Bytes)
  BY <1>1, AreaType
<1>3. PICK n \in Accepted(Len(put[o])) :
        host' = [host EXCEPT ![b] = host[b] \o Written(o, n), ![o] = <<>>]
  BY <1>1, Zenon DEF AppendBody, TypeOK
<1>4. Written(o, n) = host[o] \o put[o]
  BY <1>1, SyncWrites
<1>5. /\ get'[b] = get[b] /\ host'[b] = host[b] \o (host[o] \o put[o]) /\ put'[b] = <<>>
      /\ get'[o] = <<>> /\ host'[o] = <<>> /\ put'[o] = <<>>
      /\ \A x \in Bodies \ {b, o} :
           get'[x] = get[x] /\ host'[x] = host[x] /\ put'[x] = put[x]
  BY <1>1, <1>3, <1>4 DEF TypeOK
<1>6. (<<>> \o <<>>) \o <<>> = <<>>
  BY EmptySeq, ConcatEmptySeq
<1>7. Content(b)' = Content(b) \o Content(o)
  <2>1. /\ host[o] \o put[o] \in Seq(Bytes) /\ get[b] \o host[b] \in Seq(Bytes)
    BY <1>2, ConcatType
  <2>2. (get[b] \o (host[b] \o (host[o] \o put[o]))) \o <<>>
          = (get[b] \o host[b]) \o (host[o] \o put[o])
    <3>1. get[b] \o (host[b] \o (host[o] \o put[o]))
            = (get[b] \o host[b]) \o (host[o] \o put[o])
      <4> DEFINE m == host[o] \o put[o]
      <4>1. m \in Seq(Bytes)
        BY <2>1
      <4> HIDE DEF m
      <4>2. get[b] \o (host[b] \o m) = (get[b] \o host[b]) \o m
        BY <1>2, <4>1, Associate, ZenonT(30)
      <4>3. QED
        BY <4>2 DEF m
    <3>2. (get[b] \o host[b]) \o (host[o] \o put[o]) \in Seq(Bytes)
      BY <2>1, ConcatType
    <3>3. QED
      BY <3>1, <3>2, ConcatEmptySeq
  <2>3. ((get[b] \o host[b]) \o <<>>) = get[b] \o host[b]
    BY <2>1, ConcatEmptySeq
  <2>4. (<<>> \o host[o]) \o put[o] = host[o] \o put[o]
    BY <1>2, ConcatEmptySeq
  <2>5. QED
    BY <1>1, <1>5, <2>2, <2>3, <2>4 DEF Content
<1>8. Contents' = [Contents EXCEPT ![b] = Content(b) \o Content(o), ![o] = <<>>]
  <2>1. Content(o)' = <<>>
    BY <1>5, <1>6 DEF Content
  <2>2. \A x \in Bodies \ {b, o} : Content(x)' = Content(x)
    BY <1>5 DEF Content
  <2>3. QED
    BY <1>1, <1>7, <2>1, <2>2 DEF Contents
<1>9. bad' = [bad EXCEPT ![b] = bad[b] \/ bad[o]]
  <2>1. (bad[b] \/ bad[o]) = bad[b]
    BY <1>1 DEF Syncable, TypeOK
  <2>2. QED
    BY <1>1, <2>1 DEF TypeOK
<1>10. Contents' = [Contents EXCEPT ![b] = Contents[b] \o Contents[o], ![o] = <<>>]
  BY <1>8 DEF Contents
<1>11. [Contents EXCEPT ![b] = @ \o Contents[o], ![o] = <<>>]
         = [Contents EXCEPT ![b] = Contents[b] \o Contents[o], ![o] = <<>>]
  BY DEF Contents
<1>12. [bad EXCEPT ![b] = @ \/ bad[o]] = [bad EXCEPT ![b] = bad[b] \/ bad[o]]
  BY <1>1 DEF TypeOK
<1>13. QED
  BY <1>1, <1>9, <1>10, <1>11, <1>12
     DEF Queue!AppendBody, Queue!NothingIn, Queue!NothingOut, Contents

\* A body is given away with an empty get area, and its put area empty or
\* sure to be written.
LEMMA GiveStep ==
  ASSUME CarefulInv, NEW b \in Bodies, NEW synced \in BOOLEAN, get[b] = <<>>,
         IF synced THEN Syncable(b) ELSE put[b] = <<>>, Give(b, synced)
  PROVE  Queue!Give(b)
<1>1. /\ TypeOK /\ life[b] = "live" /\ life' = [life EXCEPT ![b] = "given"]
      /\ put' = [put EXCEPT ![b] = <<>>] /\ get' = [get EXCEPT ![b] = <<>>]
      /\ UNCHANGED bad /\ in' = <<>> /\ out' = <<>>
  BY DEF CarefulInv, Give, Call
<1>2. host[b] \in Seq(Bytes) /\ put[b] \in Seq(Bytes) /\ Len(put[b]) \in Nat
  BY <1>1, AreaType
<1>3. PICK n \in (IF synced THEN Accepted(Len(put[b])) ELSE {0}) :
        host' = [host EXCEPT ![b] = Written(b, n)]
  BY DEF Give
<1>4. Written(b, n) = host[b] \o put[b]
  <2>1. CASE synced
    BY <1>1, <1>3, <2>1, SyncWrites
  <2>2. CASE ~synced
    BY <1>1, <1>3, <2>2, WrittenAll, EmptySeq
  <2>3. QED
    BY <2>1, <2>2
<1>5. /\ get'[b] = <<>> /\ host'[b] = host[b] \o put[b] /\ put'[b] = <<>>
      /\ \A x \in Bodies \ {b} :
           get'[x] = get[x] /\ host'[x] = host[x] /\ put'[x] = put[x]
  BY <1>1, <1>3, <1>4 DEF TypeOK
<1>6. (<<>> \o (host[b] \o put[b])) \o <<>> = (<<>> \o host[b]) \o put[b]
  BY <1>2, EmptySeq, Regroup
<1>7. get'[b] \o host'[b] \o put'[b] = Content(b)
  BY <1>5, <1>6 DEF Content
<1>8. Contents' = [Contents EXCEPT ![b] = Content(b)]
  BY <1>5, <1>7, OneContent
<1>9. Contents' = Contents
  BY <1>8 DEF Contents
<1>10. QED
  BY <1>1, <1>9 DEF Queue!Give, Queue!NothingIn, Queue!NothingOut, Contents

LEMMA DestroyStep ==
  ASSUME CarefulInv, NEW b \in Bodies, Destroy(b)
  PROVE  Queue!Destroy(b)
<1>1. TypeOK /\ get'[b] = <<>> /\ host'[b] = <<>> /\ put'[b] = <<>>
  BY DEF CarefulInv, Destroy, TypeOK
<1>2. \A x \in Bodies \ {b} :
        get'[x] = get[x] /\ host'[x] = host[x] /\ put'[x] = put[x]
  BY <1>1 DEF Destroy, TypeOK
<1>3. (<<>> \o <<>>) \o <<>> = <<>>
  BY EmptySeq, ConcatEmptySeq
<1>4. get'[b] \o host'[b] \o put'[b] = <<>>
  BY <1>1, <1>3
<1>5. Contents' = [Contents EXCEPT ![b] = <<>>]
  BY <1>2, <1>4, OneContent
<1>6. QED
  BY <1>5 DEF Destroy, Call, Queue!Destroy, Queue!NothingIn, Queue!NothingOut, Contents

-------------------------------------------------------------------------------

LEMMA QueueInit == Init => Queue!Init
<1> SUFFICES ASSUME Init
             PROVE  Queue!Init
  OBVIOUS
<1>1. (<<>> \o <<>>) \o <<>> = <<>>
  BY EmptySeq, ConcatEmptySeq
<1>2. \A b \in Bodies : Content(b) = <<>>
  BY <1>1 DEF Init, Content
<1>3. QED
  BY <1>2 DEF Init, Queue!Init

LEMMA QueueStep == CarefulInv /\ [CarefulNext]_vars => [Queue!Next]_(Queue!vars)
<1> SUFFICES ASSUME CarefulInv, [CarefulNext]_vars
             PROVE  [Queue!Next]_(Queue!vars)
  OBVIOUS
<1>0. TypeOK'
  BY UnbornStep DEF CarefulInv
<1>1. ASSUME NEW b \in Bodies, NEW s \in Chunks, Construct(b, s)
      PROVE  Queue!Next
  BY <1>0, <1>1, ConstructStep DEF Queue!Next
<1>2. ASSUME NEW b \in Bodies, NEW s \in Chunks, put[b] = <<>>, Write(b, s)
      PROVE  Queue!Next
  BY <1>2, WriteStep DEF Queue!Next
<1>3. ASSUME NEW b \in Bodies, NEW c \in Bytes, Put(b, c)
      PROVE  Queue!Next
  BY <1>0, <1>3, PutStep DEF Queue!Next
<1>4. ASSUME NEW b \in Bodies, NEW n \in 0 .. MaxLen, get[b] = <<>>, Read(b, n)
      PROVE  Queue!Next
  BY <1>4, ReadStep DEF Queue!Next
<1>5. ASSUME NEW b \in Bodies, Flush(b)
      PROVE  Queue!Next
  BY <1>0, <1>5, FlushStep DEF Queue!Next
<1>6. ASSUME NEW b \in Bodies, Take(b)
      PROVE  Queue!Next
  BY <1>6, TakeBuffered, TakeUnderflow DEF Queue!Next
<1>7. ASSUME NEW b \in Bodies, Destroy(b)
      PROVE  Queue!Next
  BY <1>7, DestroyStep DEF Queue!Next
<1>8. ASSUME NEW b \in Bodies, NEW o \in Bodies, Syncable(o), Move(o, b)
      PROVE  Queue!Next
  BY <1>8, MoveStep DEF Queue!Next
<1>9. ASSUME NEW b \in Bodies, NEW o \in Bodies,
             Syncable(o), put[b] = <<>>, get[o] = <<>>, AppendBody(b, o)
      PROVE  Queue!Next
  BY <1>9, AppendBodyStep DEF Queue!Next
<1>10. ASSUME NEW b \in Bodies, get[b] = <<>>, Syncable(b), Give(b, TRUE)
       PROVE  Queue!Next
  BY <1>10, GiveStep DEF Queue!Next
<1>11. ASSUME NEW b \in Bodies, get[b] = <<>>, put[b] = <<>>, Give(b, FALSE)
       PROVE  Queue!Next
  BY <1>11, GiveStep DEF Queue!Next
<1>12. ASSUME UNCHANGED vars
       PROVE  UNCHANGED Queue!vars
  BY <1>12 DEF vars, Queue!vars, Content
<1>13. QED
  BY <1>1, <1>2, <1>3, <1>4, <1>5, <1>6, <1>7, <1>8, <1>9, <1>10, <1>11, <1>12
     DEF CarefulNext

\* A program that flushes before it writes past the put area, drains the get
\* area before it reads past it, and checks a body before it moves it never
\* loses, doubles or reorders a byte without the stream turning bad.
THEOREM CarefulIsQueue == CarefulSpec => IsQueue
<1>1. Init => CarefulInv
  BY TypeInit DEF CarefulInv, UnbornIsEmpty, Init
<1>2. CarefulInv /\ [CarefulNext]_vars => CarefulInv'
  BY UnbornStep
<1>3. QED
  BY <1>1, <1>2, QueueInit, QueueStep, PTL DEF CarefulSpec, IsQueue, Queue!Spec
===============================================================================
