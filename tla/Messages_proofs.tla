---------------------------- MODULE Messages_proofs ----------------------------
(***************************************************************************)
(* Proofs about Esi, StreamingBody, HttpMessage and HeaderRanges:          *)
(* components that share no state, each for every value of its constants.  *)
(***************************************************************************)
EXTENDS Esi, StreamingBody, HttpMessage, HeaderRanges, SequenceTheorems,
        FiniteSetTheorems, TLAPS

-------------------------------------------------------------------------------
(* Esi. *)

\* A Processor that was not used has no result either.
EsiInv == ETypeOK /\ (e_processor = "live" => e_result = "none")

LEMMA EsiInit == EInit => EsiInv
BY EmptySeq DEF EInit, EsiInv, ETypeOK

\* A fragment goes on, or ends the document.
LEMMA FragmentsStep ==
  ASSUME EsiInv, e_processor = "running", NEW fragments \in Seq(FragmentStates),
         Failed(fragments) \/ Goes(fragments)
  PROVE  EsiInv'
<1>1. /\ e_fragments' = fragments
      /\ \/ UNCHANGED <<e_processor, e_result>>
         \/ e_processor' = "moved" /\ e_result' = "error"
  BY DEF Failed, Goes
<1>2. QED
  BY <1>1 DEF EsiInv, ETypeOK

LEMMA EsiStep == EsiInv /\ [ENext]_evars => EsiInv'
<1> SUFFICES ASSUME EsiInv, [ENext]_evars PROVE EsiInv'
  OBVIOUS
<1>1. e_fragments \in Seq(FragmentStates)
  BY DEF EsiInv, ETypeOK
<1>2. \A content \in FragmentStates : Append(e_fragments, content) \in Seq(FragmentStates)
  BY <1>1, AppendProperties
<1>3. \A i \in 1 .. Len(e_fragments), content \in FragmentStates :
        [e_fragments EXCEPT ![i] = content] \in Seq(FragmentStates)
  BY <1>1, ExceptSeq
<1>4. CASE Processor
  BY <1>4, EmptySeq DEF Processor, EsiInv, ETypeOK
<1>5. CASE process_response \/ process_document
  BY <1>5 DEF process_response, process_document, ProcessBegins, EsiInv, ETypeOK
<1>6. CASE dispatch
  BY <1>2, <1>6, FragmentsStep DEF dispatch, FragmentStates
<1>7. ASSUME NEW i \in 1 .. Len(e_fragments), Responded(i) \/ process(i) PROVE EsiInv'
  BY <1>3, <1>7, FragmentsStep DEF Responded, process, FragmentStates
<1>8. CASE ProcessEnds
  BY <1>8 DEF ProcessEnds, EsiInv, ETypeOK
<1>9. CASE UNCHANGED evars
  BY <1>9 DEF evars, EsiInv, ETypeOK
<1>10. QED
  BY <1>4, <1>5, <1>6, <1>7, <1>8, <1>9 DEF ENext

\* A Processor that runs has no result yet: no call is made on a box that an
\* earlier call took (Processor::process_response and process_document).
THEOREM EsiTyped == ESpec => []ETypeOK
<1>1. EsiInv => ETypeOK
  BY DEF EsiInv
<1>2. QED
  BY EsiInit, EsiStep, <1>1, PTL DEF ESpec

-------------------------------------------------------------------------------
(* StreamingBody. *)

\* Where nobody was told of refused bytes, and none are lost unknown to the
\* program, what was handed over and what waits are the bytes in their order.
Ordered ==
  s_end = "open" /\ ~s_told /\ ~s_untold /\ ~s_ahead =>
    /\ s_count = Len(s_received) + Len(s_put)
    /\ \A i \in 1 .. Len(s_received) : s_received[i] = i
    /\ \A i \in 1 .. Len(s_put) : s_put[i] = Len(s_received) + i

\* Where the stream was never bad, no byte waits that was handed over.
Distinct ==
  ~s_told =>
    /\ \A i, j \in 1 .. Len(s_put) : s_put[i] = s_put[j] => i = j
    /\ \A i \in 1 .. Len(s_received), j \in 1 .. Len(s_put) : s_received[i] # s_put[j]

StreamInv ==
  /\ STypeOK /\ FinishedIsWhole /\ NoByteTwice
  /\ Ordered /\ Distinct
  /\ s_bad => s_told

LEMMA SeqEmpty == \A S : <<>> \in Seq(S) /\ Len(<<>>) = 0
BY EmptySeq

LEMMA StreamInit == SInit => StreamInv
<1> SUFFICES ASSUME SInit PROVE StreamInv
  OBVIOUS
<1>1. /\ s_count = 0 /\ s_put = <<>> /\ s_received = <<>> /\ s_end = "open"
      /\ s_bad \in BOOLEAN /\ s_told \in BOOLEAN
      /\ s_untold \in BOOLEAN /\ s_ahead \in BOOLEAN /\ (s_bad => s_told)
  BY DEF SInit
<1>2. STypeOK
  BY <1>1, SeqEmpty, StreamAssumption DEF STypeOK
<1>3. NoByteTwice /\ Ordered /\ Distinct
  BY <1>1, SeqEmpty DEF NoByteTwice, Ordered, Distinct
<1>4. FinishedIsWhole
  BY <1>1 DEF FinishedIsWhole
<1>5. QED
  BY <1>1, <1>2, <1>3, <1>4 DEF StreamInv

\* The types as facts about lengths and bytes.
LEMMA StreamTypes ==
  ASSUME STypeOK
  PROVE  /\ s_count \in Nat /\ Len(s_put) \in Nat /\ Len(s_received) \in Nat
         /\ \A i \in 1 .. Len(s_put) : s_put[i] \in 1 .. s_count
         /\ \A i \in 1 .. Len(s_received) : s_received[i] \in 1 .. s_count
BY LenProperties, ElementOfSeq DEF STypeOK

\* A sequence that another is put behind.
LEMMA Behind ==
  ASSUME NEW S, NEW before \in Seq(S), NEW part \in Seq(S), NEW n \in Nat, Len(part) = n
  PROVE  /\ before \o part \in Seq(S) /\ Len(before \o part) = Len(before) + n
         /\ \A i \in 1 .. Len(before) : (before \o part)[i] = before[i]
         /\ \A i \in 1 .. n : (before \o part)[Len(before) + i] = part[i]
<1>1. Len(before) \in Nat
  BY LenProperties
<1>2. before \o part \in Seq(S) /\ Len(before \o part) = Len(before) + n
  BY ConcatProperties
<1>3. \A i \in 1 .. Len(before) : (before \o part)[i] = before[i]
  BY <1>1, ConcatProperties
<1>4. \A i \in 1 .. n : (before \o part)[Len(before) + i] = part[i]
  BY <1>1, ConcatProperties
<1>5. QED
  BY <1>2, <1>3, <1>4

LEMMA NumbersSeq ==
  ASSUME NEW c \in Nat, NEW n \in Nat, NEW k \in Nat, n <= k
  PROVE  /\ Numbers(c, c + n) \in Seq(1 .. c + k) /\ Len(Numbers(c, c + n)) = n
         /\ \A i \in 1 .. n : Numbers(c, c + n)[i] = c + i
<1>1. Numbers(c, c + n) = [i \in 1 .. n |-> c + i]
  BY DEF Numbers
<1>2. \A i \in 1 .. n : c + i \in 1 .. c + k
  OBVIOUS
<1>3. [i \in 1 .. n |-> c + i] \in Seq(1 .. c + k)
  BY <1>2
<1>4. Len([i \in 1 .. n |-> c + i]) = n
  OBVIOUS
<1>5. QED
  BY <1>1, <1>3, <1>4

\* What overflow hands over.
LEMMA Handed ==
  ASSUME STypeOK, NEW n \in 0 .. Len(s_put), SOverflow(n)
  PROVE  /\ s_received' \in Seq(1 .. s_count)
         /\ Len(s_received') = Len(s_received) + n
         /\ \A i \in 1 .. Len(s_received) : s_received'[i] = s_received[i]
         /\ \A i \in 1 .. n : s_received'[Len(s_received) + i] = s_put[i]
<1> DEFINE part == SubSeq(s_put, 1, n)
<1>1. /\ part \in Seq(1 .. s_count) /\ Len(part) = n /\ n \in Nat
      /\ \A i \in 1 .. n : part[i] = s_put[i]
  BY StreamTypes, SubSeqProperties DEF STypeOK
<1> HIDE DEF part
<1>2. s_received' = s_received \o part /\ s_received \in Seq(1 .. s_count)
  BY DEF SOverflow, part, STypeOK
<1>3. /\ s_received \o part \in Seq(1 .. s_count)
      /\ Len(s_received \o part) = Len(s_received) + n
      /\ \A i \in 1 .. Len(s_received) : (s_received \o part)[i] = s_received[i]
      /\ \A i \in 1 .. n : (s_received \o part)[Len(s_received) + i] = part[i]
  BY <1>1, <1>2, Behind
<1>4. QED
  BY <1>1, <1>2, <1>3

\* What a write past the put area hands over.
LEMMA Written ==
  ASSUME STypeOK, NEW k \in Nat, NEW n \in 0 .. k,
         s_received' = s_received \o Numbers(s_count, s_count + n)
  PROVE  /\ s_received' \in Seq(1 .. s_count + k)
         /\ Len(s_received') = Len(s_received) + n
         /\ \A i \in 1 .. Len(s_received) : s_received'[i] = s_received[i]
         /\ \A i \in 1 .. n : s_received'[Len(s_received) + i] = s_count + i
<1> DEFINE part == Numbers(s_count, s_count + n)
<1>1. /\ s_count \in Nat /\ n \in Nat /\ n <= k /\ s_received \in Seq(1 .. s_count + k)
      /\ s_received' = s_received \o part
  BY StreamTypes, SeqMonotonic DEF STypeOK
<1>2. /\ part \in Seq(1 .. s_count + k) /\ Len(part) = n
      /\ \A i \in 1 .. n : part[i] = s_count + i
  BY <1>1, NumbersSeq
<1> HIDE DEF part
<1>3. /\ s_received \o part \in Seq(1 .. s_count + k)
      /\ Len(s_received \o part) = Len(s_received) + n
      /\ \A i \in 1 .. Len(s_received) : (s_received \o part)[i] = s_received[i]
      /\ \A i \in 1 .. n : (s_received \o part)[Len(s_received) + i] = part[i]
  BY <1>1, <1>2, Behind
<1>4. QED
  BY <1>1, <1>2, <1>3

\* overflow repeats nothing, and keeps the order.
LEMMA HandedInOrder ==
  ASSUME StreamInv, NEW n \in 0 .. Len(s_put), SOverflow(n)
  PROVE  /\ s_received' \in Seq(1 .. s_count)
         /\ ~s_told => \A i, j \in 1 .. Len(s_received') : s_received'[i] = s_received'[j] => i = j
         /\ s_end = "open" /\ ~s_told /\ ~s_untold /\ ~s_ahead =>
              /\ Len(s_received') = Len(s_received) + n
              /\ \A i \in 1 .. Len(s_received') : s_received'[i] = i
<1> DEFINE r == Len(s_received)
<1>1. STypeOK /\ r \in Nat /\ Len(s_put) \in Nat /\ n \in Nat /\ n <= Len(s_put)
  BY StreamTypes DEF StreamInv
<1>2. /\ s_received' \in Seq(1 .. s_count) /\ Len(s_received') = r + n
      /\ \A i \in 1 .. r : s_received'[i] = s_received[i]
      /\ \A i \in 1 .. n : s_received'[r + i] = s_put[i]
  BY <1>1, Handed
<1>3. \A i \in 1 .. r + n : i \in 1 .. r \/ (i - r \in 1 .. n /\ i = r + (i - r))
  BY <1>1
<1>4. ASSUME ~s_told
      PROVE  \A i, j \in 1 .. r + n : s_received'[i] = s_received'[j] => i = j
  <2>1. /\ \A i, j \in 1 .. r : s_received[i] = s_received[j] => i = j
        /\ \A i, j \in 1 .. Len(s_put) : s_put[i] = s_put[j] => i = j
        /\ \A i \in 1 .. r, j \in 1 .. Len(s_put) : s_received[i] # s_put[j]
    BY <1>4 DEF StreamInv, NoByteTwice, Distinct
  <2> SUFFICES ASSUME NEW i \in 1 .. r + n, NEW j \in 1 .. r + n,
                      s_received'[i] = s_received'[j]
               PROVE  i = j
    OBVIOUS
  <2> HIDE DEF r
  <2>2. \A k \in 1 .. n : k \in 1 .. Len(s_put)
    BY <1>1
  <2>3. CASE i \in 1 .. r /\ j \in 1 .. r
    BY <1>2, <2>1, <2>3
  <2>4. CASE i \in 1 .. r /\ j \notin 1 .. r
    BY <1>2, <1>3, <2>1, <2>2, <2>4
  <2>5. CASE i \notin 1 .. r /\ j \in 1 .. r
    BY <1>2, <1>3, <2>1, <2>2, <2>5
  <2>6. CASE i \notin 1 .. r /\ j \notin 1 .. r
    <3>1. i - r \in 1 .. n /\ j - r \in 1 .. n /\ i = r + (i - r) /\ j = r + (j - r)
      BY <1>3, <2>6
    <3>2. s_put[i - r] = s_put[j - r]
      BY <1>2, <3>1
    <3>3. i - r = j - r
      BY <2>1, <2>2, <3>1, <3>2
    <3>4. QED
      BY <3>1, <3>3
  <2>7. QED
    BY <2>3, <2>4, <2>5, <2>6
<1>5. ASSUME s_end = "open", ~s_told, ~s_untold, ~s_ahead
      PROVE  \A i \in 1 .. r + n : s_received'[i] = i
  <2>1. /\ \A i \in 1 .. r : s_received[i] = i
        /\ \A i \in 1 .. Len(s_put) : s_put[i] = r + i
    BY <1>5 DEF StreamInv, Ordered
  <2> HIDE DEF r
  <2>2. ASSUME NEW k \in 1 .. n PROVE s_received'[r + k] = r + k
    <3>1. k \in 1 .. Len(s_put)
      BY <1>1
    <3>2. s_received'[r + k] = s_put[k] /\ s_put[k] = r + k
      BY <1>2, <2>1, <3>1
    <3>3. QED
      BY <3>2
  <2>3. \A i \in 1 .. r : s_received'[i] = i
    BY <1>2, <2>1
  <2>4. QED
    BY <1>3, <2>2, <2>3
<1>6. QED
  BY <1>2, <1>4, <1>5

\* An operation that keeps the stream open and after which nothing waits.
LEMMA EmptiedStep ==
  ASSUME StreamInv, NEW n \in 0 .. Len(s_put), SOverflow(n), s_put' = <<>>,
         s_end = "open", UNCHANGED <<s_end, s_count, s_ahead>>,
         s_told' \in BOOLEAN, s_untold' \in BOOLEAN, s_bad' \in BOOLEAN,
         s_told => s_told', s_untold => s_untold', s_bad' => s_told',
         n < Len(s_put) => s_told' \/ s_untold'
  PROVE  StreamInv'
<1>1. /\ s_received' \in Seq(1 .. s_count)
      /\ ~s_told => \A i, j \in 1 .. Len(s_received') : s_received'[i] = s_received'[j] => i = j
      /\ s_end = "open" /\ ~s_told /\ ~s_untold /\ ~s_ahead =>
           /\ Len(s_received') = Len(s_received) + n
           /\ \A i \in 1 .. Len(s_received') : s_received'[i] = i
  BY HandedInOrder
<1>2. STypeOK /\ Ordered /\ Len(s_put) \in Nat /\ Len(s_received) \in Nat
  BY StreamTypes DEF StreamInv
<1>3. s_put' \in Seq(1 .. s_count') /\ Len(s_put') = 0
  BY EmptySeq
<1>4. STypeOK'
  BY <1>1, <1>2, <1>3, StreamAssumption DEF STypeOK
<1>5. NoByteTwice'
  BY <1>1 DEF NoByteTwice
<1>6. Distinct'
  BY <1>3 DEF Distinct
<1>7. Ordered'
  <2>1. n <= Len(s_put) /\ n \in Nat
    BY <1>2
  <2> SUFFICES ASSUME ~s_told', ~s_untold', ~s_ahead'
               PROVE  /\ s_count' = Len(s_received') + Len(s_put')
                      /\ \A i \in 1 .. Len(s_received') : s_received'[i] = i
    BY <1>3 DEF Ordered
  <2>2. n = Len(s_put)
    BY <1>2, <2>1
  <2>3. s_count = Len(s_received) + Len(s_put)
    BY <1>2 DEF Ordered
  <2>4. QED
    BY <1>1, <1>2, <1>3, <2>2, <2>3
<1>8. FinishedIsWhole'
  BY DEF FinishedIsWhole
<1>9. QED
  BY <1>4, <1>5, <1>6, <1>7, <1>8 DEF StreamInv

\* A state in which the stream was bad promises nothing but its type.
LEMMA ToldStep ==
  ASSUME STypeOK', s_told', s_end' # "finished"
  PROVE  StreamInv'
BY DEF StreamInv, FinishedIsWhole, NoByteTwice, Ordered, Distinct

\* One byte that goes into the put area, behind what is still there.
LEMMA PutInStep ==
  ASSUME StreamInv, s_end = "open", ~s_bad,
         s_count' = s_count + 1, UNCHANGED <<s_end, s_told, s_untold, s_ahead, s_bad>>,
         \/ SRoom /\ s_put' = Append(s_put, s_count + 1) /\ UNCHANGED s_received
         \/ SOverflow(Len(s_put)) /\ s_put' = Append(<<>>, s_count + 1)
  PROVE  StreamInv'
<1>1. /\ s_count \in Nat /\ Len(s_put) \in Nat /\ Len(s_received) \in Nat
      /\ STypeOK /\ NoByteTwice /\ Ordered /\ Distinct
      /\ \A i \in 1 .. Len(s_put) : s_put[i] \in 1 .. s_count
      /\ \A i \in 1 .. Len(s_received) : s_received[i] \in 1 .. s_count
  BY StreamTypes DEF StreamInv
<1>2. s_count + 1 \in 1 .. s_count + 1 /\ 1 .. s_count \subseteq 1 .. s_count + 1
  BY <1>1
<1>3. StreamBuf \in Nat /\ StreamBuf >= 1
  BY StreamAssumption
<1>4. CASE SRoom /\ s_put' = Append(s_put, s_count + 1) /\ UNCHANGED s_received
  <2>1. s_put \in Seq(1 .. s_count + 1) /\ s_received \in Seq(1 .. s_count + 1)
    BY <1>1, <1>2, SeqMonotonic DEF STypeOK
  <2>2. /\ s_put' \in Seq(1 .. s_count + 1) /\ Len(s_put') = Len(s_put) + 1
        /\ \A i \in 1 .. Len(s_put) : s_put'[i] = s_put[i]
        /\ s_put'[Len(s_put) + 1] = s_count + 1
    BY <1>2, <1>4, <2>1, AppendProperties
  <2>3. STypeOK'
    BY <1>1, <1>3, <1>4, <2>1, <2>2 DEF STypeOK, SRoom
  <2>4. \A i \in 1 .. Len(s_put) + 1 : i \in 1 .. Len(s_put) \/ i = Len(s_put) + 1
    BY <1>1
  <2>5. Distinct'
    BY <1>1, <1>4, <2>2, <2>4 DEF Distinct
  <2>6. Ordered'
    BY <1>1, <1>4, <2>2, <2>4 DEF Ordered
  <2>7. NoByteTwice' /\ FinishedIsWhole'
    BY <1>1, <1>4 DEF NoByteTwice, FinishedIsWhole
  <2>8. QED
    BY <2>3, <2>5, <2>6, <2>7 DEF StreamInv
<1>5. CASE SOverflow(Len(s_put)) /\ s_put' = Append(<<>>, s_count + 1)
  <2>1. Len(s_put) \in 0 .. Len(s_put)
    BY <1>1
  <2>2. /\ s_received' \in Seq(1 .. s_count)
        /\ ~s_told => \A i, j \in 1 .. Len(s_received') : s_received'[i] = s_received'[j] => i = j
        /\ s_end = "open" /\ ~s_told /\ ~s_untold /\ ~s_ahead =>
             /\ Len(s_received') = Len(s_received) + Len(s_put)
             /\ \A i \in 1 .. Len(s_received') : s_received'[i] = i
    BY <1>5, <2>1, HandedInOrder
  <2>3. /\ s_put' \in Seq(1 .. s_count + 1) /\ Len(s_put') = 1 /\ s_put'[1] = s_count + 1
    BY <1>2, <1>5, EmptySeq, AppendProperties
  <2>4. /\ s_received' \in Seq(1 .. s_count + 1) /\ Len(s_received') \in Nat
        /\ \A i \in 1 .. Len(s_received') : s_received'[i] \in 1 .. s_count
    BY <1>2, <2>2, SeqMonotonic, LenProperties, ElementOfSeq
  <2>5. STypeOK'
    BY <1>1, <1>3, <2>3, <2>4 DEF STypeOK
  <2>6. Distinct'
    BY <1>1, <2>3, <2>4 DEF Distinct
  <2>7. Ordered'
    BY <1>1, <2>2, <2>3 DEF Ordered
  <2>8. NoByteTwice' /\ FinishedIsWhole'
    BY <2>2 DEF NoByteTwice, FinishedIsWhole
  <2>9. QED
    BY <2>5, <2>6, <2>7, <2>8, <1>1 DEF StreamInv
<1>6. QED
  BY <1>4, <1>5

LEMMA SPutStep == ASSUME StreamInv, SPut PROVE StreamInv'
<1>1. /\ s_end = "open" /\ ~s_bad /\ s_count' = s_count + 1
      /\ UNCHANGED <<s_end, s_untold, s_ahead>>
      /\ STypeOK /\ s_count \in Nat /\ Len(s_put) \in Nat /\ Len(s_put) <= StreamBuf
      /\ StreamBuf \in Nat
  BY StreamTypes, StreamAssumption DEF SPut, StreamInv, STypeOK
<1>2. CASE SRoom
  BY <1>1, <1>2, PutInStep DEF SPut
<1>3. CASE ~SRoom
  <2>1. PICK n \in STaken(StreamBuf) :
          /\ SOverflow(n)
          /\ s_put' = IF n < StreamBuf THEN s_put ELSE Append(SRest(n), s_count + 1)
          /\ s_bad' = (n < StreamBuf) /\ s_told' = (s_told \/ n < StreamBuf)
    BY <1>3 DEF SPut
  <2>2. Len(s_put) = StreamBuf /\ n \in 0 .. StreamBuf
    BY <1>1, <1>3 DEF SRoom, STaken
  <2>3. CASE n < StreamBuf
    <3>1. s_received' \in Seq(1 .. s_count) /\ s_put' \in Seq(1 .. s_count)
      BY <1>1, <2>1, <2>2, <2>3, Handed DEF STypeOK
    <3>2. s_received' \in Seq(1 .. s_count + 1) /\ s_put' \in Seq(1 .. s_count + 1)
      BY <1>1, <3>1, SeqMonotonic
    <3>3. s_bad' = TRUE /\ s_told' = TRUE
      BY <2>1, <2>3
    <3>4. STypeOK'
      BY <1>1, <2>1, <2>3, <3>2, <3>3 DEF STypeOK
    <3>5. QED
      BY <1>1, <2>1, <2>3, <3>4, ToldStep
  <2>4. CASE n = StreamBuf
    <3>1. SOverflow(Len(s_put)) /\ s_put' = Append(<<>>, s_count + 1)
      BY <1>1, <2>1, <2>2, <2>4 DEF SRest
    <3>2. s_bad' = FALSE /\ s_told' = s_told
      BY <1>1, <2>1, <2>4 DEF StreamInv, STypeOK
    <3>3. QED
      BY <1>1, <3>1, <3>2, PutInStep DEF StreamInv, STypeOK
  <2>5. QED
    BY <1>1, <2>2, <2>3, <2>4
<1>4. QED
  BY <1>2, <1>3

LEMMA SFlushStep == ASSUME StreamInv, SFlush PROVE StreamInv'
<1>1. PICK n \in STaken(Len(s_put)) :
        /\ SOverflow(n) /\ s_put' = SRest(n)
        /\ s_bad' = (n < Len(s_put)) /\ s_told' = (s_told \/ n < Len(s_put))
  BY DEF SFlush
<1>2. STypeOK /\ Len(s_put) \in Nat /\ n \in 0 .. Len(s_put)
  BY StreamTypes DEF StreamInv, STaken
<1>3. CASE n < Len(s_put)
  <2>1. s_received' \in Seq(1 .. s_count) /\ s_put' = s_put
    BY <1>1, <1>2, <1>3, Handed DEF SRest
  <2>2. STypeOK'
    BY <1>1, <1>2, <1>3, <2>1 DEF STypeOK, SFlush
  <2>3. QED
    BY <1>1, <1>3, <2>2, ToldStep DEF SFlush
<1>4. CASE n = Len(s_put)
  <2>1. (n < Len(s_put)) = FALSE /\ s_put' = <<>>
    BY <1>1, <1>2, <1>4 DEF SRest
  <2>2. s_told \in BOOLEAN /\ s_untold \in BOOLEAN
    BY <1>2 DEF STypeOK
  <2>3. s_bad' = FALSE /\ s_told' = s_told
    BY <1>1, <2>1, <2>2
  <2>4. QED
    BY <1>1, <1>2, <1>4, <2>1, <2>2, <2>3, EmptiedStep DEF SFlush
<1>5. QED
  BY <1>2, <1>3, <1>4

LEMMA SMoveStep == ASSUME StreamInv, SMove PROVE StreamInv'
<1>1. PICK n \in STaken(Len(s_put)) :
        SOverflow(n) /\ s_untold' = (s_untold \/ n < Len(s_put))
  BY DEF SMove
<1>2. STypeOK /\ Len(s_put) \in Nat /\ n \in 0 .. Len(s_put)
  BY StreamTypes DEF StreamInv, STaken
<1>3. /\ s_put' = <<>> /\ s_bad' = FALSE /\ s_end = "open"
      /\ UNCHANGED <<s_end, s_count, s_told, s_ahead>>
      /\ s_told' \in BOOLEAN /\ s_untold' \in BOOLEAN
  BY <1>1, <1>2 DEF SMove, STypeOK
<1>4. (s_untold => s_untold') /\ (n < Len(s_put) => s_told' \/ s_untold')
  BY <1>1
<1>5. QED
  BY <1>1, <1>2, <1>3, <1>4, EmptiedStep

\* write and append, which leave what waits where it is.
LEMMA SPastStep ==
  ASSUME StreamInv, NEW k \in 1 .. StreamMax, NEW n \in 0 .. k, SPast(k, n)
  PROVE  StreamInv'
<1>1. /\ s_count \in Nat /\ Len(s_put) \in Nat /\ Len(s_received) \in Nat
      /\ STypeOK /\ NoByteTwice /\ Ordered /\ Distinct /\ (s_bad => s_told)
      /\ \A i \in 1 .. Len(s_put) : s_put[i] \in 1 .. s_count
      /\ \A i \in 1 .. Len(s_received) : s_received[i] \in 1 .. s_count
      /\ k \in Nat /\ n \in Nat /\ n <= k
  BY StreamTypes, StreamAssumption DEF StreamInv
<1>2. /\ s_count' = s_count + k /\ s_received' = s_received \o Numbers(s_count, s_count + n)
      /\ s_untold' = (s_untold \/ n < k) /\ s_ahead' = (s_ahead \/ s_put # <<>>)
      /\ UNCHANGED <<s_end, s_put, s_bad, s_told>> /\ s_end = "open"
  BY DEF SPast
<1>3. /\ s_received' \in Seq(1 .. s_count + k)
      /\ Len(s_received') = Len(s_received) + n
      /\ \A i \in 1 .. Len(s_received) : s_received'[i] = s_received[i]
      /\ \A i \in 1 .. n : s_received'[Len(s_received) + i] = s_count + i
  BY <1>1, <1>2, Written
<1>4. STypeOK'
  <2>1. s_put' \in Seq(1 .. s_count')
    <3>1. 1 .. s_count \subseteq 1 .. s_count + k
      BY <1>1
    <3>2. QED
      BY <1>1, <1>2, <3>1, SeqMonotonic DEF STypeOK
  <2>2. s_untold' \in BOOLEAN /\ s_ahead' \in BOOLEAN
    BY <1>2
  <2>3. QED
    BY <1>1, <1>2, <1>3, <2>1, <2>2 DEF STypeOK
<1>5. \A i \in 1 .. Len(s_received) + n :
        \/ i \in 1 .. Len(s_received) /\ s_received'[i] \in 1 .. s_count
        \/ i - Len(s_received) \in 1 .. n /\ s_received'[i] = s_count + (i - Len(s_received))
  <2> SUFFICES ASSUME NEW i \in 1 .. Len(s_received) + n, i \notin 1 .. Len(s_received)
               PROVE  /\ i - Len(s_received) \in 1 .. n
                      /\ s_received'[i] = s_count + (i - Len(s_received))
    BY <1>1, <1>3
  <2>1. /\ i - Len(s_received) \in 1 .. n
        /\ i = Len(s_received) + (i - Len(s_received))
    BY <1>1
  <2>2. QED
    BY <1>3, <2>1
<1>6. NoByteTwice'
  <2> SUFFICES ASSUME ~s_told, NEW i \in 1 .. Len(s_received) + n,
                      NEW j \in 1 .. Len(s_received) + n, s_received'[i] = s_received'[j]
               PROVE  i = j
    BY <1>2, <1>3 DEF NoByteTwice
  <2>1. \A m, o \in 1 .. Len(s_received) : s_received[m] = s_received[o] => m = o
    BY <1>1 DEF NoByteTwice
  <2>2. CASE i \in 1 .. Len(s_received) /\ j \in 1 .. Len(s_received)
    BY <1>3, <2>1, <2>2
  <2>3. ASSUME NEW m \in 1 .. Len(s_received),
               NEW o \in 1 .. Len(s_received) + n, o \notin 1 .. Len(s_received)
        PROVE  s_received'[m] # s_received'[o]
    <3>1. s_received'[m] \in 1 .. s_count
      BY <1>1, <1>3
    <3>2. o - Len(s_received) \in 1 .. n /\ s_received'[o] = s_count + (o - Len(s_received))
      BY <1>5, <2>3
    <3>3. QED
      BY <1>1, <3>1, <3>2
  <2>4. CASE i \notin 1 .. Len(s_received) /\ j \notin 1 .. Len(s_received)
    <3>1. /\ s_received'[i] = s_count + (i - Len(s_received))
          /\ s_received'[j] = s_count + (j - Len(s_received))
      BY <1>5, <2>4
    <3>2. i \in Int /\ j \in Int /\ Len(s_received) \in Int /\ s_count \in Int
      BY <1>1
    <3>3. s_count + (i - Len(s_received)) = s_count + (j - Len(s_received))
      BY <3>1, Zenon
    <3>4. QED
      BY <3>2, <3>3
  <2>5. QED
    BY <2>2, <2>3, <2>4
<1>7. Distinct'
  <2> SUFFICES ASSUME ~s_told
               PROVE  \A i \in 1 .. Len(s_received) + n, j \in 1 .. Len(s_put) :
                        s_received'[i] # s_put[j]
    BY <1>1, <1>2, <1>3 DEF Distinct
  <2> TAKE i \in 1 .. Len(s_received) + n, j \in 1 .. Len(s_put)
  <2>1. CASE i \in 1 .. Len(s_received)
    BY <1>1, <1>3, <2>1 DEF Distinct
  <2>2. CASE s_received'[i] = s_count + (i - Len(s_received)) /\ i - Len(s_received) \in 1 .. n
    <3>1. s_put[j] \in 1 .. s_count
      BY <1>1
    <3>2. QED
      BY <1>1, <2>2, <3>1
  <2>3. QED
    BY <1>5, <2>1, <2>2
<1>8. Ordered'
  <2> SUFFICES ASSUME ~s_told', ~s_untold', ~s_ahead'
               PROVE  /\ s_count' = Len(s_received') + Len(s_put')
                      /\ \A i \in 1 .. Len(s_received') : s_received'[i] = i
                      /\ \A i \in 1 .. Len(s_put') : s_put'[i] = Len(s_received') + i
    BY DEF Ordered
  <2>1. ~s_told /\ ~s_untold /\ ~s_ahead /\ s_put = <<>> /\ ~(n < k)
    BY <1>2
  <2>2. Len(s_put) = 0 /\ n = k
    BY <1>1, <2>1, EmptySeq
  <2>3. s_count = Len(s_received) /\ \A i \in 1 .. Len(s_received) : s_received[i] = i
    BY <1>1, <1>2, <2>1, <2>2 DEF Ordered
  <2>4. QED
    BY <1>1, <1>2, <1>3, <1>5, <2>2, <2>3
<1>9. FinishedIsWhole'
  BY <1>2 DEF FinishedIsWhole
<1>10. QED
  BY <1>1, <1>2, <1>4, <1>6, <1>7, <1>8, <1>9 DEF StreamInv

LEMMA SFinishStep == ASSUME StreamInv, SFinish PROVE StreamInv'
<1>1. PICK n \in (IF s_bad THEN {0} ELSE STaken(Len(s_put))) :
        SOverflow(n) /\ s_untold' = (s_untold \/ n < Len(s_put))
  BY DEF SFinish
<1>2. /\ s_end = "open" /\ s_end' \in {"finished", "failed"} /\ s_put' = <<>>
      /\ UNCHANGED <<s_count, s_bad, s_told, s_ahead>>
  BY DEF SFinish
<1>3. /\ STypeOK /\ Ordered /\ (s_bad => s_told)
      /\ Len(s_put) \in Nat /\ Len(s_received) \in Nat /\ s_count \in Nat
      /\ n \in 0 .. Len(s_put)
  BY StreamTypes DEF StreamInv, STaken
<1>4. /\ s_received' \in Seq(1 .. s_count)
      /\ ~s_told => \A i, j \in 1 .. Len(s_received') : s_received'[i] = s_received'[j] => i = j
      /\ s_end = "open" /\ ~s_told /\ ~s_untold /\ ~s_ahead =>
           /\ Len(s_received') = Len(s_received) + n
           /\ \A i \in 1 .. Len(s_received') : s_received'[i] = i
  BY <1>1, <1>3, HandedInOrder
<1>5. s_put' \in Seq(1 .. s_count') /\ Len(s_put') = 0
  BY <1>2, EmptySeq
<1>6. STypeOK'
  <2>1. s_untold' \in BOOLEAN
    BY <1>1
  <2>2. QED
    BY <1>2, <1>3, <1>4, <1>5, <2>1, StreamAssumption DEF STypeOK
<1>7. NoByteTwice' /\ Distinct' /\ Ordered'
  BY <1>2, <1>4, <1>5 DEF NoByteTwice, Distinct, Ordered
<1>8. FinishedIsWhole'
  <2> SUFFICES ASSUME ~s_told', ~s_untold', ~s_ahead' PROVE s_received' = Numbers(0, s_count')
    BY DEF FinishedIsWhole
  <2>1. ~s_told /\ ~s_untold /\ ~s_ahead /\ ~(n < Len(s_put))
    BY <1>1, <1>2
  <2>2. n = Len(s_put) /\ s_count = Len(s_received) + Len(s_put)
    BY <1>2, <1>3, <2>1 DEF Ordered
  <2>3. Len(s_received') = s_count /\ \A i \in 1 .. s_count : s_received'[i] = i
    BY <1>2, <1>4, <2>1, <2>2
  <2>4. /\ Numbers(0, 0 + s_count) \in Seq(1 .. 0 + s_count)
        /\ Len(Numbers(0, 0 + s_count)) = s_count
        /\ \A i \in 1 .. s_count : Numbers(0, 0 + s_count)[i] = 0 + i
    <3>1. 0 \in Nat /\ s_count \in Nat /\ s_count <= s_count
      BY <1>3
    <3>2. QED
      BY <3>1, NumbersSeq, Zenon
  <2>5. 0 + s_count = s_count /\ \A i \in 1 .. s_count : 0 + i = i
    BY <1>3
  <2>6. s_received' = Numbers(0, s_count)
    BY <1>4, <2>3, <2>4, <2>5, SeqEqual
  <2>7. QED
    BY <1>2, <2>6
<1>9. QED
  BY <1>2, <1>3, <1>6, <1>7, <1>8 DEF StreamInv

LEMMA StreamStep == StreamInv /\ [SNext]_svars => StreamInv'
<1> SUFFICES ASSUME StreamInv, [SNext]_svars PROVE StreamInv'
  OBVIOUS
<1>1. CASE SOpen
  <2>1. SInit'
    BY <1>1 DEF SOpen, SInit
  <2>2. SInit' => StreamInv'
    BY StreamInit, PTL
  <2>3. QED
    BY <2>1, <2>2
<1>2. CASE SDrop
  <2>1. s_put' \in Seq(1 .. s_count') /\ Len(s_put') = 0
    BY <1>2, EmptySeq DEF SDrop
  <2>2. QED
    BY <1>2, <2>1, StreamAssumption
       DEF SDrop, StreamInv, STypeOK, FinishedIsWhole, NoByteTwice, Ordered, Distinct
<1>3. ASSUME NEW k \in 1 .. StreamMax, SWrite(k) \/ SAppend(k) PROVE StreamInv'
  <2>1. k \in 0 .. k /\ \A n \in STaken(k) : n \in 0 .. k
    BY StreamAssumption DEF STaken
  <2>2. QED
    BY <1>3, <2>1, SPastStep DEF SWrite, SAppend
<1>4. CASE UNCHANGED svars
  BY <1>4 DEF svars, StreamInv, STypeOK, FinishedIsWhole, NoByteTwice, Ordered, Distinct
<1>5. QED
  BY <1>1, <1>2, <1>3, <1>4, SPutStep, SFlushStep, SMoveStep, SFinishStep DEF SNext

\* The put area never holds more than fits in pbuf, and the reader gets nothing
\* that the program did not put in (overflow, in body.cpp).
THEOREM StreamTyped == SSpec => []STypeOK
<1>1. StreamInv => STypeOK
  BY DEF StreamInv
<1>2. QED
  BY StreamInit, StreamStep, <1>1, PTL DEF SSpec

\* Refused bytes apart, a stream that finish ended reached its reader whole and
\* in order, for any size of pbuf (body.h:71 and body.cpp:138).
THEOREM StreamFinishedIsWhole == SSpec => []FinishedIsWhole
<1>1. StreamInv => FinishedIsWhole
  BY DEF StreamInv
<1>2. QED
  BY StreamInit, StreamStep, <1>1, PTL DEF SSpec

\* Until the stream is bad no byte reaches the reader twice (body.cpp:124).
THEOREM StreamNoByteTwice == SSpec => []NoByteTwice
<1>1. StreamInv => NoByteTwice
  BY DEF StreamInv
<1>2. QED
  BY StreamInit, StreamStep, <1>1, PTL DEF SSpec

-------------------------------------------------------------------------------
(* HttpMessage. *)

MessagesInv == MTypeOK /\ OneBodyOwner

\* What may be put in an object: x is a message that is as its type says, or
\* none.
IsLive(x) == x.kind \in {"request", "response"}
BodyIn(x) == IF IsLive(x) THEN x.body ELSE NoBody
Sound(x) ==
  /\ x \in Messages \cup Places
  /\ IsLive(x) /\ "pass" \in x.set => x.set \cap Overrides = {}

LEMMA MessageFacts ==
  /\ \A x \in Messages : IsLive(x) /\ x.body \in MsgBodies \cup {NoBody}
  /\ \A x \in Places : ~IsLive(x) /\ x.kind \in {"none", "moved"}
BY DEF Messages, Places, Gone, Message, IsLive

LEMMA GoneFacts ==
  ASSUME NEW how \in {"none", "moved"}
  PROVE  Sound(Gone(how)) /\ ~IsLive(Gone(how)) /\ Gone(how).kind = how
BY DEF Places, Gone, Message, IsLive, Sound

\* The type of what is in the objects.
LEMMA HeldFacts ==
  ASSUME MessagesInv
  PROVE  /\ \A m \in Msgs : Sound(m_msg[m]) /\ BodyIn(m_msg[m]) = BodyOf(m)
         /\ \A m \in Msgs : Live(m) <=> IsLive(m_msg[m])
         /\ \A m \in Msgs : Live(m) => m_msg[m] \in Messages
         /\ \A m \in Msgs : BodyOf(m) \in MsgBodies \cup {NoBody}
         /\ m_held \subseteq MsgBodies /\ NoBody \notin m_held
BY MessageFacts, MsgAssumption
   DEF MessagesInv, MTypeOK, Sound, BodyIn, BodyOf, IsLive, Live

LEMMA MessagesInit == MInit => MessagesInv
BY GoneFacts, MsgAssumption
   DEF MInit, MessagesInv, MTypeOK, OneBodyOwner, BodyOf, Live, Sound, IsLive

\* Every operation puts y in an object and then x in the same or another one.
LEMMA StoreStep ==
  ASSUME MessagesInv, NEW m \in Msgs, NEW c \in Msgs, NEW x, NEW y, Sound(x), Sound(y),
         m_msg' = [m_msg EXCEPT ![m] = y, ![c] = x],
         m_held' \subseteq MsgBodies, m_once' \subseteq Once, m_error' \subseteq Msgs,
         \* No body that another message or a Body object has.
         \A z \in {x, y}, o \in Msgs \ {m, c} :
           BodyIn(z) # NoBody => BodyIn(z) \notin m_held' /\ BodyIn(z) # BodyOf(o),
         BodyIn(x) \notin m_held', BodyIn(y) \notin m_held',
         \A o \in Msgs \ {m, c} : BodyOf(o) \notin m_held',
         m # c => BodyIn(x) # BodyIn(y) \/ BodyIn(x) = NoBody
  PROVE  MessagesInv'
<1>1. \A o \in Msgs : m_msg'[o] = IF o = c THEN x ELSE IF o = m THEN y ELSE m_msg[o]
  BY DEF MessagesInv, MTypeOK
<1>2. \A o \in Msgs : Sound(m_msg[o]) /\ BodyIn(m_msg[o]) = BodyOf(o)
  BY HeldFacts
<1>3. \A o \in Msgs : Sound(m_msg'[o]) /\ BodyOf(o)' = BodyIn(m_msg'[o])
  BY <1>1, <1>2 DEF BodyOf, BodyIn, Live, IsLive
<1>4. MTypeOK'
  <2>1. m_msg' \in [Msgs -> Messages \cup Places]
    BY <1>2 DEF Sound, MessagesInv, MTypeOK
  <2>2. \A o \in Msgs : (Live(o) /\ "pass" \in m_msg[o].set => m_msg[o].set \cap Overrides = {})'
    BY <1>3 DEF Sound, Live, IsLive
  <2>3. QED
    BY <2>1, <2>2 DEF MTypeOK
<1>5. \A o \in Msgs : BodyOf(o)' = IF o = c THEN BodyIn(x) ELSE IF o = m THEN BodyIn(y) ELSE BodyOf(o)
  BY <1>1, <1>2, <1>3
<1>6. OneBodyOwner'
  <2>1. \A o, p \in Msgs : o # p /\ BodyOf(o) # NoBody => BodyOf(o) # BodyOf(p)
    BY DEF MessagesInv, OneBodyOwner
  <2>2. \A o \in Msgs : BodyOf(o)' \notin m_held'
    BY <1>5
  <2>3. \A o, p \in Msgs : o # p /\ BodyOf(o)' # NoBody => BodyOf(o)' # BodyOf(p)'
    BY <1>5, <2>1
  <2>4. QED
    BY <2>2, <2>3 DEF OneBodyOwner
<1>7. QED
  BY <1>4, <1>6 DEF MessagesInv

\* One object gets x.
LEMMA PutStep ==
  ASSUME MessagesInv, NEW m \in Msgs, NEW x, Sound(x), m_msg' = [m_msg EXCEPT ![m] = x],
         m_held' \subseteq MsgBodies, m_once' \subseteq Once, m_error' \subseteq Msgs,
         \A o \in Msgs \ {m} : BodyIn(x) # NoBody => BodyIn(x) # BodyOf(o),
         BodyIn(x) \notin m_held', \A o \in Msgs \ {m} : BodyOf(o) \notin m_held'
  PROVE  MessagesInv'
<1>1. m_msg \in [Msgs -> Messages \cup Places]
  BY DEF MessagesInv, MTypeOK
<1>2. /\ Sound(m_msg[m]) /\ BodyIn(m_msg[m]) = BodyOf(m)
      /\ \A z \in {x} : Sound(z)
  BY HeldFacts
<1>3. \A o \in Msgs : m_msg'[o] = IF o = m THEN x ELSE m_msg[o]
  BY <1>1
<1>4. \A o \in Msgs : BodyOf(o)' = IF o = m THEN BodyIn(x) ELSE BodyOf(o)
  BY <1>3, HeldFacts DEF BodyOf, BodyIn, Live, IsLive
<1>5. MTypeOK'
  <2>1. m_msg' \in [Msgs -> Messages \cup Places]
    BY <1>1 DEF Sound
  <2>2. \A o \in Msgs : Sound(m_msg'[o])
    BY <1>3, HeldFacts
  <2>3. \A o \in Msgs : (Live(o) /\ "pass" \in m_msg[o].set => m_msg[o].set \cap Overrides = {})'
    BY <2>2 DEF Sound, Live, IsLive
  <2>4. QED
    BY <1>1, <2>1, <2>3 DEF MTypeOK
<1>6. OneBodyOwner'
  <2>1. \A o, p \in Msgs : o # p /\ BodyOf(o) # NoBody => BodyOf(o) # BodyOf(p)
    BY DEF MessagesInv, OneBodyOwner
  <2>2. QED
    BY <1>4, <2>1 DEF OneBodyOwner
<1>7. QED
  BY <1>5, <1>6 DEF MessagesInv

\* A method that puts msg in the place of the message.
LEMMA ResultStep ==
  ASSUME MessagesInv, NEW m \in Msgs, NEW c \in Msgs, NEW msg, Sound(msg), Live(m),
         msg.kind = m_msg[m].kind, NEW error \in BOOLEAN, MResult(m, c, msg, error), m_held' \subseteq MsgBodies,
         \A o \in Msgs \ {m} : msg.body # NoBody => msg.body # BodyOf(o),
         msg.body \notin m_held', \A o \in Msgs \ {m} : BodyOf(o) \notin m_held'
  PROVE  MessagesInv'
<1>1. /\ c # m => Open(c)
      /\ m_msg' = IF error THEN [m_msg EXCEPT ![m] = msg]
                  ELSE [m_msg EXCEPT ![m] = Gone("moved"), ![c] = msg]
      /\ m_error' \subseteq Msgs /\ m_once' = m_once /\ m_once \subseteq Once
  BY DEF MResult, MessagesInv, MTypeOK
<1>2. IsLive(msg) /\ BodyIn(msg) = msg.body
  BY DEF Live, IsLive, BodyIn
<1>3. CASE error
  BY <1>1, <1>2, <1>3, PutStep
<1>4. CASE ~error
  <2> DEFINE gone == Gone("moved")
  <2>1. Sound(gone) /\ ~IsLive(gone) /\ BodyIn(gone) = NoBody
    BY GoneFacts DEF BodyIn
  <2> HIDE DEF gone
  <2>2. m_msg' = [m_msg EXCEPT ![m] = gone, ![c] = msg]
    BY <1>1, <1>4 DEF gone
  <2>3. NoBody \notin m_held'
    BY MsgAssumption
  <2>4. \A z \in {msg, gone}, o \in Msgs \ {m, c} :
          BodyIn(z) # NoBody => BodyIn(z) \notin m_held' /\ BodyIn(z) # BodyOf(o)
    BY <1>2, <2>1
  <2>5. /\ BodyIn(msg) \notin m_held' /\ BodyIn(gone) \notin m_held'
        /\ \A o \in Msgs \ {m, c} : BodyOf(o) \notin m_held'
        /\ m # c => BodyIn(msg) # BodyIn(gone) \/ BodyIn(msg) = NoBody
        /\ m_once' \subseteq Once
    BY <1>1, <1>2, <2>1, <2>3
  <2>6. QED
    BY <1>1, <2>1, <2>2, <2>4, <2>5, StoreStep
<1>5. QED
  BY <1>3, <1>4

\* A message with other fields.
LEMMA WithFacts ==
  ASSUME MessagesInv, NEW m \in Msgs, Live(m), NEW set,
         Has(m, "request") => set \subseteq ReqFields,
         Has(m, "response") => set \subseteq RespFields,
         "pass" \in set => set \cap Overrides = {}
  PROVE  /\ Sound(With(m, set)) /\ With(m, set).kind = m_msg[m].kind
         /\ With(m, set).body = m_msg[m].body
<1>1. m_msg[m] \in Messages
  BY HeldFacts
<1>2. /\ With(m, set).kind = m_msg[m].kind
      /\ With(m, set).body = m_msg[m].body /\ With(m, set).set = set
  BY <1>1 DEF With, Messages
<1>3. With(m, set) \in Messages
  BY <1>1, <1>2 DEF With, Messages, Has
<1>4. QED
  BY <1>2, <1>3 DEF Sound

\* The body of a message that stays where it is, alone.
LEMMA OwnBody ==
  ASSUME MessagesInv, NEW m \in Msgs, Live(m), m_held' = m_held
  PROVE  /\ m_held' \subseteq MsgBodies
         /\ \A o \in Msgs \ {m} : m_msg[m].body # NoBody => m_msg[m].body # BodyOf(o)
         /\ m_msg[m].body \notin m_held'
         /\ \A o \in Msgs : BodyOf(o) \notin m_held'
BY HeldFacts DEF MessagesInv, OneBodyOwner, BodyOf

\* Every method that sets or removes a field.
LEMMA FieldStep ==
  ASSUME MessagesInv, NEW m \in Msgs, NEW c \in Msgs, Live(m), NEW set,
         Has(m, "request") => set \subseteq ReqFields,
         Has(m, "response") => set \subseteq RespFields,
         "pass" \in set => set \cap Overrides = {},
         Plain(m, c, set) \/ Try(m, c, set)
  PROVE  MessagesInv'
<1>1. m_held' = m_held
  BY DEF Plain, Try
<1>2. PICK refused \in BOOLEAN :
        MResult(m, c, IF refused THEN m_msg[m] ELSE With(m, set), refused)
  BY DEF Plain, Try
<1>3. Sound(m_msg[m])
  BY HeldFacts
<1> DEFINE msg == IF refused THEN m_msg[m] ELSE With(m, set)
<1>4. Sound(msg) /\ msg.kind = m_msg[m].kind /\ msg.body = m_msg[m].body
  BY <1>3, WithFacts
<1>5. MResult(m, c, msg, refused)
  BY <1>2
<1> HIDE DEF msg
<1>6. QED
  BY <1>1, <1>4, <1>5, OwnBody, ResultStep

\* The request fields that a request may have, and the others.
LEMMA FieldFacts ==
  ASSUME MessagesInv, NEW m \in Msgs, Live(m)
  PROVE  /\ Has(m, "request") => m_msg[m].set \subseteq ReqFields
         /\ Has(m, "response") => m_msg[m].set \subseteq RespFields
         /\ "pass" \in m_msg[m].set => m_msg[m].set \cap Overrides = {}
         /\ ~(Has(m, "request") /\ Has(m, "response"))
<1>1. Sound(m_msg[m]) /\ IsLive(m_msg[m]) /\ m_msg[m] \in Messages
  BY HeldFacts
<1>2. "request" # "response"
  OBVIOUS
<1>3. QED
  BY <1>1, <1>2 DEF Sound, Messages, Has

LEMMA RequestFieldsStep ==
  ASSUME MessagesInv, NEW m \in Msgs, NEW c \in Msgs,
         \/ set_method(m, c) \/ set_url(m, c) \/ set_path(m, c) \/ set_query_string(m, c)
         \/ remove_query(m) \/ set_surrogate_key(m, c) \/ set_pass(m, c)
         \/ \E field \in Overrides : Override(m, c, field)
         \/ \E seconds \in 0 .. 1 : with_ttl(m, c, seconds)
         \/ set_auto_decompress_gzip(m, c) \/ set_cache_key(m, c)
  PROVE  MessagesInv'
<1>1. Has(m, "request") /\ Live(m)
  BY DEF set_method, set_url, set_path, set_query_string, remove_query, set_surrogate_key,
         set_pass, Override, with_ttl, set_auto_decompress_gzip, set_cache_key, Has, Live
<1>2. /\ m_msg[m].set \subseteq ReqFields /\ ~Has(m, "response")
      /\ "pass" \in m_msg[m].set => m_msg[m].set \cap Overrides = {}
  BY <1>1, FieldFacts
<1>3. ASSUME NEW set, NEW d \in Msgs, Plain(m, d, set) \/ Try(m, d, set), set \subseteq ReqFields,
             "pass" \in set => set \cap Overrides = {}
      PROVE  MessagesInv'
  BY <1>1, <1>2, <1>3, FieldStep
<1>4. ASSUME NEW field \in {"other", "path", "query"},
             Plain(m, c, m_msg[m].set \cup {field}) \/ Try(m, c, m_msg[m].set \cup {field})
      PROVE  MessagesInv'
  <2>1. /\ m_msg[m].set \cup {field} \subseteq ReqFields
        /\ "pass" \in m_msg[m].set \cup {field} => (m_msg[m].set \cup {field}) \cap Overrides = {}
    BY <1>2 DEF ReqFields, UrlParts, Overrides
  <2>2. QED
    BY <1>3, <1>4, <2>1
<1>5. ASSUME NEW field \in Overrides,
             \/ Plain(m, c, Unset(m, {"pass"}) \cup {field})
             \/ Try(m, c, Unset(m, {"pass"}) \cup {field})
      PROVE  MessagesInv'
  <2>1. /\ Unset(m, {"pass"}) \cup {field} \subseteq ReqFields
        /\ "pass" \notin Unset(m, {"pass"}) \cup {field}
    BY <1>2 DEF ReqFields, Overrides, Unset
  <2>2. QED
    BY <1>3, <1>5, <2>1
<1>6. ASSUME NEW pass \in BOOLEAN, Plain(m, c, Pass(m, pass)) PROVE MessagesInv'
  <2>1. /\ Pass(m, pass) \subseteq ReqFields
        /\ "pass" \in Pass(m, pass) => Pass(m, pass) \cap Overrides = {}
    BY <1>2 DEF ReqFields, Overrides, Unset, Pass
  <2>2. QED
    BY <1>3, <1>6, <2>1
<1>7. CASE set_url(m, c) \/ remove_query(m)
  <2>1. /\ Unset(m, UrlParts) \cup {"url"} \subseteq ReqFields
        /\ "pass" \in Unset(m, UrlParts) \cup {"url"} =>
             (Unset(m, UrlParts) \cup {"url"}) \cap Overrides = {}
    BY <1>2 DEF ReqFields, Overrides, Unset, UrlParts
  <2>2. /\ Unset(m, {"query"}) \subseteq ReqFields
        /\ "pass" \in Unset(m, {"query"}) => Unset(m, {"query"}) \cap Overrides = {}
    BY <1>2 DEF Unset
  <2>3. QED
    BY <1>3, <1>7, <2>1, <2>2 DEF set_url, remove_query
<1>8. CASE \/ set_method(m, c) \/ set_path(m, c) \/ set_query_string(m, c)
           \/ set_auto_decompress_gzip(m, c) \/ set_cache_key(m, c)
  BY <1>4, <1>8 DEF set_method, set_path, set_query_string, set_auto_decompress_gzip,
                    set_cache_key
<1>9. CASE set_surrogate_key(m, c) \/ \E field \in Overrides : Override(m, c, field)
  <2>1. "surrogate_key" \in Overrides
    BY DEF Overrides
  <2>2. QED
    BY <1>5, <1>9, <2>1 DEF set_surrogate_key, Override
<1>10. CASE set_pass(m, c) \/ \E seconds \in 0 .. 1 : with_ttl(m, c, seconds)
  <2>1. PICK pass \in BOOLEAN : Plain(m, c, Pass(m, pass))
    <3>1. CASE set_pass(m, c)
      BY <3>1, Zenon DEF set_pass
    <3>2. CASE \E seconds \in 0 .. 1 : with_ttl(m, c, seconds)
      <4>1. PICK seconds \in 0 .. 1 : Plain(m, c, Pass(m, seconds # 0))
        BY <3>2 DEF with_ttl
      <4>2. (seconds # 0) \in BOOLEAN
        OBVIOUS
      <4>3. QED
        BY <4>1, <4>2, Zenon
    <3>3. QED
      BY <1>10, <3>1, <3>2
  <2>2. QED
    BY <1>6, <2>1
<1>11. QED
  BY <1>7, <1>8, <1>9, <1>10

LEMMA SharedFieldsStep ==
  ASSUME MessagesInv, NEW m \in Msgs, NEW c \in Msgs,
         \/ set_header(m, c) \/ remove_header(m) \/ set_version(m, c) \/ set_status(m, c)
         \/ set_content_type(m, c) /\ ~Panic
  PROVE  MessagesInv'
<1>1. Live(m)
  BY DEF set_header, remove_header, set_version, set_status, set_content_type, Has, Live
<1>2. ASSUME NEW set, Plain(m, c, set) \/ Try(m, c, set) \/ Plain(m, m, set) \/ Try(m, m, set),
             \/ set = m_msg[m].set \cup {"header"} \/ set = m_msg[m].set \cup {"other"}
             \/ set = Unset(m, {"header"})
      PROVE  MessagesInv'
  <2>1. /\ Has(m, "request") => set \subseteq ReqFields
        /\ Has(m, "response") => set \subseteq RespFields
        /\ "pass" \in set => set \cap Overrides = {}
    BY <1>1, <1>2, FieldFacts DEF Unset, ReqFields, RespFields, Overrides
  <2>2. QED
    BY <1>1, <1>2, <2>1, FieldStep
<1>3. QED
  BY <1>2 DEF set_header, remove_header, set_version, set_status, set_content_type

\* Bodies that nobody has, and those that are in Body objects.
LEMMA BodyFacts ==
  ASSUME MessagesInv
  PROVE  /\ \A b \in Fresh : b \in MsgBodies /\ b \notin m_held /\ b # NoBody
         /\ \A b \in Fresh, o \in Msgs : b # BodyOf(o)
         /\ \A b \in m_held : b \in MsgBodies /\ b # NoBody
         /\ \A o \in Msgs : BodyOf(o) \notin m_held
         /\ \A m, o \in Msgs : m # o /\ BodyOf(m) # NoBody => BodyOf(m) # BodyOf(o)
BY HeldFacts, MsgAssumption DEF Fresh, MessagesInv, OneBodyOwner

\* A message with another body.
LEMMA BodyChanged ==
  ASSUME MessagesInv, NEW m \in Msgs, Live(m), NEW b \in MsgBodies \cup {NoBody}
  PROVE  LET msg == [m_msg[m] EXCEPT !.body = b]
         IN  Sound(msg) /\ msg.kind = m_msg[m].kind /\ msg.body = b
<1>1. m_msg[m] \in Messages /\ Sound(m_msg[m])
  BY HeldFacts
<1>2. [m_msg[m] EXCEPT !.body = b] \in Messages
  BY <1>1 DEF Messages
<1>3. QED
  BY <1>1, <1>2 DEF Messages, Sound, IsLive

LEMMA set_bodyStep ==
  ASSUME MessagesInv, NEW m \in Msgs, NEW c \in Msgs, set_body(m, c)
  PROVE  MessagesInv'
<1>1. PICK b \in m_held : /\ MResult(m, c, [m_msg[m] EXCEPT !.body = b], FALSE)
                          /\ m_held' = m_held \ {b}
  BY DEF set_body
<1> DEFINE msg == [m_msg[m] EXCEPT !.body = b]
<1>2. Sound(msg) /\ msg.kind = m_msg[m].kind /\ msg.body = b
  BY BodyFacts, BodyChanged DEF set_body
<1>3. MResult(m, c, msg, FALSE) /\ Live(m)
  BY <1>1 DEF set_body
<1> HIDE DEF msg
<1>4. /\ b \notin m_held' /\ m_held' \subseteq MsgBodies
      /\ \A o \in Msgs : b # BodyOf(o) /\ BodyOf(o) \notin m_held'
  BY <1>1, BodyFacts, HeldFacts
<1>5. QED
  BY <1>2, <1>3, <1>4, ResultStep

LEMMA append_bodyStep ==
  ASSUME MessagesInv, NEW m \in Msgs, append_body(m)
  PROVE  MessagesInv'
<1>1. PICK b \in m_held :
        /\ MResult(m, m, [m_msg[m] EXCEPT !.body = IF @ = NoBody THEN b ELSE @], FALSE)
        /\ m_held' = m_held \ {b}
  BY DEF append_body
<1>2. Live(m)
  BY DEF append_body, Has, Live
<1>3. BodyOf(m) = m_msg[m].body /\ BodyOf(m) \in MsgBodies \cup {NoBody}
  BY <1>2, HeldFacts DEF BodyOf
<1> DEFINE new == IF m_msg[m].body = NoBody THEN b ELSE m_msg[m].body
           msg == [m_msg[m] EXCEPT !.body = new]
<1>4. new \in MsgBodies \cup {NoBody}
  BY <1>3, BodyFacts
<1>5. Sound(msg) /\ msg.kind = m_msg[m].kind /\ msg.body = new
  BY <1>2, <1>4, BodyChanged
<1>6. MResult(m, m, msg, FALSE)
  BY <1>1
<1> HIDE DEF msg
<1>7. \A o \in Msgs \ {m} : new # BodyOf(o)
  BY <1>3, BodyFacts
<1>8. new \notin m_held' /\ \A o \in Msgs \ {m} : BodyOf(o) \notin m_held'
  BY <1>1, <1>3, BodyFacts
<1>9. m_held' \subseteq MsgBodies
  BY <1>1, HeldFacts
<1> HIDE DEF new
<1>10. QED
  BY <1>2, <1>5, <1>6, <1>7, <1>8, <1>9, ResultStep

LEMMA take_bodyStep ==
  ASSUME MessagesInv, NEW m \in Msgs, take_body(m) \/ into_body(m)
  PROVE  MessagesInv'
<1>1. PICK b \in Given(m) : m_held' = m_held \cup {b}
  BY DEF take_body, into_body
<1>2. Live(m) /\ BodyOf(m) = m_msg[m].body
  BY DEF take_body, into_body, BodyOf
<1>3. /\ b \in MsgBodies /\ b # NoBody /\ \A o \in Msgs \ {m} : b # BodyOf(o)
      /\ m_held \subseteq MsgBodies
  BY <1>1, <1>2, BodyFacts, HeldFacts DEF Given
<1>4. /\ m_held' \subseteq MsgBodies /\ NoBody \notin m_held'
      /\ \A o \in Msgs \ {m} : BodyOf(o) \notin m_held'
  BY <1>1, <1>3, BodyFacts, MsgAssumption
<1>5. CASE take_body(m)
  <2> DEFINE msg == [m_msg[m] EXCEPT !.body = NoBody]
  <2>1. Sound(msg) /\ msg.kind = m_msg[m].kind /\ msg.body = NoBody
    BY <1>2, BodyChanged
  <2>2. MResult(m, m, msg, FALSE)
    BY <1>5 DEF take_body
  <2> HIDE DEF msg
  <2>3. QED
    BY <1>2, <1>4, <2>1, <2>2, ResultStep
<1>6. CASE into_body(m)
  <2> DEFINE gone == Gone("moved")
  <2>1. Sound(gone) /\ ~IsLive(gone) /\ BodyIn(gone) = NoBody
    BY GoneFacts DEF BodyIn
  <2>2. /\ m_msg' = [m_msg EXCEPT ![m] = gone] /\ m_error' = {}
        /\ m_once' \subseteq Once
    BY <1>6 DEF into_body, MessagesInv, MTypeOK
  <2> HIDE DEF gone
  <2>3. QED
    BY <1>4, <2>1, <2>2, PutStep
<1>7. QED
  BY <1>5, <1>6

\* The text methods and set_body_octet_stream, whatever they answer.
LEMMA TextFacts ==
  ASSUME MessagesInv, NEW m \in Msgs, Live(m), NEW b \in MsgBodies
  PROVE  /\ Sound(Text(m, b)) /\ Text(m, b).kind = m_msg[m].kind
         /\ Text(m, b).body = b
<1>1. m_msg[m] \in Messages
  BY HeldFacts
<1>2. /\ Has(m, "request") => m_msg[m].set \subseteq ReqFields
      /\ Has(m, "response") => m_msg[m].set \subseteq RespFields
      /\ "pass" \in m_msg[m].set => m_msg[m].set \cap Overrides = {}
  BY FieldFacts
<1>3. /\ Text(m, b).kind = m_msg[m].kind
      /\ Text(m, b).body = b /\ Text(m, b).set = m_msg[m].set \cup {"header"}
  BY <1>1 DEF Text, Messages
<1>4. Text(m, b) \in Messages
  BY <1>1, <1>2, <1>3 DEF Text, Messages, Has, ReqFields, RespFields
<1>5. QED
  BY <1>2, <1>3, <1>4 DEF Sound, Overrides

LEMMA TextResultStep ==
  ASSUME MessagesInv, NEW m \in Msgs, NEW c \in Msgs, Live(m), NEW b \in Fresh,
         NEW refused \in BOOLEAN, NEW error \in BOOLEAN, m_held' = m_held,
         MResult(m, c, IF refused THEN m_msg[m] ELSE Text(m, b), error)
  PROVE  MessagesInv'
<1>1. CASE refused
  <2>1. MResult(m, c, m_msg[m], error)
    BY <1>1
  <2>2. Sound(m_msg[m])
    BY HeldFacts
  <2>3. QED
    BY <2>1, <2>2, OwnBody, ResultStep
<1>2. CASE ~refused
  <2> DEFINE msg == Text(m, b)
  <2>1. Sound(msg) /\ msg.kind = m_msg[m].kind /\ msg.body = b
    BY BodyFacts, TextFacts
  <2>2. MResult(m, c, msg, error)
    BY <1>2
  <2> HIDE DEF msg
  <2>3. /\ m_held' \subseteq MsgBodies /\ b \notin m_held'
        /\ \A o \in Msgs : b # BodyOf(o) /\ BodyOf(o) \notin m_held'
    BY BodyFacts, HeldFacts
  <2>4. QED
    BY <2>1, <2>2, <2>3, ResultStep
<1>3. QED
  BY <1>1, <1>2

LEMMA TextStep ==
  ASSUME MessagesInv, NEW m \in Msgs, NEW c \in Msgs,
         \/ set_body_text_plain(m, c) \/ set_body_text_html(m, c)
         \/ set_body_octet_stream(m, c)
  PROVE  MessagesInv'
<1>1. CASE set_body_text_plain(m, c)
  <2>1. /\ Live(m) /\ m_held' = m_held
        /\ \E refused \in BOOLEAN, b \in Fresh :
             MResult(m, c, IF refused THEN m_msg[m] ELSE Text(m, b), refused)
    BY <1>1 DEF set_body_text_plain, TextWith
  <2>2. QED
    BY <2>1, TextResultStep
<1>2. CASE set_body_text_html(m, c)
  <2>1. /\ Live(m) /\ m_held' = m_held
        /\ \E refused \in BOOLEAN, b \in Fresh :
             MResult(m, c, IF refused THEN m_msg[m] ELSE Text(m, b), Tells(m, refused))
    BY <1>2 DEF set_body_text_html, TextWith
  <2>2. \A refused \in BOOLEAN : Tells(m, refused) \in BOOLEAN
    BY DEF Tells
  <2>3. QED
    BY <2>1, <2>2, TextResultStep
<1>3. CASE set_body_octet_stream(m, c)
  <2>1. PICK b \in Fresh : MResult(m, c, Text(m, b), FALSE)
    BY <1>3 DEF set_body_octet_stream
  <2>2. MResult(m, c, IF FALSE THEN m_msg[m] ELSE Text(m, b), FALSE)
    BY <2>1
  <2>3. QED
    BY <1>3, <2>2, TextResultStep DEF set_body_octet_stream
<1>4. QED
  BY <1>1, <1>2, <1>3

\* A new message, whose body nobody else has.
LEMMA MakeStep ==
  ASSUME MessagesInv, NEW m \in Msgs, NEW msg \in Messages, MMake(m, msg),
         "pass" \in msg.set => msg.set \cap Overrides = {},
         m_held' \subseteq m_held, m_once' \subseteq Once,
         \A o \in Msgs : msg.body # NoBody => msg.body # BodyOf(o),
         msg.body \notin m_held'
  PROVE  MessagesInv'
<1>1. m_msg' = [m_msg EXCEPT ![m] = msg] /\ m_error' = {}
  BY DEF MMake
<1>2. Sound(msg) /\ IsLive(msg) /\ BodyIn(msg) = msg.body
  BY MessageFacts DEF Sound, BodyIn, IsLive
<1>3. m_held' \subseteq MsgBodies /\ \A o \in Msgs \ {m} : BodyOf(o) \notin m_held'
  BY BodyFacts
<1>4. QED
  BY <1>1, <1>2, <1>3, PutStep

\* A message that the program makes or a backend answers.
LEMMA NewFacts ==
  ASSUME NEW b \in MsgBodies \cup {NoBody}
  PROVE  /\ Message("request", "program", {}, b) \in Messages
         /\ \A from \in {"program", "backend"}, set \in SUBSET RespFields :
              Message("response", from, set, b) \in Messages
         /\ \A kind, from, set : /\ Message(kind, from, set, b).from = from
                                 /\ Message(kind, from, set, b).set = set
                                 /\ Message(kind, from, set, b).body = b
BY DEF Message, Messages

LEMMA NewStep ==
  ASSUME MessagesInv, NEW m \in Msgs,
         NewRequest(m) \/ NewResponse(m) \/ from_body(m) \/ Receive(m)
  PROVE  MessagesInv'
<1> USE DEF MessagesInv, MTypeOK
<1>1. {} \in SUBSET RespFields /\ {"other"} \in SUBSET RespFields
      /\ {"other", "header"} \in SUBSET RespFields
  BY DEF RespFields
<1>2. CASE NewRequest(m)
  <2>1. MMake(m, Message("request", "program", {}, NoBody)) /\ UNCHANGED <<m_held, m_once>>
    BY <1>2 DEF NewRequest
  <2>2. QED
    BY <2>1, NewFacts, MakeStep, HeldFacts
<1>3. CASE NewResponse(m)
  <2>1. PICK set \in SUBSET RespFields : MMake(m, Message("response", "program", set, NoBody))
    BY <1>1, <1>3 DEF NewResponse
  <2>2. UNCHANGED <<m_held, m_once>> /\ "pass" \notin RespFields
    BY <1>3 DEF NewResponse, RespFields
  <2>3. QED
    BY <2>1, <2>2, NewFacts, MakeStep, HeldFacts
<1>4. CASE from_body(m)
  <2>1. PICK b \in m_held : /\ MMake(m, Message("response", "program", {}, b))
                            /\ m_held' = m_held \ {b} /\ UNCHANGED m_once
    BY <1>4 DEF from_body
  <2>2. QED
    BY <1>1, <2>1, NewFacts, MakeStep, BodyFacts
<1>5. CASE Receive(m)
  <2>1. PICK b \in Fresh : /\ MMake(m, Message("response", "backend", {}, b))
                           /\ UNCHANGED <<m_held, m_once>>
    BY <1>5 DEF Receive
  <2>2. QED
    BY <1>1, <2>1, NewFacts, MakeStep, BodyFacts
<1>6. QED
  BY <1>2, <1>3, <1>4, <1>5

LEMMA CloneStep ==
  ASSUME MessagesInv, NEW m \in Msgs, NEW c \in Msgs, Clone(m, c)
  PROVE  MessagesInv'
<1>1. PICK b \in Fresh \cup {NoBody} : MMake(c, Message(m_msg[m].kind, "program", m_msg[m].set, b))
  BY DEF Clone
<1>2. /\ m_held' = m_held /\ m_once' \subseteq Once
      /\ Live(m) /\ m_msg[m] \in Messages
  BY HeldFacts DEF Clone, MessagesInv, MTypeOK
<1> DEFINE msg == Message(m_msg[m].kind, "program", m_msg[m].set, b)
<1>3. b \in MsgBodies \cup {NoBody}
  BY BodyFacts
<1>4. msg.from = "program" /\ msg.set = m_msg[m].set /\ msg.body = b /\ msg.kind = m_msg[m].kind
  BY DEF Message
<1>5. msg \in Messages
  BY <1>2, <1>3 DEF Message, Messages
<1>6. MMake(c, msg)
  BY <1>1
<1>7. "pass" \in msg.set => msg.set \cap Overrides = {}
  BY <1>2, <1>4, FieldFacts
<1>8. (\A o \in Msgs : b # NoBody => b # BodyOf(o)) /\ b \notin m_held'
  BY <1>2, BodyFacts, HeldFacts
<1> HIDE DEF msg
<1>9. QED
  BY <1>2, <1>4, <1>5, <1>6, <1>7, <1>8, MakeStep

\* After a panic everything is as it begins.
LEMMA PanicStep == Panic => MessagesInv'
<1> SUFFICES ASSUME Panic PROVE MessagesInv'
  OBVIOUS
<1>1. \A m \in Msgs : m_msg'[m] = Gone("none")
  BY DEF Panic
<1>2. MTypeOK'
  BY <1>1, GoneFacts DEF Panic, MTypeOK, Live, IsLive, Sound
<1>3. OneBodyOwner'
  BY <1>1, GoneFacts DEF Panic, OneBodyOwner, BodyOf, Live, IsLive
<1>4. QED
  BY <1>2, <1>3 DEF MessagesInv

LEMMA from_clientStep ==
  ASSUME MessagesInv, NEW m \in Msgs, from_client(m)
  PROVE  MessagesInv'
<1>1. CASE Panic
  BY <1>1, PanicStep
<1>2. CASE ~Panic
  <2>1. PICK b \in Fresh : MMake(m, Message("request", "program", {}, b))
    BY <1>2 DEF from_client
  <2>2. m_held' = m_held /\ m_once' \subseteq Once
    BY <1>2 DEF from_client, MessagesInv, MTypeOK, Once
  <2>3. QED
    BY <2>1, <2>2, NewFacts, MakeStep, BodyFacts
<1>3. QED
  BY <1>1, <1>2

LEMMA take_backend_requestStep ==
  ASSUME MessagesInv, NEW m \in Msgs, NEW c \in Msgs, take_backend_request(m, c)
  PROVE  MessagesInv'
<1> DEFINE x == Message("request", "program", {}, NoBody)
           y == [m_msg[m] EXCEPT !.from = "asked"]
<1>1. /\ Has(m, "response") /\ m # c /\ Live(m)
      /\ m_msg' = [m_msg EXCEPT ![m] = y, ![c] = x]
      /\ m_error' = {} /\ UNCHANGED <<m_held, m_once>>
  BY DEF take_backend_request, Has, Live, MessagesInv, MTypeOK
<1>2. m_msg[m] \in Messages /\ Sound(m_msg[m]) /\ BodyOf(m) = m_msg[m].body
  BY <1>1, HeldFacts DEF BodyOf
<1>3. /\ y \in Messages /\ y.kind = "response" /\ y.from = "asked" /\ y.body = BodyOf(m)
      /\ y.set = m_msg[m].set
  BY <1>1, <1>2 DEF Messages, Has
<1>4. Sound(y) /\ IsLive(y) /\ BodyIn(y) = BodyOf(m)
  BY <1>2, <1>3 DEF Sound, IsLive, BodyIn
<1>5. Sound(x) /\ BodyIn(x) = NoBody
  BY DEF Message, Messages, Sound, IsLive, BodyIn
<1> HIDE DEF x, y
<1>6. \A z \in {x, y}, o \in Msgs \ {m, c} :
        BodyIn(z) # NoBody => BodyIn(z) \notin m_held' /\ BodyIn(z) # BodyOf(o)
  BY <1>1, <1>3, <1>4, <1>5, BodyFacts
<1>7. /\ BodyIn(x) \notin m_held' /\ BodyIn(y) \notin m_held'
      /\ \A o \in Msgs \ {m, c} : BodyOf(o) \notin m_held'
      /\ BodyIn(x) # BodyIn(y) \/ BodyIn(x) = NoBody
      /\ m_held' \subseteq MsgBodies /\ m_once' \subseteq Once
  BY <1>1, <1>3, <1>4, <1>5, BodyFacts, HeldFacts DEF MessagesInv, MTypeOK
<1>8. QED
  BY <1>1, <1>4, <1>5, <1>6, <1>7, StoreStep

LEMMA GoStep ==
  ASSUME MessagesInv, NEW m \in Msgs, DestroyMessage(m) \/ send_to_client(m)
  PROVE  MessagesInv'
<1>1. CASE Panic
  BY <1>1, PanicStep
<1>2. CASE ~Panic
  <2>1. PICK how \in {"none", "moved"} : m_msg' = [m_msg EXCEPT ![m] = Gone(how)]
    BY <1>2 DEF DestroyMessage, send_to_client
  <2>2. m_error' = {} /\ m_held' = m_held /\ m_once' \subseteq Once
    BY <1>2 DEF DestroyMessage, send_to_client, MessagesInv, MTypeOK, Once
  <2> DEFINE gone == Gone(how)
  <2>3. Sound(gone) /\ ~IsLive(gone) /\ BodyIn(gone) = NoBody
    BY GoneFacts DEF BodyIn
  <2>4. m_msg' = [m_msg EXCEPT ![m] = gone]
    BY <2>1
  <2> HIDE DEF gone
  <2>5. /\ m_held' \subseteq MsgBodies /\ NoBody \notin m_held'
        /\ \A o \in Msgs : BodyOf(o) \notin m_held'
    BY <2>2, HeldFacts, BodyFacts
  <2>6. QED
    BY <2>2, <2>3, <2>4, <2>5, PutStep
<1>3. QED
  BY <1>1, <1>2

LEMMA DropBodyStep ==
  ASSUME MessagesInv, NEW b \in MsgBodies, DropBody(b)
  PROVE  MessagesInv'
<1>1. m_msg' = m_msg /\ m_once' = m_once /\ m_held' = m_held \ {b} /\ m_error' = {}
  BY DEF DropBody
<1>2. QED
  BY <1>1 DEF MessagesInv, MTypeOK, OneBodyOwner, BodyOf, Live

LEMMA MessagesStep == MessagesInv /\ [MNext]_mvars => MessagesInv'
<1> SUFFICES ASSUME MessagesInv, [MNext]_mvars PROVE MessagesInv'
  OBVIOUS
<1>1. ASSUME NEW m \in Msgs,
             \/ NewRequest(m) \/ NewResponse(m) \/ from_body(m) \/ from_client(m)
             \/ Receive(m) \/ DestroyMessage(m) \/ send_to_client(m)
             \/ remove_query(m) \/ remove_header(m)
             \/ append_body(m) \/ take_body(m) \/ into_body(m)
      PROVE  MessagesInv'
  BY <1>1, NewStep, from_clientStep, GoStep, RequestFieldsStep, SharedFieldsStep,
     append_bodyStep, take_bodyStep
<1>2. ASSUME NEW m \in Msgs, NEW c \in Msgs,
             \/ \E seconds \in 0 .. 1 : with_ttl(m, c, seconds)
             \/ set_method(m, c) \/ set_url(m, c) \/ set_path(m, c)
             \/ set_query_string(m, c) \/ set_surrogate_key(m, c) \/ set_pass(m, c)
             \/ set_auto_decompress_gzip(m, c) \/ set_cache_key(m, c)
      PROVE  MessagesInv'
  BY <1>2, RequestFieldsStep
<1>3. ASSUME NEW m \in Msgs, NEW c \in Msgs,
             \/ Override(m, m, "ttl")
             \/ \E field \in {"stale_while_revalidate", "pci"} : Override(m, c, field)
      PROVE  MessagesInv'
  <2>1. {"ttl", "stale_while_revalidate", "pci"} \subseteq Overrides
    BY DEF Overrides
  <2>2. QED
    BY <1>3, <2>1, RequestFieldsStep
<1>4. ASSUME NEW m \in Msgs, NEW c \in Msgs,
             \/ Clone(m, c) \/ take_backend_request(m, c)
             \/ set_header(m, c) \/ set_version(m, c) \/ set_status(m, c)
             \/ set_body(m, c) \/ set_body_text_plain(m, c) \/ set_body_text_html(m, c)
             \/ set_body_octet_stream(m, c) \/ set_content_type(m, c)
      PROVE  MessagesInv'
  BY <1>4, CloneStep, take_backend_requestStep, SharedFieldsStep, set_bodyStep, TextStep,
     PanicStep
<1>5. ASSUME NEW b \in MsgBodies, DropBody(b) PROVE MessagesInv'
  BY <1>5, DropBodyStep
<1>6. CASE UNCHANGED mvars
  BY <1>6 DEF mvars, MessagesInv, MTypeOK, OneBodyOwner, BodyOf, Live
<1>7. QED
  BY <1>1, <1>2, <1>3, <1>4, <1>5, <1>6 DEF MNext

\* No request passes and overrides the cache at once (set_pass and the methods
\* that override in request.cpp), for any number of messages and bodies.
THEOREM MessagesTyped == MSpec => []MTypeOK
<1>1. MessagesInv => MTypeOK
  BY DEF MessagesInv
<1>2. QED
  BY MessagesInit, MessagesStep, <1>1, PTL DEF MSpec

\* A body belongs to one message or Body object, however messages are chained,
\* cloned and taken apart (the boxes of request.cpp, response.cpp and body.cpp).
THEOREM MessagesOneBodyOwner == MSpec => []OneBodyOwner
<1>1. MessagesInv => OneBodyOwner
  BY DEF MessagesInv
<1>2. QED
  BY MessagesInit, MessagesStep, <1>1, PTL DEF MSpec

\* A request for which an error is answered is where and as it was.
ErrorsKeep == \A m \in Msgs : m \in m_error' /\ Has(m, "request") => m_msg' = m_msg

LEMMA ResultKeeps ==
  ASSUME MTypeOK, NEW m \in Msgs, NEW c, NEW msg, NEW error \in BOOLEAN,
         MResult(m, c, msg, error), error /\ Has(m, "request") => msg = m_msg[m]
  PROVE  ErrorsKeep
<1>1. \A o \in Msgs : o \in m_error' => o = m /\ error
  BY DEF MResult
<1>2. [m_msg EXCEPT ![m] = m_msg[m]] = m_msg
  BY DEF MTypeOK
<1>3. error /\ Has(m, "request") => m_msg' = m_msg
  BY <1>2 DEF MResult
<1>4. QED
  BY <1>1, <1>3 DEF ErrorsKeep

LEMMA FieldKeeps ==
  ASSUME MTypeOK, NEW m \in Msgs, NEW c, NEW set, Plain(m, c, set) \/ Try(m, c, set)
  PROVE  ErrorsKeep
<1>1. PICK refused \in BOOLEAN :
        MResult(m, c, IF refused THEN m_msg[m] ELSE With(m, set), refused)
  BY DEF Plain, Try
<1>2. QED
  BY <1>1, ResultKeeps

LEMMA ErrorsStep == MTypeOK /\ [MNext]_mvars => ErrorsKeep
<1> SUFFICES ASSUME MTypeOK, MNext PROVE ErrorsKeep
  BY DEF mvars, ErrorsKeep
<1>1. m_error' = {} => ErrorsKeep
  BY DEF ErrorsKeep
<1>2. ASSUME NEW m \in Msgs,
             \/ NewRequest(m) \/ NewResponse(m) \/ from_body(m) \/ from_client(m)
             \/ Receive(m) \/ DestroyMessage(m) \/ send_to_client(m)
             \/ append_body(m) \/ take_body(m) \/ into_body(m)
      PROVE  ErrorsKeep
  BY <1>1, <1>2 DEF NewRequest, NewResponse, from_body, from_client, Receive, DestroyMessage,
                    send_to_client, append_body, take_body, into_body, MMake, MResult, Panic
<1>3. ASSUME NEW m \in Msgs, NEW c \in Msgs,
             \/ remove_query(m) \/ remove_header(m)
             \/ \E seconds \in 0 .. 1 : with_ttl(m, c, seconds)
             \/ set_method(m, c) \/ set_url(m, c) \/ set_path(m, c)
             \/ set_query_string(m, c) \/ set_surrogate_key(m, c) \/ set_pass(m, c)
      PROVE  ErrorsKeep
  BY <1>3, FieldKeeps DEF remove_query, remove_header, with_ttl, set_method, set_url, set_path,
                          set_query_string, set_surrogate_key, set_pass
<1>4. ASSUME NEW m \in Msgs, NEW c \in Msgs,
             \/ \E field \in {"ttl", "stale_while_revalidate", "pci"} : Override(m, c, field)
             \/ set_auto_decompress_gzip(m, c) \/ set_cache_key(m, c)
             \/ set_header(m, c) \/ set_version(m, c) \/ set_status(m, c)
             \/ set_content_type(m, c)
      PROVE  ErrorsKeep
  BY <1>1, <1>4, FieldKeeps DEF Panic, Override, set_auto_decompress_gzip, set_cache_key, set_header,
                          set_version, set_status, set_content_type
<1>5. ASSUME NEW m \in Msgs, NEW c \in Msgs,
             Clone(m, c) \/ take_backend_request(m, c) \/ set_body(m, c)
             \/ set_body_octet_stream(m, c)
      PROVE  ErrorsKeep
  BY <1>1, <1>5 DEF Clone, take_backend_request, set_body, set_body_octet_stream, MMake, MResult
<1>6. ASSUME NEW m \in Msgs, NEW c \in Msgs, set_body_text_plain(m, c) PROVE ErrorsKeep
  <2>1. PICK refused \in BOOLEAN, b \in Fresh :
          MResult(m, c, IF refused THEN m_msg[m] ELSE Text(m, b), refused)
    BY <1>6 DEF set_body_text_plain, TextWith
  <2>2. QED
    BY <2>1, ResultKeeps
<1>7. ASSUME NEW m \in Msgs, NEW c \in Msgs, set_body_text_html(m, c) PROVE ErrorsKeep
  <2>1. PICK refused \in BOOLEAN, b \in Fresh :
          MResult(m, c, IF refused THEN m_msg[m] ELSE Text(m, b), Tells(m, refused))
    BY <1>7 DEF set_body_text_html, TextWith
  <2>2. Tells(m, refused) \in BOOLEAN
    BY DEF Tells
  <2>3. Tells(m, refused) /\ Has(m, "request") => refused
    BY DEF Tells, Has
  <2>4. QED
    BY <2>1, <2>2, <2>3, ResultKeeps
<1>8. ASSUME NEW b \in MsgBodies, DropBody(b) PROVE ErrorsKeep
  BY <1>1, <1>8 DEF DropBody
<1>9. QED
  BY <1>2, <1>3, <1>4, <1>5, <1>6, <1>7, <1>8 DEF MNext

\* test/request.cpp: a request is unchanged after a method of its own failed,
\* for every method that can fail.
THEOREM MessagesRequestErrors == MSpec => RequestErrors
<1>1. MTypeOK /\ [MNext]_mvars => [ErrorsKeep]_mvars
  BY ErrorsStep
<1>2. QED
  BY MessagesTyped, <1>1, PTL DEF MSpec, RequestErrors, ErrorsKeep

-------------------------------------------------------------------------------
(* HeaderRanges. *)

\* The same as LoopsSeeSnapshot, element by element.
LoopFits(r) ==
  /\ Len(r_cache[r]) + Len(r_left[r]) <= Len(r_made[r])
  /\ \A i \in 1 .. Len(r_left[r]) :
       r_left[r][i] = r_made[r][Len(r_made[r]) - Len(r_left[r]) + i]
  /\ r_cache[r] # <<>> => r_cache[r][1] = r_made[r][Taken(r) + 1]
  /\ InOrder(r)
  /\ r \notin r_skipped =>
       Len(r_seen[r]) = Taken(r) /\ \A i \in 1 .. Len(r_seen[r]) : r_seen[r][i] = r_made[r][i]

RangesInv == HTypeOK /\ \A r \in Ranges : LoopFits(r)

LEMMA CountIsNat ==
  ASSUME NEW S, IsFiniteSet(S)
  PROVE  Cardinality(S) \in Nat
BY FS_CardinalityType

\* What Rust lists of a message are headers, and finitely many.
LEMMA ListingsAreElements ==
  ASSUME NEW map \in [HNames -> Seq(HValues)]
  PROVE  Listings(map) \subseteq Elements
<1> DEFINE Of(name) == {name} \X (1 .. Len(map[name]))
<1>1. \A name \in HNames : Len(map[name]) \in Nat /\ IsFiniteSet(Of(name))
  <2> SUFFICES ASSUME NEW name \in HNames
               PROVE  Len(map[name]) \in Nat /\ IsFiniteSet(Of(name))
    OBVIOUS
  <2>1. Len(map[name]) \in Nat
    BY LenProperties
  <2>2. IsFiniteSet({name})
    BY FS_Singleton
  <2>3. IsFiniteSet(1 .. Len(map[name]))
    BY <2>1, FS_Interval
  <2> QED
    BY <2>1, <2>2, <2>3, FS_Product
<1>2. IsFiniteSet({Of(name) : name \in HNames})
  <2> DEFINE of == [name \in HNames |-> Of(name)]
  <2> HIDE DEF Of
  <2>1. of \in Surjection(HNames, {Of(name) : name \in HNames})
    BY DEF Surjection
  <2> HIDE DEF of
  <2> QED
    BY <2>1, HeaderNamesAssumption, FS_Surjection
<1>3. IsFiniteSet(Positions(map))
  BY <1>1, <1>2, FS_UNION, Zenon DEF Positions
<1>4. Cardinality(Positions(map)) \in Nat
  BY <1>3, CountIsNat
<1>5. \A place \in Positions(map) : place[1] \in HNames /\ place[2] \in 1 .. Len(map[place[1]])
  BY DEF Positions
<1> SUFFICES ASSUME NEW order \in Orders(Positions(map))
             PROVE  [i \in DOMAIN order |-> <<order[i][1], map[order[i][1]][order[i][2]]>>]
                      \in Elements
  BY DEF Listings
<1> DEFINE n == Cardinality(Positions(map))
           element(i) == <<order[i][1], map[order[i][1]][order[i][2]]>>
<1>6. order \in [1 .. n -> Positions(map)] /\ DOMAIN order = 1 .. n
  BY DEF Orders
<1>7. \A i \in 1 .. n : element(i) \in HNames \X HValues
  <2> SUFFICES ASSUME NEW i \in 1 .. n
               PROVE  element(i) \in HNames \X HValues
    OBVIOUS
  <2>1. order[i][1] \in HNames /\ order[i][2] \in 1 .. Len(map[order[i][1]])
    BY <1>5, <1>6
  <2>2. map[order[i][1]] \in Seq(HValues)
    BY <2>1
  <2>3. map[order[i][1]][order[i][2]] \in HValues
    BY <2>1, <2>2, ElementOfSeq
  <2> QED
    BY <2>1, <2>3
<1> HIDE DEF n, element
<1>8. [i \in 1 .. n |-> element(i)] \in Seq(HNames \X HValues)
  BY <1>4, <1>7, IsASeq DEF n
<1> QED
  BY <1>6, <1>8 DEF element, Elements

\* So are the names of a message, each with its first value.
LEMMA NamesAreElements ==
  ASSUME HTypeOK, NEW names \in Orders({name \in HNames : contains_header(name)})
  PROVE  [i \in DOMAIN names |-> <<names[i], get_header(names[i])>>] \in Elements
<1> DEFINE S == {name \in HNames : contains_header(name)}
           n == Cardinality(S)
           element(i) == <<names[i], get_header(names[i])>>
<1>1. n \in Nat
  BY HeaderNamesAssumption, FS_Subset, CountIsNat
<1>2. names \in [1 .. n -> S] /\ DOMAIN names = 1 .. n
  BY DEF Orders
<1>3. \A name \in S : name \in HNames /\ get_header(name) \in HValues
  <2> SUFFICES ASSUME NEW name \in S
               PROVE  get_header(name) \in HValues
    OBVIOUS
  <2>1. h_map[name] \in Seq(HValues) /\ h_map[name] # <<>>
    BY DEF HTypeOK, contains_header
  <2> QED
    BY <2>1, HeadTailProperties DEF get_header
<1>4. \A i \in 1 .. n : element(i) \in HNames \X HValues
  BY <1>2, <1>3
<1> HIDE DEF n, element
<1>5. [i \in 1 .. n |-> element(i)] \in Seq(HNames \X HValues)
  BY <1>1, <1>4, IsASeq
<1> QED
  BY <1>2, <1>5 DEF element, Elements

LEMMA NoElements == <<>> \in Elements /\ Len(<<>>) = 0
BY EmptySeq DEF Elements

LEMMA ElementsHaveLen ==
  ASSUME NEW s \in Elements
  PROVE  Len(s) \in Nat /\ (s = <<>> <=> Len(s) = 0)
BY EmptySeq, LenProperties DEF Elements

\* A step that leaves a range alone keeps what the invariant says of it.
LEMMA OtherLoopFits ==
  ASSUME NEW r \in Ranges, LoopFits(r),
         r_made'[r] = r_made[r], r_left'[r] = r_left[r], r_cache'[r] = r_cache[r],
         r_seen'[r] = r_seen[r], r \in r_skipped' <=> r \in r_skipped
  PROVE  LoopFits(r)'
<1>1. Taken(r)' = Taken(r)
  BY DEF Taken
<1>2. InOrder(r)'
  <2>1. InOrder(r)
    BY DEF LoopFits
  <2> QED
    BY <1>1, <2>1, Zenon DEF InOrder
<1> QED
  BY <1>1, <1>2 DEF LoopFits

\* Nothing was taken from a new range.
LEMMA NewLoopFits ==
  ASSUME NEW r \in Ranges, NEW elements \in Elements,
         r_made'[r] = elements, r_left'[r] = elements, r_cache'[r] = <<>>, r_seen'[r] = <<>>
  PROVE  LoopFits(r)'
<1>1. Len(elements) \in Nat /\ Len(<<>>) = 0
  BY LenProperties, NoElements DEF Elements
<1>2. Taken(r)' = 0
  BY <1>1 DEF Taken
<1>3. InOrder(r)'
  <2> DEFINE none == [i \in 1 .. 0 |-> 0]
  <2>1. none \in [1 .. Len(r_seen'[r]) -> 1 .. Taken(r)']
    BY <1>1, <1>2
  <2>2. \A i \in 1 .. Len(r_seen'[r]) : FALSE
    BY <1>1
  <2> HIDE DEF none
  <2> QED
    BY <2>1, <2>2 DEF InOrder
<1> QED
  BY <1>1, <1>2, <1>3 DEF LoopFits

LEMMA NewRangeStep ==
  ASSUME RangesInv, NEW r \in Ranges, NEW elements \in Elements, NewRange(r, elements)
  PROVE  RangesInv'
<1> USE DEF RangesInv, HTypeOK, NewRange
<1>1. HTypeOK'
  BY NoElements
<1>2. LoopFits(r)'
  BY NewLoopFits
<1>3. ASSUME NEW u \in Ranges, u # r
      PROVE  LoopFits(u)'
  BY <1>3, OtherLoopFits
<1> QED
  BY <1>1, <1>2, <1>3

\* ++ and begin.
LEMMA FetchStep ==
  ASSUME RangesInv, NEW r \in Ranges, Fetch(r)
  PROVE  RangesInv'
<1> DEFINE made == r_made[r]  left == r_left[r]  cache == r_cache[r]  seen == r_seen[r]
<1>1. /\ made \in Elements /\ left \in Elements /\ cache \in Elements /\ seen \in Elements
      /\ Len(made) \in Nat /\ Len(left) \in Nat /\ Len(cache) \in 0 .. 1 /\ Len(seen) \in Nat
  <2>1. /\ made \in Elements /\ left \in Elements /\ cache \in Elements /\ seen \in Elements
        /\ Len(cache) <= 1
    BY DEF RangesInv, HTypeOK
  <2> HIDE DEF made, left, cache, seen
  <2>2. /\ Len(made) \in Nat /\ Len(left) \in Nat /\ Len(cache) \in Nat /\ Len(seen) \in Nat
    BY <2>1, ElementsHaveLen
  <2> QED
    BY <2>1, <2>2
<1>2. cache = <<>> <=> Len(cache) = 0
  BY <1>1, ElementsHaveLen
<1>3. /\ r_left' = [r_left EXCEPT ![r] = IF left = <<>> THEN left ELSE Tail(left)]
      /\ r_cache' = [r_cache EXCEPT ![r] = IF left = <<>> THEN <<>> ELSE <<Head(left)>>]
      /\ r_skipped' = r_skipped \cup (IF cache = <<>> THEN {} ELSE {r})
      /\ UNCHANGED <<h_map, r_made, r_seen>>
  BY DEF Fetch, TakeNext
<1> DEFINE left2 == IF left = <<>> THEN left ELSE Tail(left)
           cache2 == IF left = <<>> THEN <<>> ELSE <<Head(left)>>
<1>4. /\ left2 \in Elements /\ cache2 \in Elements
      /\ Len(left2) \in Nat /\ Len(cache2) \in 0 .. 1
      /\ Len(left2) + Len(cache2) = Len(left)
      /\ cache2 # <<>> => Len(cache2) = 1 /\ cache2[1] = left[1]
      /\ \A i \in 1 .. Len(left2) : left2[i] = left[Len(left) - Len(left2) + i]
  <2>1. CASE left = <<>>
    BY <1>1, <2>1, NoElements
  <2>2. CASE left # <<>>
    <3>1. /\ Head(left) \in HNames \X HValues /\ Tail(left) \in Elements
          /\ Len(Tail(left)) = Len(left) - 1
          /\ \A i \in 1 .. Len(Tail(left)) : Tail(left)[i] = left[i + 1]
      BY <1>1, <2>2, HeadTailProperties DEF Elements
    <3>2. Len(left) >= 1
      BY <1>1, <2>2, EmptySeq DEF Elements
    <3>3. <<Head(left)>> \in Elements /\ Len(<<Head(left)>>) = 1 /\ <<Head(left)>>[1] = left[1]
      BY <3>1 DEF Elements
    <3> HIDE DEF left
    <3> QED
      BY <1>1, <2>2, <3>1, <3>2, <3>3
  <2> QED
    BY <2>1, <2>2
<1>5. /\ r_left'[r] = left2 /\ r_cache'[r] = cache2 /\ r_made'[r] = made /\ r_seen'[r] = seen
      /\ r_left' \in [Ranges -> Elements] /\ r_cache' \in [Ranges -> Elements]
      /\ \A u \in Ranges \ {r} : r_left'[u] = r_left[u] /\ r_cache'[u] = r_cache[u]
  BY <1>3, <1>4 DEF RangesInv, HTypeOK
<1>6. HTypeOK'
  BY <1>3, <1>4, <1>5 DEF RangesInv, HTypeOK
<1>7. ASSUME NEW u \in Ranges, u # r
      PROVE  LoopFits(u)'
  BY <1>3, <1>5, <1>7, OtherLoopFits DEF RangesInv
<1>8. /\ Len(cache) + Len(left) <= Len(made)
      /\ \A i \in 1 .. Len(left) : left[i] = made[Len(made) - Len(left) + i]
      /\ InOrder(r)
      /\ r \notin r_skipped =>
           Len(seen) = Taken(r) /\ \A i \in 1 .. Len(seen) : seen[i] = made[i]
  BY DEF RangesInv, LoopFits
<1>9. /\ Taken(r) = Len(made) - Len(cache) - Len(left)
      /\ Taken(r)' = Len(made) - Len(cache2) - Len(left2)
  BY <1>5 DEF Taken
<1>a. r_seen[r] = seen /\ r_made[r] = made
  OBVIOUS
<1> HIDE DEF made, left, cache, seen, left2, cache2
<1>b. Taken(r) \in Nat /\ Taken(r)' = Taken(r) + Len(cache)
  <2>1. /\ Len(made) \in Nat /\ Len(left) \in Nat /\ Len(cache) \in Nat
        /\ Len(left2) \in Nat /\ Len(cache2) \in Nat
        /\ Len(cache) + Len(left) <= Len(made) /\ Len(left2) + Len(cache2) = Len(left)
    BY <1>1, <1>4, <1>8
  <2> QED
    BY <1>9, <2>1
<1>10. InOrder(r)'
  <2>1. PICK at \in [1 .. Len(seen) -> 1 .. Taken(r)] :
          /\ \A i, j \in 1 .. Len(seen) : i < j => at[i] < at[j]
          /\ \A i \in 1 .. Len(seen) : seen[i] = made[at[i]]
    BY <1>8, <1>a DEF InOrder
  <2>2. at \in [1 .. Len(seen) -> 1 .. Taken(r)']
    BY <1>1, <1>b
  <2> QED
    BY <1>5, <2>1, <2>2 DEF InOrder
<1>11. cache2 # <<>> => cache2[1] = made[Taken(r)' + 1]
  <2> SUFFICES ASSUME cache2 # <<>> PROVE cache2[1] = made[Taken(r)' + 1]
    OBVIOUS
  <2>1. cache2[1] = left[1] /\ Len(left) >= 1
    BY <1>1, <1>4
  <2>2. left[1] = made[Len(made) - Len(left) + 1]
    BY <1>1, <1>8, <2>1
  <2> QED
    BY <1>1, <1>9, <1>b, <2>1, <2>2
<1>12. \A i \in 1 .. Len(left2) : left2[i] = made[Len(made) - Len(left2) + i]
  <2> SUFFICES ASSUME NEW i \in 1 .. Len(left2)
               PROVE  left2[i] = made[Len(made) - Len(left2) + i]
    OBVIOUS
  <2>1. Len(left) - Len(left2) + i \in 1 .. Len(left)
    BY <1>1, <1>4
  <2>2. left[Len(left) - Len(left2) + i]
          = made[Len(made) - Len(left) + (Len(left) - Len(left2) + i)]
    BY <1>8, <2>1
  <2>3. Len(made) - Len(left) + (Len(left) - Len(left2) + i) = Len(made) - Len(left2) + i
    BY <1>1, <1>4
  <2> QED
    BY <1>4, <2>2, <2>3
<1>13. r \notin r_skipped' =>
         Len(seen) = Taken(r)' /\ \A i \in 1 .. Len(seen) : seen[i] = made[i]
  BY <1>1, <1>2, <1>3, <1>8, <1>b
<1>14. Len(cache2) + Len(left2) <= Len(made)
  BY <1>1, <1>4, <1>8
<1>15. LoopFits(r)'
  BY <1>5, <1>10, <1>11, <1>12, <1>13, <1>14 DEF LoopFits
<1> QED
  BY <1>6, <1>7, <1>15 DEF RangesInv

\* operator*.
LEMMA LookStep ==
  ASSUME RangesInv, NEW r \in Ranges, Look(r)
  PROVE  RangesInv'
<1> DEFINE made == r_made[r]  left == r_left[r]  cache == r_cache[r]  seen == r_seen[r]
<1>1. /\ made \in Elements /\ left \in Elements /\ cache \in Elements /\ seen \in Elements
      /\ Len(made) \in Nat /\ Len(left) \in Nat /\ Len(cache) = 1 /\ Len(seen) \in Nat
  <2>1. /\ made \in Elements /\ left \in Elements /\ cache \in Elements /\ seen \in Elements
        /\ Len(cache) <= 1 /\ cache # <<>>
    BY DEF RangesInv, HTypeOK, Look
  <2> HIDE DEF made, left, cache, seen
  <2>2. /\ Len(made) \in Nat /\ Len(left) \in Nat /\ Len(cache) \in Nat /\ Len(seen) \in Nat
        /\ Len(cache) # 0
    BY <2>1, ElementsHaveLen
  <2> QED
    BY <2>1, <2>2
<1> DEFINE seen2 == seen \o cache
<1>2. /\ seen2 \in Elements /\ Len(seen2) = Len(seen) + 1
      /\ \A i \in 1 .. Len(seen) : seen2[i] = seen[i]
      /\ seen2[Len(seen) + 1] = cache[1]
  <2> HIDE DEF made, left, cache, seen
  <2>1. /\ seen \o cache \in Elements /\ Len(seen \o cache) = Len(seen) + Len(cache)
        /\ \A i \in 1 .. Len(seen) + Len(cache) :
             (seen \o cache)[i] = IF i <= Len(seen) THEN seen[i] ELSE cache[i - Len(seen)]
    BY <1>1, ConcatProperties DEF Elements
  <2> QED
    BY <1>1, <2>1
<1>3. /\ r_seen' = [r_seen EXCEPT ![r] = seen2]
      /\ r_cache' = [r_cache EXCEPT ![r] = <<>>]
      /\ UNCHANGED <<h_map, r_made, r_left, r_skipped>>
  BY DEF Look
<1>4. /\ r_seen'[r] = seen2 /\ r_cache'[r] = <<>> /\ r_made'[r] = made /\ r_left'[r] = left
      /\ r_seen' \in [Ranges -> Elements] /\ r_cache' \in [Ranges -> Elements]
      /\ \A u \in Ranges \ {r} : r_seen'[u] = r_seen[u] /\ r_cache'[u] = r_cache[u]
  BY <1>2, <1>3, NoElements DEF RangesInv, HTypeOK
<1>5. HTypeOK'
  BY <1>3, <1>4, NoElements DEF RangesInv, HTypeOK
<1>6. ASSUME NEW u \in Ranges, u # r
      PROVE  LoopFits(u)'
  BY <1>3, <1>4, <1>6, OtherLoopFits DEF RangesInv
<1>7. cache # <<>>
  BY DEF Look
<1>8. /\ Len(cache) + Len(left) <= Len(made)
      /\ \A i \in 1 .. Len(left) : left[i] = made[Len(made) - Len(left) + i]
      /\ cache[1] = made[Taken(r) + 1]
      /\ InOrder(r)
      /\ r \notin r_skipped =>
           Len(seen) = Taken(r) /\ \A i \in 1 .. Len(seen) : seen[i] = made[i]
  BY <1>7 DEF RangesInv, LoopFits
<1>9. /\ Taken(r) = Len(made) - Len(cache) - Len(left)
      /\ Taken(r)' = Len(made) - 0 - Len(left)
  BY <1>4, NoElements DEF Taken
<1>a. r_seen[r] = seen /\ r_made[r] = made
  OBVIOUS
<1> HIDE DEF made, left, cache, seen, seen2
<1>b. Taken(r) \in Nat /\ Taken(r)' = Taken(r) + 1
  <2>1. /\ Len(made) \in Nat /\ Len(left) \in Nat /\ Len(cache) = 1
        /\ Len(cache) + Len(left) <= Len(made)
    BY <1>1, <1>8
  <2> QED
    BY <1>9, <2>1
<1>10. InOrder(r)'
  <2>1. PICK at \in [1 .. Len(seen) -> 1 .. Taken(r)] :
          /\ \A i, j \in 1 .. Len(seen) : i < j => at[i] < at[j]
          /\ \A i \in 1 .. Len(seen) : seen[i] = made[at[i]]
    BY <1>8, <1>a DEF InOrder
  <2> DEFINE at2 == [i \in 1 .. Len(seen) + 1 |-> IF i <= Len(seen) THEN at[i] ELSE Taken(r) + 1]
  <2>2. at2 \in [1 .. Len(seen2) -> 1 .. Taken(r)']
    BY <1>1, <1>2, <1>b
  <2>3. \A i, j \in 1 .. Len(seen2) : i < j => at2[i] < at2[j]
    <3> SUFFICES ASSUME NEW i \in 1 .. Len(seen) + 1, NEW j \in 1 .. Len(seen) + 1, i < j
                 PROVE  at2[i] < at2[j]
      BY <1>2
    <3>1. i \in 1 .. Len(seen) /\ at2[i] = at[i] /\ at[i] \in 1 .. Taken(r)
      BY <1>1
    <3>2. CASE j = Len(seen) + 1
      <4>1. at2[j] = Taken(r) + 1
        BY <1>1, <3>2
      <4> QED
        BY <1>b, <3>1, <4>1
    <3>3. CASE j # Len(seen) + 1
      <4>1. j \in 1 .. Len(seen) /\ at2[j] = at[j]
        BY <1>1, <3>3
      <4> QED
        BY <2>1, <3>1, <4>1
    <3> QED
      BY <3>2, <3>3
  <2>4. \A i \in 1 .. Len(seen2) : seen2[i] = made[at2[i]]
    BY <1>1, <1>2, <1>8, <2>1
  <2> HIDE DEF at2
  <2> QED
    BY <1>4, <2>2, <2>3, <2>4 DEF InOrder
<1>11. r \notin r_skipped' =>
         Len(seen2) = Taken(r)' /\ \A i \in 1 .. Len(seen2) : seen2[i] = made[i]
  <2> SUFFICES ASSUME r \notin r_skipped
               PROVE  Len(seen2) = Taken(r)' /\ \A i \in 1 .. Len(seen2) : seen2[i] = made[i]
    BY <1>3
  <2>1. Len(seen) = Taken(r) /\ \A i \in 1 .. Len(seen) : seen[i] = made[i]
    BY <1>8
  <2>2. Len(seen2) = Taken(r)' /\ seen2[Len(seen) + 1] = made[Len(seen) + 1]
    BY <1>1, <1>2, <1>8, <1>b, <2>1
  <2> QED
    BY <1>1, <1>2, <2>1, <2>2
<1>12. 0 + Len(left) <= Len(made)
  BY <1>1, <1>8
<1>13. LoopFits(r)'
  BY <1>4, <1>8, <1>10, <1>11, <1>12, NoElements DEF LoopFits
<1> QED
  BY <1>5, <1>6, <1>13 DEF RangesInv

LEMMA RangesStep ==
  ASSUME RangesInv, HNext
  PROVE  RangesInv'
<1>1. ASSUME NEW map \in [HNames -> Seq(HValues)], ChangeHeaders(map)
      PROVE  RangesInv'
  <2>1. h_map' = map /\ UNCHANGED <<r_made, r_left, r_cache, r_seen, r_skipped>>
    BY <1>1 DEF ChangeHeaders, Kept
  <2>2. HTypeOK'
    BY <2>1 DEF RangesInv, HTypeOK
  <2> QED
    BY <2>1, <2>2, OtherLoopFits DEF RangesInv
<1>2. ASSUME NEW name \in HNames, NEW value \in HValues
      PROVE  /\ [h_map EXCEPT ![name] = <<value>>] \in [HNames -> Seq(HValues)]
             /\ [h_map EXCEPT ![name] = Append(@, value)] \in [HNames -> Seq(HValues)]
             /\ [h_map EXCEPT ![name] = <<>>] \in [HNames -> Seq(HValues)]
  <2>1. /\ <<value>> \in Seq(HValues) /\ <<>> \in Seq(HValues)
        /\ Append(h_map[name], value) \in Seq(HValues)
    BY EmptySeq, AppendProperties DEF RangesInv, HTypeOK
  <2> QED
    BY <2>1 DEF RangesInv, HTypeOK
<1>3. ASSUME NEW name \in HNames, NEW value \in HValues,
             set_name(name, value) \/ append_name(name, value)
      PROVE  RangesInv'
  BY <1>1, <1>2, <1>3 DEF set_name, append_name
<1>4. ASSUME NEW name \in HNames, remove_name(name)
      PROVE  RangesInv'
  <2>1. [h_map EXCEPT ![name] = <<>>] \in [HNames -> Seq(HValues)]
    BY EmptySeq DEF RangesInv, HTypeOK
  <2> QED
    BY <1>1, <1>4, <2>1 DEF remove_name
<1>5. ASSUME NEW r \in Ranges, get_headers(r)
      PROVE  RangesInv'
  <2>1. PICK listing \in Listings(h_map) : NewRange(r, listing)
    BY <1>5 DEF get_headers
  <2>2. listing \in Elements
    BY ListingsAreElements DEF RangesInv, HTypeOK
  <2> QED
    BY <2>1, <2>2, NewRangeStep
<1>6. ASSUME NEW r \in Ranges, get_header_names(r)
      PROVE  RangesInv'
  BY <1>6, NamesAreElements, NewRangeStep DEF get_header_names, RangesInv
<1>7. ASSUME NEW r \in Ranges, NEW name \in HNames, get_header_all(r, name)
      PROVE  RangesInv'
  <2> DEFINE elements == [k \in 1 .. Len(h_map[name]) |-> <<name, h_map[name][k]>>]
  <2>1. h_map[name] \in Seq(HValues)
    BY DEF RangesInv, HTypeOK
  <2>2. Len(h_map[name]) \in Nat
    BY <2>1, LenProperties
  <2>3. \A k \in 1 .. Len(h_map[name]) : <<name, h_map[name][k]>> \in HNames \X HValues
    BY <2>1, ElementOfSeq
  <2>4. elements \in Elements
    BY <2>2, <2>3, IsASeq DEF Elements
  <2>5. NewRange(r, elements)
    BY <1>7 DEF get_header_all
  <2> HIDE DEF elements
  <2> QED
    BY <2>4, <2>5, NewRangeStep
<1> QED
  BY <1>3, <1>4, <1>5, <1>6, <1>7, FetchStep, LookStep DEF HNext

LEMMA RangesInitInv == HInit => RangesInv
<1> SUFFICES ASSUME HInit PROVE RangesInv
  OBVIOUS
<1>1. HTypeOK
  BY NoElements, EmptySeq DEF HInit, HTypeOK
<1>2. ASSUME NEW r \in Ranges
      PROVE  LoopFits(r)
  <2>1. r_made[r] = <<>> /\ r_left[r] = <<>> /\ r_cache[r] = <<>> /\ r_seen[r] = <<>>
    BY DEF HInit
  <2>2. Taken(r) = 0
    <3>1. Len(r_made[r]) = 0 /\ Len(r_cache[r]) = 0 /\ Len(r_left[r]) = 0
      BY <2>1, NoElements
    <3> QED
      BY <3>1 DEF Taken
  <2> DEFINE none == [i \in 1 .. 0 |-> 0]
  <2>3. none \in [1 .. Len(r_seen[r]) -> 1 .. Taken(r)]
    BY <2>1, <2>2, NoElements
  <2>4. \A i \in 1 .. Len(r_seen[r]) : FALSE
    BY <2>1, NoElements
  <2> HIDE DEF none
  <2>5. InOrder(r)
    BY <2>3, <2>4 DEF InOrder
  <2> QED
    BY <2>1, <2>2, <2>5, NoElements DEF LoopFits
<1> QED
  BY <1>1, <1>2 DEF RangesInv

LEMMA RangesInvariant == HSpec => []RangesInv
<1>1. RangesInv /\ [HNext]_hvars => RangesInv'
  <2>1. ASSUME RangesInv, UNCHANGED hvars
        PROVE  RangesInv'
    <3>1. HTypeOK'
      BY <2>1 DEF RangesInv, HTypeOK, hvars
    <3> QED
      BY <2>1, <3>1, OtherLoopFits DEF RangesInv, hvars
  <2> QED
    BY <2>1, RangesStep
<1> QED
  BY RangesInitInv, <1>1, PTL DEF HSpec

\* The pairs that ranges and loops hold are headers, and no loop's iterator
\* holds two.
THEOREM RangesTyped == HSpec => []HTypeOK
<1>1. RangesInv => HTypeOK
  BY DEF RangesInv
<1> QED
  BY RangesInvariant, <1>1, PTL

\* What a concatenation is, element by element.
LEMMA ConcatIs ==
  ASSUME NEW S, NEW s \in Seq(S), NEW t \in Seq(S), NEW u \in Seq(S),
         Len(u) = Len(s) + Len(t),
         \A i \in 1 .. Len(s) : u[i] = s[i],
         \A i \in 1 .. Len(t) : u[Len(s) + i] = t[i]
  PROVE  s \o t = u
<1> DEFINE all == s \o t
<1>1. /\ all \in Seq(S) /\ Len(all) = Len(s) + Len(t)
      /\ \A i \in 1 .. Len(s) + Len(t) : all[i] = IF i <= Len(s) THEN s[i] ELSE t[i - Len(s)]
  BY ConcatProperties
<1>2. Len(s) \in Nat /\ Len(t) \in Nat
  BY LenProperties
<1> HIDE DEF all
<1>3. ASSUME NEW i \in 1 .. Len(all)
      PROVE  all[i] = u[i]
  <2>1. CASE i <= Len(s)
    BY <1>1, <1>2, <2>1
  <2>2. CASE ~(i <= Len(s))
    <3>1. i - Len(s) \in 1 .. Len(t) /\ Len(s) + (i - Len(s)) = i
      BY <1>1, <1>2, <2>2
    <3>2. u[i] = t[i - Len(s)]
      BY <3>1
    <3> QED
      BY <1>1, <1>2, <2>2, <3>2
  <2> QED
    BY <2>1, <2>2
<1>4. all = u
  BY <1>1, <1>3, SeqEqual
<1> QED
  BY <1>4 DEF all

\* Element by element is the whole: what the loops looked at, what one of them
\* holds and what is left.
LEMMA FitsIsSnapshot ==
  ASSUME RangesInv, NEW r \in Ranges
  PROVE  /\ Taken(r) >= 0
         /\ r_cache[r] \o r_left[r] = SubSeq(r_made[r], Taken(r) + 1, Len(r_made[r]))
         /\ r \notin r_skipped => r_seen[r] \o r_cache[r] \o r_left[r] = r_made[r]
<1> DEFINE made == r_made[r]  left == r_left[r]  cache == r_cache[r]  seen == r_seen[r]
           taken == Taken(r)  rest == cache \o left
<1>1. /\ made \in Elements /\ left \in Elements /\ cache \in Elements /\ seen \in Elements
      /\ Len(cache) <= 1
  BY DEF RangesInv, HTypeOK
<1>2. /\ Len(cache) + Len(left) <= Len(made)
      /\ \A i \in 1 .. Len(left) : left[i] = made[Len(made) - Len(left) + i]
      /\ cache # <<>> => cache[1] = made[taken + 1]
      /\ r \notin r_skipped =>
           Len(seen) = taken /\ \A i \in 1 .. Len(seen) : seen[i] = made[i]
      /\ taken = Len(made) - Len(cache) - Len(left)
  BY DEF RangesInv, LoopFits, Taken
<1> HIDE DEF made, left, cache, seen, taken
<1>3. /\ Len(made) \in Nat /\ Len(left) \in Nat /\ Len(cache) \in Nat /\ Len(seen) \in Nat
      /\ cache = <<>> <=> Len(cache) = 0
  BY <1>1, ElementsHaveLen
<1>4. taken \in Nat /\ Len(made) = taken + Len(cache) + Len(left)
  BY <1>2, <1>3
<1>5. /\ rest \in Elements /\ Len(rest) = Len(cache) + Len(left)
      /\ \A i \in 1 .. Len(cache) + Len(left) :
           rest[i] = IF i <= Len(cache) THEN cache[i] ELSE left[i - Len(cache)]
  BY <1>1, ConcatProperties DEF Elements
<1>6. \A i \in 1 .. Len(rest) : rest[i] = made[taken + i]
  <2> SUFFICES ASSUME NEW i \in 1 .. Len(cache) + Len(left)
               PROVE  rest[i] = made[taken + i]
    BY <1>5
  <2>1. CASE i <= Len(cache)
    <3>1. i = 1 /\ Len(cache) # 0
      BY <1>1, <1>3, <2>1
    <3> QED
      BY <1>2, <1>3, <1>5, <2>1, <3>1
  <2>2. CASE ~(i <= Len(cache))
    <3>1. i - Len(cache) \in 1 .. Len(left)
      BY <1>3, <2>2
    <3>2. rest[i] = left[i - Len(cache)]
      BY <1>5, <2>2
    <3>3. left[i - Len(cache)] = made[Len(made) - Len(left) + (i - Len(cache))]
      BY <1>2, <3>1
    <3>4. Len(made) - Len(left) + (i - Len(cache)) = taken + i
      BY <1>3, <1>4
    <3> QED
      BY <3>2, <3>3, <3>4
  <2> QED
    BY <2>1, <2>2
<1> HIDE DEF rest
<1> DEFINE last == SubSeq(made, taken + 1, Len(made))
<1>7. /\ last \in Elements /\ Len(last) = Len(rest)
      /\ \A i \in 1 .. Len(rest) : last[i] = made[taken + i]
  <2>1. \A i \in taken + 1 .. Len(made) : made[i] \in HNames \X HValues
    BY <1>1, <1>3, <1>4, ElementOfSeq DEF Elements
  <2>2. taken + 1 \in Int /\ Len(made) \in Int
    BY <1>3, <1>4
  <2>3. /\ last \in Elements
        /\ Len(last) = IF taken + 1 <= Len(made) THEN Len(made) - (taken + 1) + 1 ELSE 0
        /\ \A i \in 1 .. Len(made) - (taken + 1) + 1 : last[i] = made[(taken + 1) + i - 1]
    BY <2>1, <2>2, SubSeqProperties DEF Elements
  <2> HIDE DEF last
  <2>4. Len(rest) = Len(made) - taken /\ Len(rest) \in Nat /\ taken \in Nat /\ Len(made) \in Nat
    BY <1>3, <1>4, <1>5
  <2>5. Len(last) = Len(rest)
    BY <2>3, <2>4
  <2>6. ASSUME NEW i \in 1 .. Len(rest)
        PROVE  last[i] = made[taken + i]
    <3>1. i \in 1 .. Len(made) - (taken + 1) + 1 /\ (taken + 1) + i - 1 = taken + i
      BY <2>4
    <3> QED
      BY <2>3, <3>1
  <2> QED
    BY <2>3, <2>5, <2>6
<1>8. rest = last
  <2> HIDE DEF last
  <2>1. rest \in Seq(HNames \X HValues) /\ last \in Seq(HNames \X HValues)
    BY <1>5, <1>7 DEF Elements
  <2>2. Len(rest) = Len(last) /\ \A i \in 1 .. Len(rest) : rest[i] = last[i]
    BY <1>6, <1>7
  <2> QED
    BY <2>1, <2>2, SeqEqual
<1>9. ASSUME r \notin r_skipped
      PROVE  seen \o rest = made
  <2>1. Len(seen) = taken /\ Len(made) = Len(seen) + Len(rest)
    BY <1>2, <1>4, <1>5, <1>9
  <2>2. \A i \in 1 .. Len(seen) : made[i] = seen[i]
    BY <1>2, <1>9
  <2>3. \A i \in 1 .. Len(rest) : made[Len(seen) + i] = rest[i]
    BY <1>6, <2>1
  <2>4. /\ seen \in Seq(HNames \X HValues) /\ rest \in Seq(HNames \X HValues)
        /\ made \in Seq(HNames \X HValues)
    BY <1>1, <1>5 DEF Elements
  <2> QED
    BY <2>1, <2>2, <2>3, <2>4, ConcatIs
<1>10. (seen \o cache) \o left = seen \o rest
  <2>1. /\ seen \in Seq(HNames \X HValues) /\ cache \in Seq(HNames \X HValues)
        /\ left \in Seq(HNames \X HValues)
    BY <1>1 DEF Elements
  <2> HIDE DEF rest
  <2>2. (seen \o cache) \o left = seen \o (cache \o left)
    BY <2>1, ConcatAssociative
  <2> QED
    BY <2>2 DEF rest
<1>11. Taken(r) >= 0
  BY <1>4 DEF taken
<1>12. cache \o left = SubSeq(made, taken + 1, Len(made))
  BY <1>8 DEF rest
<1> HIDE DEF last, rest
<1>13. r \notin r_skipped => (seen \o cache) \o left = made
  BY <1>9, <1>10
<1> QED
  BY <1>11, <1>12, <1>13 DEF made, left, cache, seen, taken

\* rust_iterator_range.h:69: the loops over a range go through the headers of
\* the moment it was made, each at most once and in order, and through all of
\* them if no element was passed over unlooked at.
THEOREM RangesSeeSnapshot == HSpec => []LoopsSeeSnapshot
<1>1. RangesInv => LoopsSeeSnapshot
  BY FitsIsSnapshot DEF LoopsSeeSnapshot, RangesInv, LoopFits
<1> QED
  BY RangesInvariant, <1>1, PTL

===============================================================================
