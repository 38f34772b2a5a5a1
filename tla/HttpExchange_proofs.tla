-------------------------- MODULE HttpExchange_proofs --------------------------
(***************************************************************************)
(* Theorems about HttpExchange, for any number of requests and objects.    *)
(***************************************************************************)
EXTENDS HttpExchange, TLAPS

\* A request that was not sent has left no trace.
Unsent ==
  \A x \in Exchanges : request[x] # "moved" =>
    net[x] = "idle" /\ result[x] = "none" /\ stream[x] = "none"

ExchangeInv == TypeOK /\ OneOwner /\ Unsent

-------------------------------------------------------------------------------
(* The invariant.                                                          *)

LEMMA InitInv == Init => ExchangeInv
BY ExchangeAssumption DEF Init, ExchangeInv, TypeOK, OneOwner, Unsent, Held,
   Calls, Results, NetStates

LEMMA SendInv ==
  ASSUME ExchangeInv, NEW x \in Exchanges, Refuse(x) \/ send(x)
  PROVE  ExchangeInv'
<1> USE DEF ExchangeInv
<1>1. TypeOK'
  BY DEF TypeOK, Unsent, Refuse, send, MoveOut, Running, Calls, Results, NetStates
<1>2. OneOwner'
  BY DEF TypeOK, OneOwner, Unsent, Held, Refuse, send, MoveOut, Running
<1>3. Unsent'
  BY DEF TypeOK, Unsent, Refuse, send, MoveOut, Running
<1>4. QED
  BY <1>1, <1>2, <1>3

LEMMA SendAsyncInv ==
  ASSUME ExchangeInv, NEW x \in Exchanges, NEW p \in Places,
         send_async(x, p) \/ send_async_streaming(x, p)
  PROVE  ExchangeInv'
<1> USE DEF ExchangeInv
<1>1. TypeOK'
  BY DEF TypeOK, Unsent, send_async, send_async_streaming, MoveOut, Running,
         Calls, Results, NetStates
<1>2. OneOwner'
  BY ExchangeAssumption DEF TypeOK, OneOwner, Unsent, Held, send_async,
         send_async_streaming, MoveOut, Running
<1>3. Unsent'
  BY DEF TypeOK, Unsent, send_async, send_async_streaming, MoveOut, Running
<1>4. QED
  BY <1>1, <1>2, <1>3

\* Steps that move no box.
LEMMA StillInv ==
  ASSUME ExchangeInv, NEW x \in Exchanges,
         Make(x) \/ finish(x) \/ DropStream(x) \/ Answer(x) \/ Fail(x)
  PROVE  ExchangeInv'
<1> USE DEF ExchangeInv
<1> USE DEF Make, finish, DropStream, EndStream, Answer, Fail, Running, programVars
<1>1. TypeOK'
  BY DEF TypeOK, Unsent, Calls, Results, NetStates
<1>2. OneOwner'
  BY DEF TypeOK, OneOwner, Unsent, Held
<1>3. Unsent'
  BY DEF TypeOK, Unsent
<1>4. QED
  BY <1>1, <1>2, <1>3

LEMMA PollInv ==
  ASSUME ExchangeInv, NEW p \in Places, NEW q \in Places, poll(p, q)
  PROVE  ExchangeInv'
<1> USE DEF ExchangeInv
<1>1. TypeOK'
  BY DEF TypeOK, poll, Got, Ready, Running, Calls, Results, NetStates
<1>2. OneOwner'
  BY ExchangeAssumption DEF TypeOK, OneOwner, Held, poll, Got, Running
<1>3. Unsent'
  BY DEF TypeOK, OneOwner, Unsent, Held, poll, Got, Running
<1>4. QED
  BY <1>1, <1>2, <1>3

LEMMA BlockInv ==
  ASSUME ExchangeInv, NEW op \in {"wait", "select"}, NEW P \in SUBSET Places,
         P # {}, \A p \in P : box[p] # Empty, Block(op, P)
  PROVE  ExchangeInv'
<1> USE DEF ExchangeInv
<1>1. TypeOK'
  BY DEF TypeOK, Block, Running, Calls
<1>2. OneOwner'
  BY ExchangeAssumption DEF TypeOK, OneOwner, Held, Block, Running
<1>3. Unsent'
  BY DEF Unsent, Block
<1>4. QED
  BY <1>1, <1>2, <1>3

\* What Placed promises of a vector that select returns.
LEMMA PlacedBoxes ==
  ASSUME ExchangeInv, NEW S \in SUBSET vecreqs, box' \in Placed(S)
  PROVE  /\ box' \in [Places -> Exchanges \cup {Empty}]
         /\ \A p \in Places : box[p] # Empty => box'[p] = box[p]
         /\ \A p \in Places : box[p] = Empty => box'[p] \in S \cup {Empty}
         /\ \A y \in S : \E p \in Places : box[p] = Empty /\ box'[p] = y
         /\ \A p, q \in Places : box'[p] = box'[q] /\ box'[p] # Empty => p = q
<1>1. S \subseteq Exchanges /\ Empty \notin S
  BY ExchangeAssumption DEF ExchangeInv, TypeOK
<1>2. \A p \in Places : box[p] # Empty => box[p] \notin S
  BY DEF ExchangeInv, OneOwner
<1>3. /\ \A p \in Places : box[p] # Empty => box'[p] = box[p]
      /\ \A p \in Places : box[p] = Empty => box'[p] \in S \cup {Empty}
      /\ \A y \in S : \E p \in Places : box[p] = Empty /\ box'[p] = y
      /\ \A p, q \in Places :
           box[p] = Empty /\ box[q] = Empty /\ box'[p] = box'[q] /\ box'[p] \in S => p = q
  BY DEF Placed
<1>4. box' \in [Places -> Exchanges \cup {Empty}]
  BY <1>1, <1>3 DEF Placed, ExchangeInv, TypeOK
<1>5. \A p, q \in Places : box'[p] = box'[q] /\ box'[p] # Empty => p = q
  BY <1>1, <1>2, <1>3 DEF ExchangeInv, OneOwner
<1>6. QED
  BY <1>3, <1>4, <1>5

LEMMA ReturnInv ==
  ASSUME ExchangeInv, NEW x \in Exchanges, Return(x)
  PROVE  ExchangeInv'
<1> USE DEF ExchangeInv
<1>1. /\ vecreqs \ {x} \in SUBSET vecreqs /\ box' \in Placed(vecreqs \ {x})
      /\ x \in vecreqs /\ vecreqs' = {} /\ call' = "none" /\ Got(x) /\ Ready(x)
      /\ UNCHANGED <<alive, request, stream, net>>
  BY DEF Return, Chosen, Others
<1>2. /\ box' \in [Places -> Exchanges \cup {Empty}]
      /\ \A p \in Places : box[p] # Empty => box'[p] = box[p]
      /\ \A p \in Places : box[p] = Empty => box'[p] \in (vecreqs \ {x}) \cup {Empty}
      /\ \A p, q \in Places : box'[p] = box'[q] /\ box'[p] # Empty => p = q
  BY <1>1, PlacedBoxes
<1>3. TypeOK'
  BY <1>1, <1>2 DEF TypeOK, Got, Ready, Calls, Results, NetStates
<1>4. OneOwner'
  <2>1. \A y \in Exchanges : Held(y)' => Held(y) /\ y # x
    BY <1>1, <1>2, ExchangeAssumption DEF Held, OneOwner
  <2>2. \A y \in Exchanges : Held(y)' => request'[y] = "moved" /\ result'[y] = "none"
    BY <1>1, <2>1 DEF OneOwner, Got, TypeOK
  <2>3. QED
    BY <1>1, <1>2, <2>2 DEF OneOwner
<1>5. Unsent'
  BY <1>1 DEF TypeOK, OneOwner, Unsent, Held, Got
<1>6. QED
  BY <1>3, <1>4, <1>5

LEMMA DropInv ==
  ASSUME ExchangeInv, (\E p \in Places : DropPending(p)) \/ End
  PROVE  ExchangeInv'
<1> USE DEF ExchangeInv
<1>1. TypeOK'
  <2>1. CASE \E p \in Places : DropPending(p)
    BY <2>1 DEF TypeOK, DropPending, Running
  <2>2. CASE End
    BY <2>2 DEF TypeOK, End, Calls, NetStates
  <2>3. QED
    BY <2>1, <2>2
<1>2. OneOwner'
  BY ExchangeAssumption DEF TypeOK, OneOwner, Held, DropPending, End, Running
<1>3. Unsent'
  BY DEF TypeOK, Unsent, DropPending, End, Running
<1>4. QED
  BY <1>1, <1>2, <1>3

LEMMA StutterInv == ExchangeInv /\ UNCHANGED vars => ExchangeInv'
BY DEF ExchangeInv, TypeOK, OneOwner, Unsent, Held, vars

LEMMA NextInv == ExchangeInv /\ [Next]_vars => ExchangeInv'
<1> SUFFICES ASSUME ExchangeInv, Next PROVE ExchangeInv'
  BY StutterInv
<1>1. ASSUME NEW x \in Exchanges, Make(x) \/ finish(x) \/ DropStream(x) \/ Answer(x) \/ Fail(x)
      PROVE  ExchangeInv'
  BY <1>1, StillInv
<1>2. ASSUME NEW x \in Exchanges, Refuse(x) \/ send(x) PROVE ExchangeInv'
  BY <1>2, SendInv
<1>3. ASSUME NEW x \in Exchanges, NEW p \in Places,
             send_async(x, p) \/ send_async_streaming(x, p)
      PROVE  ExchangeInv'
  BY <1>3, SendAsyncInv
<1>4. ASSUME NEW x \in Exchanges, Return(x) PROVE ExchangeInv'
  BY <1>4, ReturnInv
<1>5. ASSUME NEW p \in Places, NEW q \in Places, poll(p, q) PROVE ExchangeInv'
  BY <1>5, PollInv
<1>6. ASSUME NEW p \in Places, wait(p) PROVE ExchangeInv'
  BY <1>6, BlockInv DEF wait
<1>7. ASSUME NEW P \in SUBSET Places, select(P) PROVE ExchangeInv'
  BY <1>7, BlockInv DEF select
<1>8. QED
  BY <1>1, <1>2, <1>3, <1>4, <1>5, <1>6, <1>7, DropInv DEF Next

LEMMA InvHolds == Spec => []ExchangeInv
<1>1. Init => ExchangeInv
  BY InitInv
<1>2. ExchangeInv /\ [Next]_vars => ExchangeInv'
  BY NextInv
<1>3. QED
  BY <1>1, <1>2, PTL DEF Spec

\* Calls that block have boxes, responses come from answered exchanges, and
\* the backend waits for open bodies only.
THEOREM ExchangeTypeCorrect == Spec => []TypeOK
<1>1. ExchangeInv => TypeOK
  BY DEF ExchangeInv
<1>2. QED
  BY <1>1, InvHolds, PTL

\* No box is in two objects, and no exchange is pending that has its result.
THEOREM OwnersAreAlone == Spec => []OneOwner
<1>1. ExchangeInv => OneOwner
  BY DEF ExchangeInv
<1>2. QED
  BY <1>1, InvHolds, PTL

-------------------------------------------------------------------------------
(* Calls that block can return.                                            *)

\* The boxes of S would fit into places that are empty, each into its own.
Fits(S) ==
  \E place \in [S -> Places] :
    /\ \A y \in S : box[place[y]] = Empty
    /\ \A y, z \in S : place[y] = place[z] => y = z

\* What was sent is with a backend; a request of send has no stream; the others
\* that a call has fit into the places that they came from.
CanReturnInv ==
  /\ ExchangeInv
  /\ \A x \in Exchanges : request[x] = "moved" /\ net[x] = "idle" => result[x] = "error"
  /\ call = "send" => \A x \in vecreqs : stream[x] = "none"
  /\ \A x \in vecreqs : Fits(Others(x))

LEMMA FitsIsPlaced ==
  ASSUME ExchangeInv, NEW S \in SUBSET vecreqs, Fits(S)
  PROVE  Placed(S) # {}
<1>1. PICK place \in [S -> Places] :
        /\ \A y \in S : box[place[y]] = Empty
        /\ \A y, z \in S : place[y] = place[z] => y = z
  BY DEF Fits
<1>2. S \subseteq Exchanges /\ Empty \notin S
  BY ExchangeAssumption DEF ExchangeInv, TypeOK
<1> DEFINE taken == {place[y] : y \in S}
           b == [p \in Places |-> IF p \in taken THEN CHOOSE y \in S : place[y] = p ELSE box[p]]
<1>3. \A y \in S : place[y] \in taken /\ b[place[y]] = y
  BY <1>1
<1>4. \A p \in Places \ taken : b[p] = box[p]
  OBVIOUS
<1>5. \A p \in taken : p \in Places /\ box[p] = Empty /\ b[p] \in S /\ place[b[p]] = p
  BY <1>1
<1>6. b \in [Places -> S \cup {box[p] : p \in Places}]
  BY <1>4, <1>5
<1> HIDE DEF b, taken
<1>7. \A p \in Places : box[p] # Empty => b[p] = box[p]
  BY <1>4, <1>5
<1>8. \A p \in Places : box[p] = Empty => b[p] \in S \cup {Empty}
  BY <1>4, <1>5
<1>9. \A y \in S : \E p \in Places : box[p] = Empty /\ b[p] = y
  BY <1>1, <1>3
<1>10. \A p, q \in Places : box[p] = Empty /\ box[q] = Empty /\ b[p] = b[q] /\ b[p] \in S => p = q
  BY <1>2, <1>4, <1>5
<1>11. b \in Placed(S)
  BY <1>6, <1>7, <1>8, <1>9, <1>10 DEF Placed
<1> QED
  BY <1>11

LEMMA CanReturnInit == Init => CanReturnInv
BY InitInv DEF Init, CanReturnInv

\* While a call blocks, the places and its boxes stay as they are.
LEMMA FitsFrame ==
  ASSUME CanReturnInv, UNCHANGED <<box, vecreqs>>
  PROVE  \A x \in vecreqs' : Fits(Others(x))'
<1> SUFFICES ASSUME NEW x \in vecreqs'
             PROVE  Fits(Others(x))'
  OBVIOUS
<1>1. x \in vecreqs /\ Others(x)' = Others(x)
  BY DEF Others
<1>2. Fits(Others(x))
  BY <1>1 DEF CanReturnInv
<1> QED
  BY <1>1, <1>2 DEF Fits

LEMMA BlockedFits ==
  ASSUME ExchangeInv, NEW op, NEW P \in SUBSET Places, \A p \in P : box[p] # Empty, Block(op, P)
  PROVE  \A x \in vecreqs' : Fits(Others(x))'
<1> SUFFICES ASSUME NEW x \in vecreqs'
             PROVE  Fits(Others(x))'
  OBVIOUS
<1>1. vecreqs' = {box[p] : p \in P} /\ \A p \in P : box'[p] = Empty
  BY DEF Block
<1> DEFINE place == [y \in vecreqs' \ {x} |-> CHOOSE p \in P : box[p] = y]
<1>2. \A y \in vecreqs' \ {x} : place[y] \in P /\ box[place[y]] = y
  BY <1>1
<1>3. place \in [vecreqs' \ {x} -> Places]
  BY <1>2
<1> HIDE DEF place
<1>4. \A y \in vecreqs' \ {x} : box'[place[y]] = Empty
  BY <1>1, <1>2
<1>5. \A y, z \in vecreqs' \ {x} : place[y] = place[z] => y = z
  BY <1>2
<1>6. Others(x)' = vecreqs' \ {x}
  BY DEF Others
<1> QED
  BY <1>3, <1>4, <1>5, <1>6 DEF Fits

LEMMA CanReturnStep ==
  ASSUME CanReturnInv, Next
  PROVE  CanReturnInv'
<1>1. ExchangeInv'
  BY NextInv DEF CanReturnInv
<1> DEFINE SentOut == \A x \in Exchanges : request[x] = "moved" /\ net[x] = "idle" => result[x] = "error"
           SendAlone == call = "send" => \A x \in vecreqs : stream[x] = "none"
           Room == \A x \in vecreqs : Fits(Others(x))
<1>2. SentOut /\ SendAlone /\ Room /\ ExchangeInv
  BY DEF CanReturnInv
<1>3. TypeOK /\ OneOwner /\ Unsent
  BY DEF CanReturnInv, ExchangeInv
<1>4. SentOut' /\ SendAlone' /\ Room' => CanReturnInv'
  BY <1>1 DEF CanReturnInv
<1>5. ASSUME NEW x \in Exchanges, Make(x) \/ Refuse(x) PROVE CanReturnInv'
  <2>1. SentOut'
    BY <1>2, <1>3, <1>5 DEF Make, Refuse, MoveOut, TypeOK
  <2>2. SendAlone'
    BY <1>2, <1>5 DEF Make, Refuse
  <2>3. Room'
    BY <1>5, FitsFrame DEF Make, Refuse
  <2> QED
    BY <1>4, <2>1, <2>2, <2>3
<1>6. ASSUME NEW x \in Exchanges, send(x) PROVE CanReturnInv'
  <2>1. SentOut'
    BY <1>2, <1>3, <1>6 DEF send, MoveOut, TypeOK
  <2>2. SendAlone'
    BY <1>3, <1>6 DEF send, MoveOut, Unsent, TypeOK
  <2>3. Room'
    <3>1. vecreqs' = {x}
      BY <1>6 DEF send
    <3>2. ASSUME NEW y \in vecreqs' PROVE Fits(Others(y))'
      <4>1. Others(y)' = {}
        BY <3>1, <3>2 DEF Others
      <4>2. [z \in {} |-> z] \in [{} -> Places]
        OBVIOUS
      <4> QED
        BY <4>1, <4>2 DEF Fits
    <3> QED
      BY <3>2
  <2> QED
    BY <1>4, <2>1, <2>2, <2>3
<1>7. ASSUME NEW x \in Exchanges, NEW p \in Places,
             send_async(x, p) \/ send_async_streaming(x, p)
      PROVE  CanReturnInv'
  <2>1. SentOut'
    BY <1>2, <1>3, <1>7 DEF send_async, send_async_streaming, MoveOut, TypeOK
  <2>2. call' = "none" /\ vecreqs' = {}
    BY <1>3, <1>7 DEF send_async, send_async_streaming, MoveOut, Running, TypeOK
  <2> QED
    BY <1>4, <2>1, <2>2
<1>8. ASSUME NEW x \in Exchanges, finish(x) \/ DropStream(x) \/ Answer(x) \/ Fail(x)
      PROVE  CanReturnInv'
  <2> USE DEF finish, DropStream, EndStream, Answer, Fail, programVars, Running
  <2>1. SentOut'
    BY <1>2, <1>3, <1>8 DEF TypeOK
  <2>2. SendAlone'
    BY <1>2, <1>8
  <2>3. Room'
    BY <1>8, FitsFrame
  <2> QED
    BY <1>4, <2>1, <2>2, <2>3
<1>9. ASSUME NEW x \in Exchanges, Return(x) PROVE CanReturnInv'
  <2>1. SentOut'
    BY <1>2, <1>3, <1>9 DEF Return, Chosen, Got, Ready, TypeOK
  <2>2. call' = "none" /\ vecreqs' = {}
    BY <1>9 DEF Return
  <2> QED
    BY <1>4, <2>1, <2>2
<1>10. ASSUME NEW p \in Places, NEW q \in Places, poll(p, q) PROVE CanReturnInv'
  <2>1. SentOut'
    BY <1>2, <1>3, <1>10 DEF poll, Got, Ready, Running, TypeOK
  <2>2. call' = "none" /\ vecreqs' = {}
    BY <1>3, <1>10 DEF poll, Running, TypeOK
  <2> QED
    BY <1>4, <2>1, <2>2
<1>11. ASSUME NEW op \in {"wait", "select"}, NEW P \in SUBSET Places,
              \A p \in P : box[p] # Empty, Block(op, P)
       PROVE  CanReturnInv'
  <2>1. SentOut' /\ SendAlone'
    BY <1>2, <1>11 DEF Block
  <2> QED
    BY <1>2, <1>4, <1>11, <2>1, BlockedFits
<1>12. ASSUME NEW p \in Places, DropPending(p) PROVE CanReturnInv'
  <2>1. SentOut'
    BY <1>2, <1>12 DEF DropPending
  <2>2. call' = "none" /\ vecreqs' = {}
    BY <1>3, <1>12 DEF DropPending, Running, TypeOK
  <2> QED
    BY <1>4, <2>1, <2>2
<1>13. ASSUME End PROVE CanReturnInv'
  <2>1. SentOut'
    BY <1>2, <1>3, <1>13 DEF End, TypeOK
  <2>2. call' = "none" /\ vecreqs' = {}
    BY <1>13 DEF End
  <2> QED
    BY <1>4, <2>1, <2>2
<1>14. ASSUME NEW p \in Places, wait(p) PROVE CanReturnInv'
  BY <1>11, <1>14 DEF wait
<1>15. ASSUME NEW P \in SUBSET Places, select(P) PROVE CanReturnInv'
  BY <1>11, <1>15 DEF select
<1> QED
  BY <1>5, <1>6, <1>7, <1>8, <1>9, <1>10, <1>12, <1>13, <1>14, <1>15 DEF Next

\* Whatever requests a call of send, wait or select is given, each of them can
\* still come to an end, save one whose body the program itself holds back, and
\* the call can return with any that has.
THEOREM BlockedCanReturn == Spec => []CallsCanReturn
<1>1. ASSUME CanReturnInv PROVE CallsCanReturn
  <2> SUFFICES ASSUME NEW x \in vecreqs
               PROVE  /\ \/ Ready(x)
                         \/ net[x] \in {"sent", "cut"}
                         \/ net[x] = "streaming" /\ stream[x] = "open" /\ call # "send"
                      /\ Placed(Others(x)) # {}
    BY DEF CallsCanReturn
  <2>1. ExchangeInv /\ TypeOK /\ x \in Exchanges /\ request[x] = "moved" /\ result[x] = "none"
    BY <1>1 DEF CanReturnInv, ExchangeInv, OneOwner, TypeOK, Held
  <2>2. net[x] \in NetStates /\ net[x] # "idle" /\ (net[x] = "streaming" => stream[x] = "open")
    BY <1>1, <2>1 DEF CanReturnInv, TypeOK
  <2>3. call = "send" => stream[x] = "none"
    BY <1>1 DEF CanReturnInv
  <2>4. Placed(Others(x)) # {}
    BY <1>1, FitsIsPlaced DEF CanReturnInv, Others
  <2> QED
    BY <2>2, <2>3, <2>4 DEF Ready, NetStates
<1>2. CanReturnInv /\ [Next]_vars => CanReturnInv'
  <2>1. ASSUME CanReturnInv, UNCHANGED vars
        PROVE  CanReturnInv'
    <3>1. UNCHANGED <<box, vecreqs, request, net, result, call, stream>>
      BY <2>1 DEF vars
    <3> QED
      BY <2>1, <3>1, StutterInv, FitsFrame DEF CanReturnInv, vars
  <2> QED
    BY <2>1, CanReturnStep
<1> QED
  BY CanReturnInit, <1>1, <1>2, PTL DEF Spec

-------------------------------------------------------------------------------
(* HttpExchange implements Answers.                                        *)

Outcomes == [x \in Exchanges |-> Outcome(x)]
Answered == {x \in Exchanges : net[x] = "answered"}
Failed == {x \in Exchanges : net[x] = "failed"}

\* A step that the program does not see.
LEMMA SameOutcomes ==
  ASSUME ExchangeInv, ExchangeInv', UNCHANGED result,
         \A x \in Exchanges : (request[x] = "moved" <=> request'[x] = "moved")
                               /\ (Held(x) <=> Held(x)')
  PROVE  Outcomes' = Outcomes
<1>1. \A x \in Exchanges : Outcome(x)' = Outcome(x)
  BY DEF Outcome
<1>2. QED
  BY <1>1 DEF Outcomes

\* A step that brings one exchange on.
LEMMA OneOutcome ==
  ASSUME NEW x \in Exchanges, NEW from, NEW to,
         Outcome(x) = from, Outcome(x)' = to,
         \A y \in Exchanges \ {x} : Outcome(y)' = Outcome(y),
         Answered' = Answered, Failed' = Failed
  PROVE  Promise!Comes(x, from, to)
BY DEF Promise!Comes, Answered, Failed

LEMMA SameNet == UNCHANGED net => Answered' = Answered /\ Failed' = Failed
BY DEF Answered, Failed

LEMMA InitAnswers == Init => Promise!AnswersInit
BY DEF Init, Promise!AnswersInit, Outcome

LEMMA MakeStep ==
  ASSUME ExchangeInv, ExchangeInv', NEW x \in Exchanges, Make(x)
  PROVE  Outcomes' = Outcomes /\ Answered' = Answered /\ Failed' = Failed
<1>1. UNCHANGED <<result, box, vecreqs, net>> /\ request' = [request EXCEPT ![x] = "made"]
      /\ request[x] = "none"
  BY DEF Make
<1>2. \A y \in Exchanges : (request[y] = "moved" <=> request'[y] = "moved")
                            /\ (Held(y) <=> Held(y)')
  BY <1>1 DEF Held, ExchangeInv, TypeOK
<1>3. QED
  BY <1>1, <1>2, SameOutcomes, SameNet

\* finish, the end of an unfinished body, and the backends.
LEMMA NetStep ==
  ASSUME ExchangeInv, ExchangeInv', NEW x \in Exchanges,
         finish(x) \/ DropStream(x) \/ Answer(x) \/ Fail(x)
  PROVE  /\ Outcomes' = Outcomes
         /\ Promise!Answer(x) \/ (Answered' = Answered /\ Failed' = Failed)
<1>1. UNCHANGED <<request, result, box, vecreqs>>
  BY DEF finish, DropStream, EndStream, Answer, Fail, programVars
<1>2. Outcomes' = Outcomes
  BY <1>1, SameOutcomes DEF Held
<1>3. CASE Answer(x)
  <2>1. Answered' = Answered \cup {x} /\ Failed' = Failed /\ x \notin Answered \cup Failed
    BY <1>3 DEF Answer, Answered, Failed, ExchangeInv, TypeOK
  <2>2. QED
    BY <1>2, <2>1 DEF Promise!Answer, Answered, Failed, Outcomes
<1>4. CASE Fail(x)
  <2>1. Answered' = Answered /\ Failed' = Failed \cup {x} /\ x \notin Answered \cup Failed
    BY <1>4 DEF Fail, Answered, Failed, ExchangeInv, TypeOK
  <2>2. QED
    BY <1>2, <2>1 DEF Promise!Answer, Answered, Failed, Outcomes
<1>5. CASE finish(x) \/ DropStream(x)
  <2>1. Answered' = Answered /\ Failed' = Failed
    BY <1>5 DEF finish, DropStream, EndStream, Answered, Failed, ExchangeInv, TypeOK
  <2>2. QED
    BY <1>2, <2>1
<1>6. QED
  BY <1>3, <1>4, <1>5

LEMMA RefuseStep ==
  ASSUME ExchangeInv, ExchangeInv', NEW x \in Exchanges, Refuse(x)
  PROVE  Promise!Refuse(x)
<1>1. /\ request[x] = "made" /\ request' = [request EXCEPT ![x] = "moved"]
      /\ result' = [result EXCEPT ![x] = "error"]
      /\ UNCHANGED <<box, vecreqs, net>>
  BY DEF Refuse, MoveOut
<1>2. Outcome(x) = "unsent" /\ Outcome(x)' = "error"
  BY <1>1 DEF Outcome, ExchangeInv, Unsent, TypeOK
<1>3. \A y \in Exchanges \ {x} : Outcome(y)' = Outcome(y)
  BY <1>1 DEF Outcome, Held, ExchangeInv, TypeOK
<1>4. QED
  BY <1>1, <1>2, <1>3, OneOutcome, SameNet DEF Promise!Refuse

LEMMA BeginStep ==
  ASSUME ExchangeInv, ExchangeInv', NEW x \in Exchanges,
         send(x) \/ \E p \in Places : send_async(x, p) \/ send_async_streaming(x, p)
  PROVE  Promise!Begin(x)
<1>1. /\ request[x] = "made" /\ request' = [request EXCEPT ![x] = "moved"]
      /\ UNCHANGED result
      /\ net' = [net EXCEPT ![x] = "sent"] \/ net' = [net EXCEPT ![x] = "streaming"]
  BY DEF send, send_async, send_async_streaming, MoveOut
<1>2. Held(x)' /\ \A y \in Exchanges \ {x} : Held(y)' <=> Held(y)
  <2>1. CASE send(x)
    BY <2>1 DEF send, Held, MoveOut, Running, ExchangeInv, TypeOK
  <2>2. CASE \E p \in Places : send_async(x, p) \/ send_async_streaming(x, p)
    <3>1. PICK p \in Places : /\ box[p] = Empty /\ box' = [box EXCEPT ![p] = x]
                              /\ UNCHANGED vecreqs
      BY <2>2 DEF send_async, send_async_streaming
    <3>2. QED
      BY <3>1, ExchangeAssumption DEF Held, ExchangeInv, TypeOK
  <2>3. QED
    BY <2>1, <2>2
<1>3. Outcome(x) = "unsent" /\ Outcome(x)' = "pending"
  BY <1>1, <1>2 DEF Outcome, ExchangeInv, Unsent, TypeOK
<1>4. \A y \in Exchanges \ {x} : Outcome(y)' = Outcome(y)
  BY <1>1, <1>2 DEF Outcome, ExchangeInv, TypeOK
<1>5. Answered' = Answered /\ Failed' = Failed
  BY <1>1 DEF Answered, Failed, ExchangeInv, Unsent, TypeOK
<1>6. QED
  BY <1>3, <1>4, <1>5, OneOutcome DEF Promise!Begin

\* A result reaches the program.
LEMMA DeliverStep ==
  ASSUME ExchangeInv, ExchangeInv', NEW x \in Exchanges, Held(x), Ready(x), Got(x),
         UNCHANGED <<request, net>>,
         \A y \in Exchanges \ {x} : Held(y)' <=> Held(y)
  PROVE  Promise!Deliver(x)
<1>1. Outcome(x) = "pending" /\ request[x] = "moved"
  BY DEF Outcome, ExchangeInv, OneOwner
<1>2. \A y \in Exchanges \ {x} : Outcome(y)' = Outcome(y)
  BY DEF Outcome, Got, ExchangeInv, TypeOK
<1>3. CASE net[x] = "answered"
  <2>1. Outcome(x)' = "response"
    BY <1>3 DEF Outcome, Got, ExchangeInv, TypeOK
  <2>2. QED
    BY <1>1, <1>2, <1>3, <2>1, OneOutcome, SameNet DEF Promise!Deliver
<1>4. CASE net[x] = "failed"
  <2>1. Outcome(x)' = "error"
    BY <1>4 DEF Outcome, Got, ExchangeInv, TypeOK
  <2>2. QED
    BY <1>1, <1>2, <1>4, <2>1, OneOutcome, SameNet DEF Promise!Deliver
<1>5. QED
  BY <1>3, <1>4 DEF Ready

LEMMA PollStep ==
  ASSUME ExchangeInv, ExchangeInv', NEW p \in Places, NEW q \in Places, poll(p, q)
  PROVE  \/ \E x \in Exchanges : Promise!Deliver(x)
         \/ Outcomes' = Outcomes /\ Answered' = Answered /\ Failed' = Failed
<1>1. UNCHANGED <<request, vecreqs, net>> /\ box[p] \in Exchanges
  BY DEF poll, ExchangeInv, TypeOK
<1>2. CASE Ready(box[p])
  <2>1. Got(box[p]) /\ box' = [box EXCEPT ![p] = Empty]
    BY <1>2 DEF poll
  <2>2. \A y \in Exchanges \ {box[p]} : Held(y)' <=> Held(y)
    BY <1>1, <2>1, ExchangeAssumption DEF Held, ExchangeInv, TypeOK
  <2>3. Held(box[p])
    BY DEF Held
  <2>4. QED
    BY <1>1, <1>2, <2>1, <2>2, <2>3, DeliverStep
<1>3. CASE ~Ready(box[p])
  <2>1. /\ box' = [box EXCEPT ![p] = Empty, ![q] = box[p]] /\ UNCHANGED result
        /\ q = p \/ box[q] = Empty
    BY <1>3 DEF poll
  <2>2. \A y \in Exchanges : Held(y)' <=> Held(y)
    BY <1>1, <2>1, ExchangeAssumption DEF Held, ExchangeInv, TypeOK
  <2>3. QED
    BY <1>1, <2>1, <2>2, SameOutcomes, SameNet
<1>4. QED
  BY <1>2, <1>3

LEMMA BlockStep ==
  ASSUME ExchangeInv, ExchangeInv', NEW op, NEW P \in SUBSET Places,
         \A p \in P : box[p] # Empty, Block(op, P)
  PROVE  Outcomes' = Outcomes /\ Answered' = Answered /\ Failed' = Failed
<1>1. /\ UNCHANGED <<request, result, net>> /\ vecreqs = {}
      /\ vecreqs' = {box[p] : p \in P}
      /\ box' = [p \in Places |-> IF p \in P THEN Empty ELSE box[p]]
  BY DEF Block, Running, ExchangeInv, TypeOK
<1>2. \A y \in Exchanges : Held(y)' <=> Held(y)
  BY <1>1, ExchangeAssumption DEF Held
<1>3. QED
  BY <1>1, <1>2, SameOutcomes, SameNet

LEMMA ReturnStep ==
  ASSUME ExchangeInv, ExchangeInv', NEW x \in Exchanges, Return(x)
  PROVE  Promise!Deliver(x)
<1>1. /\ vecreqs \ {x} \in SUBSET vecreqs /\ box' \in Placed(vecreqs \ {x})
      /\ x \in vecreqs /\ vecreqs' = {} /\ Got(x) /\ Ready(x)
      /\ UNCHANGED <<request, net>>
  BY DEF Return, Chosen, Others
<1>2. /\ \A p \in Places : box[p] # Empty => box'[p] = box[p]
      /\ \A p \in Places : box[p] = Empty => box'[p] \in (vecreqs \ {x}) \cup {Empty}
      /\ \A y \in vecreqs \ {x} : \E p \in Places : box[p] = Empty /\ box'[p] = y
  BY <1>1, PlacedBoxes
<1>3. \A y \in Exchanges \ {x} : Held(y)' <=> Held(y)
  <2> SUFFICES ASSUME NEW y \in Exchanges \ {x} PROVE Held(y)' <=> Held(y)
    OBVIOUS
  <2>1. ASSUME Held(y) PROVE Held(y)'
    BY <1>1, <1>2, <2>1, ExchangeAssumption DEF Held
  <2>2. ASSUME Held(y)' PROVE Held(y)
    BY <1>1, <1>2, <2>2, ExchangeAssumption DEF Held
  <2>3. QED
    BY <2>1, <2>2
<1>4. QED
  BY <1>1, <1>3, DeliverStep DEF Held

LEMMA DropStep ==
  ASSUME ExchangeInv, ExchangeInv', NEW p \in Places, DropPending(p)
  PROVE  \E x \in Exchanges : Promise!Abandon(x)
<1>1. PICK x \in Exchanges :
        /\ box[p] = x /\ box' = [box EXCEPT ![p] = Empty]
        /\ UNCHANGED <<request, result, vecreqs, net>>
  BY DEF DropPending, ExchangeInv, TypeOK
<1>2. Held(x) /\ ~Held(x)'
  <2>1. x \notin vecreqs /\ \A q \in Places : box[q] = x => q = p
    BY <1>1, ExchangeAssumption DEF ExchangeInv, OneOwner
  <2>2. QED
    BY <1>1, <2>1, ExchangeAssumption DEF Held, ExchangeInv, TypeOK
<1>3. \A y \in Exchanges \ {x} : Held(y)' <=> Held(y)
  BY <1>1, ExchangeAssumption DEF Held, ExchangeInv, TypeOK
<1>4. Outcome(x) = "pending" /\ Outcome(x)' = "abandoned"
  <2>1. request[x] = "moved" /\ result[x] = "none"
    BY <1>2 DEF ExchangeInv, OneOwner
  <2>2. QED
    BY <1>1, <1>2, <2>1 DEF Outcome
<1>5. \A y \in Exchanges \ {x} : Outcome(y)' = Outcome(y)
  BY <1>1, <1>3 DEF Outcome
<1>6. QED
  BY <1>1, <1>4, <1>5, OneOutcome, SameNet DEF Promise!Abandon

LEMMA EndStep ==
  ASSUME ExchangeInv, ExchangeInv', End
  PROVE  Promise!Quit
<1>1. /\ UNCHANGED <<request, result>>
      /\ net' = [x \in Exchanges |-> IF net[x] = "streaming" THEN "cut" ELSE net[x]]
      /\ \A x \in Exchanges : ~Held(x)'
  BY ExchangeAssumption DEF End, Held
<1>2. Answered' = Answered /\ Failed' = Failed
  BY <1>1 DEF Answered, Failed
<1>3. \A x \in Exchanges :
        Outcome(x)' = IF Outcome(x) = "pending" THEN "abandoned" ELSE Outcome(x)
  BY <1>1 DEF Outcome, ExchangeInv, TypeOK, Results
<1>4. QED
  BY <1>2, <1>3 DEF Promise!Quit, Answered, Failed

LEMMA StepImplements ==
  ASSUME ExchangeInv, ExchangeInv', [Next]_vars
  PROVE  [Promise!AnswersNext]_<<Outcomes, Answered, Failed>>
<1>1. ASSUME NEW x \in Exchanges, Make(x)
      PROVE  Outcomes' = Outcomes /\ Answered' = Answered /\ Failed' = Failed
  BY <1>1, MakeStep
<1>2. ASSUME NEW x \in Exchanges, finish(x) \/ DropStream(x) \/ Answer(x) \/ Fail(x)
      PROVE  [Promise!AnswersNext]_<<Outcomes, Answered, Failed>>
  BY <1>2, NetStep DEF Promise!AnswersNext
<1>3. ASSUME NEW x \in Exchanges, Refuse(x) PROVE Promise!AnswersNext
  BY <1>3, RefuseStep DEF Promise!AnswersNext
<1>4. ASSUME NEW x \in Exchanges,
             send(x) \/ \E p \in Places : send_async(x, p) \/ send_async_streaming(x, p)
      PROVE  Promise!AnswersNext
  BY <1>4, BeginStep DEF Promise!AnswersNext
<1>5. ASSUME NEW x \in Exchanges, Return(x) PROVE Promise!AnswersNext
  BY <1>5, ReturnStep DEF Promise!AnswersNext
<1>6. ASSUME NEW p \in Places, NEW q \in Places, poll(p, q)
      PROVE  [Promise!AnswersNext]_<<Outcomes, Answered, Failed>>
  BY <1>6, PollStep DEF Promise!AnswersNext
<1>7. ASSUME NEW p \in Places, wait(p)
      PROVE  Outcomes' = Outcomes /\ Answered' = Answered /\ Failed' = Failed
  BY <1>7, BlockStep DEF wait
<1>8. ASSUME NEW P \in SUBSET Places, select(P)
      PROVE  Outcomes' = Outcomes /\ Answered' = Answered /\ Failed' = Failed
  BY <1>8, BlockStep DEF select
<1>9. ASSUME NEW p \in Places, DropPending(p) PROVE Promise!AnswersNext
  BY <1>9, DropStep DEF Promise!AnswersNext
<1>10. ASSUME End PROVE Promise!AnswersNext
  BY <1>10, EndStep DEF Promise!AnswersNext
<1>11. ASSUME UNCHANGED vars
       PROVE  Outcomes' = Outcomes /\ Answered' = Answered /\ Failed' = Failed
  BY <1>11, SameOutcomes, SameNet DEF vars, Held
<1>12. QED
  BY <1>1, <1>2, <1>3, <1>4, <1>5, <1>6, <1>7, <1>8, <1>9, <1>10, <1>11 DEF Next

\* Every request comes to one result, that of its own exchange, unless the
\* program drops it or ends.
THEOREM EveryRequestAnswered == Spec => IsAnswers
<1>1. Init => Promise!AnswersInit
  BY InitAnswers
<1>2. ExchangeInv /\ ExchangeInv' /\ [Next]_vars
        => [Promise!AnswersNext]_<<Outcomes, Answered, Failed>>
  BY StepImplements
<1>3. QED
  BY <1>1, <1>2, InvHolds, PTL DEF Spec, IsAnswers, Promise!AnswersSpec,
     Outcomes, Answered, Failed

===============================================================================
