------------------------ MODULE CacheTransaction_proofs ------------------------
(***************************************************************************)
(* The invariants of CacheTransaction hold for any number of instances,    *)
(* lookups, keys and bodies.                                               *)
(***************************************************************************)
EXTENDS CacheTransaction, TLAPS

\* Only a handle that the host has answered is obliged to anything: an
\* obligation never outlives its handle.
ObligationsAreOpen == \A t \in obliged : handle[t] = "open"

\* No two StreamingBody objects write to the same body.
WritersAreDistinct ==
  \A t, u \in Txs : writing[t] = writing[u] /\ writing[t] # NoBody => t = u

\* TypeOK says that a StreamingBody writes to a body that is being streamed,
\* which needs WritersAreDistinct when another one ends; HandlesAreHeld and
\* OneSetterPerKey need ObligationsAreOpen when a place is used again.
CacheInv ==
  /\ TypeOK
  /\ ObjectsHaveHandles
  /\ HandlesAreHeld
  /\ ObligationsAreOpen
  /\ OneSetterPerKey
  /\ WritersAreDistinct

-------------------------------------------------------------------------------

LEMMA CacheInit == Init => CacheInv
<1> SUFFICES ASSUME Init PROVE CacheInv
  OBVIOUS
<1>1. TypeOK
  BY CacheAssumption DEF Init, TypeOK, BodyStates, Holders
<1> QED
  BY <1>1 DEF Init, CacheInv, ObjectsHaveHandles, HandlesAreHeld,
              ObligationsAreOpen, OneSetterPerKey, WritersAreDistinct

LEMMA CacheStutters == CacheInv /\ UNCHANGED vars => CacheInv'
BY DEF vars, CacheInv, TypeOK, Streams, ObjectsHaveHandles, HandlesAreHeld,
       ObligationsAreOpen, OneSetterPerKey, WritersAreDistinct

\* Every step keeps the invariant, in whatever order programs take them.
LEMMA CacheStep ==
  ASSUME CacheInv, Next
  PROVE  CacheInv'
<1> USE DEF CacheInv, TypeOK, ObjectsHaveHandles, HandlesAreHeld,
            ObligationsAreOpen, OneSetterPerKey, WritersAreDistinct,
            hostVars, bodyVars, Bodies, NoBody, BodyStates, Streams, Holders
<1>1. ASSUME NEW k \in Keys, Expire(k)
      PROVE  CacheInv'
  BY <1>1 DEF Expire, Fresh
<1>2. ASSUME NEW k \in Keys, Purge(k)
      PROVE  CacheInv'
  BY <1>2 DEF Purge
<1>3. ASSUME NEW t \in Txs, Resolve(t)
      PROVE  CacheInv'
  BY <1>3 DEF Resolve, BeingSet
<1>4. ASSUME NEW t \in Txs, NEW k \in Keys, NEW h \in {"call", "busy"}, StartLookup(t, k, h)
      PROVE  CacheInv'
  <2> USE <1>4 DEF StartLookup, Idle
  <2>1. TypeOK'
    OBVIOUS
  <2>2. ObjectsHaveHandles' /\ HandlesAreHeld'
    OBVIOUS
  <2>3. ObligationsAreOpen' /\ OneSetterPerKey' /\ WritersAreDistinct'
    OBVIOUS
  <2> HIDE DEF TypeOK, ObjectsHaveHandles, HandlesAreHeld, ObligationsAreOpen,
               OneSetterPerKey, WritersAreDistinct
  <2> QED
    BY <2>1, <2>2, <2>3
<1>5. ASSUME NEW t \in Txs, NEW h \in {"call", "busy"}, FinishLookup(t, h)
      PROVE  CacheInv'
  <2> USE <1>5 DEF FinishLookup
  <2>1. TypeOK'
    OBVIOUS
  <2>2. ObjectsHaveHandles' /\ HandlesAreHeld'
    OBVIOUS
  <2>3. ObligationsAreOpen' /\ OneSetterPerKey' /\ WritersAreDistinct'
    OBVIOUS
  <2> HIDE DEF TypeOK, ObjectsHaveHandles, HandlesAreHeld, ObligationsAreOpen,
               OneSetterPerKey, WritersAreDistinct
  <2> QED
    BY <2>1, <2>2, <2>3
<1>6. ASSUME NEW t \in Txs, NEW h \in {"call", "busy"}, FailLookup(t, h)
      PROVE  CacheInv'
  BY <1>6 DEF FailLookup
<1>7. ASSUME NEW t \in Txs, NEW r \in Holders, Share(t, r)
      PROVE  CacheInv'
  BY <1>7 DEF Share
<1>8. ASSUME NEW t \in Txs, NEW r \in Holders, DropRef(t, r)
      PROVE  CacheInv'
  BY <1>8 DEF DropRef, Drop, Closed
<1>9. ASSUME NEW t \in Txs, cancel_insert_or_update(t)
      PROVE  CacheInv'
  BY <1>9 DEF cancel_insert_or_update
<1>10. ASSUME NEW t \in Txs, NEW streamBack \in BOOLEAN, Insert(t, streamBack)
      PROVE  CacheInv'
  BY <1>10 DEF Insert, Store, Unused
<1>11. ASSUME NEW t \in Txs, Update(t)
      PROVE  CacheInv'
  BY <1>11 DEF Update
<1>12. ASSUME NEW t \in Txs, NEW state \in {"complete", "broken"}, EndBody(t, state)
      PROVE  CacheInv'
  BY <1>12 DEF EndBody
<1>13. ASSUME NEW t \in Txs, NEW b \in Bodies, to_stream(t, b)
      PROVE  CacheInv'
  BY <1>13 DEF to_stream
<1>14. ASSUME NEW t \in Txs, DropBack(t)
      PROVE  CacheInv'
  BY <1>14 DEF DropBack
<1>15. ASSUME NEW t \in Txs, DropBody(t)
      PROVE  CacheInv'
  BY <1>15 DEF DropBody
<1>16. ASSUME NEW t \in Txs, NEW k \in Keys, PlainInsert(t, k)
      PROVE  CacheInv'
  BY <1>16 DEF PlainInsert, Store, Unused, Idle
<1>17. ASSUME NEW t \in Txs, NEW k \in Keys, PlainLookup(t, k)
      PROVE  CacheInv'
  <2> USE <1>17 DEF PlainLookup, Idle
  <2>1. TypeOK'
    OBVIOUS
  <2>2. ObjectsHaveHandles' /\ HandlesAreHeld'
    <3>1. ObjectsHaveHandles'
      OBVIOUS
    <3>2. t \in lost' \/ refs'[t] # {}
      <4>1. refs'[t] = {"found"} \/ t \in lost'
        OBVIOUS
      <4> QED
        BY ONLY <4>1
    <3>3. \A u \in Txs \ {t} : /\ handle'[u] = handle[u]
                             /\ refs'[u] = refs[u]
                             /\ u \in lost => u \in lost'
      OBVIOUS
    <3> QED
      BY <3>1, <3>2, <3>3
  <2>3. ObligationsAreOpen' /\ OneSetterPerKey' /\ WritersAreDistinct'
    OBVIOUS
  <2> HIDE DEF TypeOK, ObjectsHaveHandles, HandlesAreHeld, ObligationsAreOpen,
               OneSetterPerKey, WritersAreDistinct
  <2> QED
    BY <2>1, <2>2, <2>3
<1>18. ASSUME NEW T \in SUBSET Txs, EndOf(T)
      PROVE  CacheInv'
  <2> USE <1>18 DEF EndOf, Closed
  <2>1. TypeOK'
    OBVIOUS
  <2>2. ObjectsHaveHandles' /\ HandlesAreHeld'
    <3>1. \A u \in T : handle'[u] = "none" /\ refs'[u] = {}
      OBVIOUS
    <3>2. \A u \in Txs \ T : /\ handle'[u] = handle[u]
                           /\ refs'[u] = refs[u]
                           /\ u \in lost => u \in lost'
      OBVIOUS
    <3> QED
      BY <3>1, <3>2
  <2>3. ObligationsAreOpen' /\ OneSetterPerKey' /\ WritersAreDistinct'
    OBVIOUS
  <2> HIDE DEF TypeOK, ObjectsHaveHandles, HandlesAreHeld, ObligationsAreOpen,
               OneSetterPerKey, WritersAreDistinct
  <2> QED
    BY <2>1, <2>2, <2>3
<1> HIDE DEF CacheInv, TypeOK, ObjectsHaveHandles, HandlesAreHeld,
             ObligationsAreOpen, OneSetterPerKey, WritersAreDistinct
<1> QED
  BY <1>1, <1>2, <1>3, <1>4, <1>5, <1>6, <1>7, <1>8, <1>9,
     <1>10, <1>11, <1>12, <1>13, <1>14, <1>15, <1>16, <1>17, <1>18
     DEF Next, GetFound, GetBuilder, EndInstance

LEMMA CacheInvariant == Spec => []CacheInv
<1>1. CacheInv /\ [Next]_vars => CacheInv'
  BY CacheStep, CacheStutters
<1> QED
  BY CacheInit, <1>1, PTL DEF Spec

\* Type correctness; with it, a StreamingBody always writes to a body that is
\* still being streamed.
THEOREM CacheTypeCorrect == Spec => []TypeOK
<1>1. CacheInv => TypeOK
  BY DEF CacheInv
<1> QED
  BY CacheInvariant, <1>1, PTL

\* However the shared_ptr to the handle is copied and dropped, an object that
\* is there has an open handle.
THEOREM ObjectsKeepHandles == Spec => []ObjectsHaveHandles
<1>1. CacheInv => ObjectsHaveHandles
  BY DEF CacheInv
<1> QED
  BY CacheInvariant, <1>1, PTL

\* No handle, and with it no obligation, is left with nobody to close it, but
\* for those of a failing cache_get_state and of a lookup without a result.
THEOREM HandlesStayHeld == Spec => []HandlesAreHeld
<1>1. CacheInv => HandlesAreHeld
  BY DEF CacheInv
<1> QED
  BY CacheInvariant, <1>1, PTL

\* Of all the instances at most one is to provide the item of a key.
THEOREM SettersAreAlone == Spec => []OneSetterPerKey
<1>1. CacheInv => OneSetterPerKey
  BY DEF CacheInv
<1> QED
  BY CacheInvariant, <1>1, PTL
===============================================================================
