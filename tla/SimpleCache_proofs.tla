--------------------------- MODULE SimpleCache_proofs ---------------------------
(***************************************************************************)
(* get_or_set_with, called by any number of instances for any number of    *)
(* keys: its invariants, and that it implements SingleFlight.              *)
(***************************************************************************)
EXTENDS SimpleCache, CacheTransaction_proofs

\* Where a call is says what its handle and its obligation are.
PlaceFits(t) ==
  /\ handle[t] = "pending" => pc[t] = "lookup"
  /\ pc[t] = "idle" => handle[t] = "none"
  /\ pc[t] = "done" => handle[t] = "none" \/ t \in lost
  /\ pc[t] \notin {"idle", "done"} => handle[t] # "none"
  /\ pc[t] \in {"closure", "insert"} => t \in obliged
  /\ pc[t] \in {"hit", "fill", "stream"} => t \notin obliged
  /\ pc[t] = "done" /\ code[t] = "ok" => t \notin obliged

\* An answered lookup that is not obliged to make the entry has found one.
LookupFinds(t) ==
  handle[t] = "open" /\ pc[t] \in {"lookup", "test", "hit"} /\ t \notin obliged
    => found(t)

\* The body that a call fills is the one that is streamed back to it, and it
\* is whole when it has been filled.
StreamsBack(t) ==
  /\ pc[t] = "fill" => writing[t] = back[t] /\ back[t] # NoBody
  /\ pc[t] = "stream" => back[t] # NoBody /\ body[back[t]] = "complete"

CallInv(t) ==
  /\ PlaceFits(t) /\ LookupFinds(t) /\ StreamsBack(t)
  /\ code[t] # "InvalidOperation"

CallsInv ==
  /\ pc \in [Txs -> Places]
  /\ code \in [Txs -> Codes]
  /\ \A t \in Txs : CallInv(t)

SimpleInv == CacheInv /\ CallsInv

-------------------------------------------------------------------------------
(* The steps of get_or_set_with keep the invariant of CacheTransaction. *)

LEMMA ReturnKeepsCache ==
  ASSUME CacheInv, NEW t \in Txs, NEW c, NEW b \in Bodies \cup {NoBody},
         Return(t, c, b)
  PROVE  CacheInv'
<1> USE DEF CacheInv, Return, Closed, TypeOK, Bodies, NoBody
<1>1. TypeOK'
  BY DEF WritersAreDistinct, BodyStates, Streams
<1>2. ObjectsHaveHandles' /\ HandlesAreHeld'
  BY DEF ObjectsHaveHandles, HandlesAreHeld
<1>3. ObligationsAreOpen' /\ OneSetterPerKey' /\ WritersAreDistinct'
  BY DEF ObligationsAreOpen, OneSetterPerKey, WritersAreDistinct
<1> QED
  BY <1>1, <1>2, <1>3

LEMMA InsertKeepsCache ==
  ASSUME CacheInv, NEW t \in Txs, Store(t, key[t]), obliged' = obliged \ {t},
         back' = [back EXCEPT ![t] = writing'[t]],
         UNCHANGED <<handle, key, seen, refs, lost, reading>>
  PROVE  CacheInv'
<1> USE DEF CacheInv, TypeOK, Store, Bodies, NoBody
<1>1. TypeOK'
  BY DEF BodyStates, Streams, Unused
<1>2. ObjectsHaveHandles' /\ HandlesAreHeld'
  BY DEF ObjectsHaveHandles, HandlesAreHeld
<1>3. ObligationsAreOpen' /\ OneSetterPerKey' /\ WritersAreDistinct'
  BY DEF ObligationsAreOpen, OneSetterPerKey, WritersAreDistinct, Unused
<1> QED
  BY <1>1, <1>2, <1>3

\* The other steps are those of CacheTransaction.
LEMMA SimpleKeepsCache ==
  ASSUME CacheInv, [SimpleNext]_allVars
  PROVE  CacheInv'
<1>1. ASSUME Next \/ UNCHANGED vars
      PROVE  CacheInv'
  BY <1>1, CacheStep, CacheStutters
<1>2. ASSUME NEW k \in Keys, Expire(k) \/ Purge(k)
      PROVE  CacheInv'
  BY <1>1, <1>2 DEF Next
<1>3. ASSUME NEW t \in Txs, Resolve(t)
      PROVE  CacheInv'
  BY <1>1, <1>3 DEF Next
<1>4. ASSUME NEW t \in Txs, NEW k \in Keys, Ask(t, k) \/ RefuseLookup(t, k)
      PROVE  CacheInv'
  BY <1>1, <1>4 DEF Next, Ask, RefuseLookup
<1>5. ASSUME NEW t \in Txs, Step(t)
      PROVE  CacheInv'
  <2>0. \A c, b : b \in Bodies \cup {NoBody} /\ Return(t, c, b) => CacheInv'
    BY ReturnKeepsCache
  <2>1. CASE Lookup(t)
    BY <1>1, <2>1 DEF Next, Lookup
  <2>2. CASE Test(t)
    BY <1>1, <2>2 DEF Test
  <2>3. CASE Hit(t)
    BY <2>0, <2>3 DEF Hit, CacheInv, TypeOK
  <2>4. CASE MakeEntry(t)
    BY <1>1, <2>0, <2>4 DEF MakeEntry
  <2>5. CASE InsertEntry(t)
    BY <2>0, <2>5, InsertKeepsCache DEF InsertEntry
  <2>6. CASE Fill(t)
    BY <1>1, <2>0, <2>6 DEF Next, Fill
  <2>7. CASE StreamBack(t)
    BY <2>0, <2>7 DEF StreamBack, CacheInv, TypeOK
  <2>8. CASE Forget(t)
    <3>1. reading' = [reading EXCEPT ![t] = NoBody]
      BY <2>8 DEF Forget
    <3>2. CASE reading[t] = NoBody
      <4>1. UNCHANGED vars
        BY <2>8, <3>1, <3>2 DEF Forget, vars, CacheInv, TypeOK
      <4> QED
        BY <1>1, <4>1
    <3>3. CASE reading[t] # NoBody
      <4>1. DropBody(t)
        BY <2>8, <3>1, <3>3 DEF Forget, DropBody, hostVars
      <4> QED
        BY <1>1, <4>1 DEF Next
    <3> QED
      BY <3>2, <3>3
  <2> QED
    BY <1>5, <2>1, <2>2, <2>3, <2>4, <2>5, <2>6, <2>7, <2>8 DEF Step
<1>6. ASSUME NEW i \in Instances, End(i)
      PROVE  CacheInv'
  BY <1>1, <1>6 DEF Next, End
<1>7. ASSUME UNCHANGED allVars
      PROVE  CacheInv'
  BY <1>1, <1>7 DEF allVars, vars
<1> QED
  BY <1>2, <1>3, <1>4, <1>5, <1>6, <1>7 DEF SimpleNext

-------------------------------------------------------------------------------
(* Every step keeps the invariant. *)

LEMMA SimpleInitInv == SimpleInit => SimpleInv
<1> SUFFICES ASSUME SimpleInit PROVE SimpleInv
  OBVIOUS
<1>1. CacheInv
  BY CacheInit DEF SimpleInit
<1> QED
  BY <1>1 DEF SimpleInit, Init, SimpleInv, CallsInv, CallInv, PlaceFits, LookupFinds, StreamsBack, Places, Codes

\* A step of other calls leaves the invariant of a call alone, as long as it
\* does not touch the body that waits to be streamed back.
LEMMA OthersKeep ==
  ASSUME NEW u \in Txs, CallInv(u),
         pc'[u] = pc[u], code'[u] = code[u], handle'[u] = handle[u],
         seen'[u] = seen[u], writing'[u] = writing[u], back'[u] = back[u],
         u \in obliged' <=> u \in obliged,
         u \in lost => u \in lost',
         back[u] # NoBody /\ body[back[u]] = "complete" => body'[back[u]] = "complete"
  PROVE  CallInv(u)'
BY DEF CallInv, PlaceFits, LookupFinds, StreamsBack, found

LEMMA CallsStep ==
  ASSUME SimpleInv, SimpleNext
  PROVE  CallsInv'
<1> USE DEF SimpleInv, CacheInv, TypeOK, CallsInv, At, Goto, Places, Codes,
            hostVars, bodyVars, simpleVars, vars
<1>1. ASSUME NEW k \in Keys, Expire(k) \/ Purge(k), UNCHANGED simpleVars
      PROVE  CallsInv'
  BY <1>1, OthersKeep DEF Expire, Purge
<1>2. ASSUME NEW t \in Txs, Resolve(t), UNCHANGED simpleVars
      PROVE  CallsInv'
  <2> USE <1>2 DEF Resolve, Fresh
  <2>1. CallInv(t)'
    BY DEF CallInv, PlaceFits, LookupFinds, StreamsBack, found
  <2>2. \A u \in Txs \ {t} : CallInv(u)'
    BY OthersKeep
  <2> QED
    BY <2>1, <2>2
<1>3. ASSUME NEW t \in Txs, NEW k \in Keys, Ask(t, k)
      PROVE  CallsInv'
  <2> USE <1>3 DEF Ask, StartLookup, Idle
  <2>1. CallInv(t)'
    BY DEF CallInv, PlaceFits, LookupFinds, StreamsBack, found
  <2>2. \A u \in Txs \ {t} : CallInv(u)'
    BY OthersKeep
  <2> QED
    BY <2>1, <2>2
<1>4. ASSUME NEW t \in Txs, NEW k \in Keys, RefuseLookup(t, k)
      PROVE  CallsInv'
  <2> USE <1>4 DEF RefuseLookup, Idle
  <2>1. CallInv(t)'
    BY DEF CallInv, PlaceFits, LookupFinds, StreamsBack, found
  <2>2. \A u \in Txs \ {t} : CallInv(u)'
    BY OthersKeep
  <2> QED
    BY <2>1, <2>2
<1>5. ASSUME NEW t \in Txs, Lookup(t)
      PROVE  CallsInv'
  <2> USE <1>5 DEF Lookup, FinishLookup, FailLookup
  <2>1. CallInv(t)'
    BY DEF CallInv, PlaceFits, LookupFinds, StreamsBack, found
  <2>2. \A u \in Txs \ {t} : CallInv(u)'
    BY OthersKeep
  <2> QED
    BY <2>1, <2>2
<1>6. ASSUME NEW t \in Txs, Test(t)
      PROVE  CallsInv'
  <2> USE <1>6 DEF Test, MustMake, must_insert_or_update
  <2>1. CallInv(t)'
    BY DEF CallInv, PlaceFits, LookupFinds, StreamsBack, found
  <2>2. \A u \in Txs \ {t} : CallInv(u)'
    BY OthersKeep
  <2> QED
    BY <2>1, <2>2
<1>7. ASSUME NEW t \in Txs, NEW c \in Codes \ {"InvalidOperation"}, NEW b, Return(t, c, b)
      PROVE  CallsInv'
  <2> USE <1>7 DEF Return, Closed, Streams
  <2>1. CallInv(t)'
    BY DEF CallInv, PlaceFits, LookupFinds, StreamsBack, found
  <2>2. \A u \in Txs \ {t} : CallInv(u)'
    BY OthersKeep
  <2> QED
    BY <2>1, <2>2
<1>8. ASSUME NEW t \in Txs, At(t, "closure"), Goto(t, "insert"), UNCHANGED vars
      PROVE  CallsInv'
  <2> USE <1>8 DEF CallsInv
  <2>1. CallInv(t)'
    BY DEF CallInv, PlaceFits, LookupFinds, StreamsBack, found
  <2>2. \A u \in Txs \ {t} : CallInv(u)'
    BY OthersKeep
  <2> QED
    BY <2>1, <2>2
<1>9. ASSUME NEW t \in Txs, At(t, "insert"), Goto(t, "fill"), Store(t, key[t]),
             obliged' = obliged \ {t}, back' = [back EXCEPT ![t] = writing'[t]],
             UNCHANGED <<handle, key, seen, refs, lost, reading>>
      PROVE  CallsInv'
  <2> USE <1>9 DEF Store, Unused, Bodies, NoBody
  <2>1. CallInv(t)'
    BY DEF CallInv, PlaceFits, LookupFinds, StreamsBack, found
  <2>2. \A u \in Txs \ {t} : CallInv(u)'
    BY OthersKeep
  <2> QED
    BY <2>1, <2>2
<1>10. ASSUME NEW t \in Txs, At(t, "fill"), Goto(t, "stream"), EndBody(t, "complete")
      PROVE  CallsInv'
  <2> USE <1>10 DEF EndBody, Streams, WritersAreDistinct
  <2>1. CallInv(t)'
    BY DEF CallInv, PlaceFits, LookupFinds, StreamsBack, found
  <2>2. \A u \in Txs \ {t} : CallInv(u)'
    BY OthersKeep
  <2> QED
    BY <2>1, <2>2
<1>11. ASSUME NEW t \in Txs, Forget(t)
      PROVE  CallsInv'
  <2> USE <1>11 DEF Forget
  <2>1. CallInv(t)'
    BY DEF CallInv, PlaceFits, LookupFinds, StreamsBack, found
  <2>2. \A u \in Txs \ {t} : CallInv(u)'
    BY OthersKeep
  <2> QED
    BY <2>1, <2>2
<1>12. ASSUME NEW i \in Instances, End(i)
      PROVE  CallsInv'
  <2> USE <1>12 DEF End, EndInstance, EndOf, Closed, CallsOf
  <2>1. \A u \in CallsOf(i) : CallInv(u)'
    BY DEF CallInv, PlaceFits, LookupFinds, StreamsBack, found
  <2>2. \A u \in Txs \ CallsOf(i) : CallInv(u)'
    BY OthersKeep DEF Streams, WritersAreDistinct
  <2>3. (pc \in [Txs -> Places] /\ code \in [Txs -> Codes])'
    OBVIOUS
  <2> QED
    BY <2>1, <2>2, <2>3
<1>13. ASSUME NEW t \in Txs, Step(t)
       PROVE  CallsInv'
  <2>1. CASE Hit(t)
    <3>1. CallInv(t)
      OBVIOUS
    <3> QED
      BY <1>7, <2>1, <3>1 DEF Hit, CallInv, PlaceFits, LookupFinds
  <2>2. CASE MakeEntry(t)
    BY <1>7, <1>8, <2>2 DEF MakeEntry
  <2>3. CASE InsertEntry(t)
    BY <1>7, <1>9, <2>3 DEF InsertEntry
  <2>4. CASE Fill(t)
    BY <1>7, <1>10, <2>4 DEF Fill
  <2>5. CASE StreamBack(t)
    BY <1>7, <2>5 DEF StreamBack
  <2> QED
    BY <1>5, <1>6, <1>11, <1>13, <2>1, <2>2, <2>3, <2>4, <2>5 DEF Step
<1> HIDE DEF CallsInv, SimpleInv
<1> QED
  BY <1>1, <1>2, <1>3, <1>4, <1>12, <1>13 DEF SimpleNext

LEMMA SimpleStep ==
  ASSUME SimpleInv, [SimpleNext]_allVars
  PROVE  SimpleInv'
<1>1. CacheInv'
  BY SimpleKeepsCache DEF SimpleInv
<1>2. CASE SimpleNext
  BY <1>1, <1>2, CallsStep DEF SimpleInv
<1>3. CASE UNCHANGED allVars
  <2>1. CallsInv'
    BY <1>3 DEF allVars, SimpleInv, CallsInv, CallInv, PlaceFits, LookupFinds,
                StreamsBack, found
  <2> QED
    BY <1>1, <2>1 DEF SimpleInv
<1> QED
  BY <1>2, <1>3

LEMMA SimpleInvariant == SimpleSpec => []SimpleInv
<1>1. SimpleInv /\ [SimpleNext]_allVars => SimpleInv'
  BY SimpleStep
<1> QED
  BY SimpleInitInv, <1>1, PTL DEF SimpleSpec

\* Type correctness of the calls and of the cache beneath them.
THEOREM SimpleTypeCorrect == SimpleSpec => []SimpleTypeOK
<1>1. SimpleInv => SimpleTypeOK
  BY DEF SimpleInv, CacheInv, CallsInv, SimpleTypeOK
<1> QED
  BY SimpleInvariant, <1>1, PTL

\* A lookup that is not obliged has always found an item: get_or_set_with
\* never gets to its return of InvalidOperation.
THEOREM NeverInvalid == SimpleSpec => []NoInvalidOperation
<1>1. SimpleInv => NoInvalidOperation
  BY DEF SimpleInv, CallsInv, CallInv, NoInvalidOperation
<1> QED
  BY SimpleInvariant, <1>1, PTL

\* A call that ran its closure returns the whole of its own entry.
THEOREM OwnEntryReturned == SimpleSpec => OwnEntryIsWhole
<1> DEFINE Whole(t) == body[reading'[t]] = "complete" /\ reading'[t] = back[t]
<1>1. ASSUME SimpleInv, [SimpleNext]_allVars,
             NEW t \in Txs, At(t, "stream"), (At(t, "done") /\ code[t] = "ok")'
      PROVE  Whole(t)
  <2> USE <1>1 DEF At, Goto, simpleVars, SimpleInv, CallsInv, CacheInv, TypeOK
  <2>1. ASSUME NEW u \in Txs, u # t, NEW c, NEW b, Return(u, c, b)
        PROVE  pc'[t] = pc[t]
    BY <2>1 DEF Return
  <2>2. StreamBack(t)
    <3>1. pc'[t] # pc[t]
      OBVIOUS
    <3> QED
      BY <2>1, <3>1
         DEF SimpleNext, allVars, Ask, RefuseLookup, Step, Lookup, Test, Hit,
             MakeEntry, InsertEntry, Fill, StreamBack, Forget, End
  <2> QED
    BY <2>2 DEF StreamBack, Return, CallInv, StreamsBack
<1>2. SimpleInv /\ [SimpleNext]_allVars
        => [\A t \in Txs :
              At(t, "stream") /\ (At(t, "done") /\ code[t] = "ok")' => Whole(t)]_allVars
  BY <1>1
<1> QED
  BY SimpleInvariant, <1>2, PTL DEF SimpleSpec, OwnEntryIsWhole

-------------------------------------------------------------------------------
(* get_or_set_with implements SingleFlight. *)

ItemOf(k) == IF Fresh(k) THEN "fresh" ELSE IF cached[k] # NoBody THEN "stale" ELSE "absent"

PhaseOf == [t \in Txs |-> Phase(t)]
ItemsOf == [k \in Keys |-> ItemOf(k)]

\* A call makes an entry, for SingleFlight, exactly when the host obliges it.
LEMMA MakersAreObliged ==
  ASSUME SimpleInv, NEW t \in Txs
  PROVE  Phase(t) = "making" <=> t \in obliged
<1>1. handle[t] \in {"none", "pending", "open"} /\ pc[t] \in Places
  BY DEF SimpleInv, CacheInv, TypeOK, CallsInv
<1> QED
  BY <1>1 DEF SimpleInv, CacheInv, CallsInv, CallInv, PlaceFits, ObligationsAreOpen, Phase, At, Places

\* The phase of a call depends on its own place, code, handle and obligation.
LEMMA PhaseFrame ==
  ASSUME NEW u \in Txs, pc'[u] = pc[u], code'[u] = code[u],
         handle'[u] = handle[u], u \in obliged' <=> u \in obliged
  PROVE  Phase(u)' = Phase(u)
BY DEF Phase, At

LEMMA ItemIs ==
  ASSUME NEW k \in Keys
  PROVE  /\ Fresh(k) => ItemsOf[k] = "fresh"
         /\ ~Fresh(k) /\ cached[k] # NoBody => ItemsOf[k] = "stale"
BY DEF ItemsOf, ItemOf

LEMMA PhaseStep ==
  ASSUME NEW t \in Txs, NEW to, Phase(t)' = to,
         \A u \in Txs \ {t} :
           /\ pc'[u] = pc[u] /\ code'[u] = code[u] /\ handle'[u] = handle[u]
           /\ u \in obliged' <=> u \in obliged
  PROVE  PhaseOf' = [PhaseOf EXCEPT ![t] = to]
BY PhaseFrame DEF PhaseOf

LEMMA FlightInit == SimpleInit => Flight!Init
BY CacheAssumption DEF SimpleInit, Init, Flight!Init, Phase, At, Fresh

LEMMA FlightStep ==
  ASSUME SimpleInv, SimpleNext
  PROVE  [Flight!Next]_Flight!vars
<1> USE DEF SimpleInv, CacheInv, TypeOK, CallsInv, simpleVars, vars, hostVars, bodyVars
<1>1. ASSUME NEW k \in Keys, Expire(k) \/ Purge(k), UNCHANGED simpleVars
      PROVE  Flight!Age(k)
  <2>1. UNCHANGED <<PhaseOf, key>>
    BY <1>1, PhaseFrame DEF Expire, Purge, PhaseOf
  <2>2. \/ /\ ItemsOf[k] = "fresh"
           /\ ItemsOf' = [ItemsOf EXCEPT ![k] = "stale"]
        \/ /\ ItemsOf[k] # "absent"
           /\ ItemsOf' = [ItemsOf EXCEPT ![k] = "absent"]
    <3>1. CASE Expire(k)
      <4>1. ItemsOf[k] = "fresh"
        BY <3>1, ItemIs DEF Expire
      <4>2. ItemsOf' = [ItemsOf EXCEPT ![k] = "stale"]
        BY <3>1 DEF Expire, ItemsOf, ItemOf, Fresh
      <4> QED
        BY <4>1, <4>2
    <3>2. CASE Purge(k)
      BY <3>2 DEF Purge, ItemsOf, ItemOf, Fresh
    <3> QED
      BY <1>1, <3>1, <3>2
  <2> QED
    BY <2>1, <2>2 DEF Flight!Age, PhaseOf, ItemsOf, ItemOf
<1>2. \A k \in Keys : BeingSet(k) <=> Flight!BeingMade(k)
  BY MakersAreObliged DEF BeingSet, Flight!BeingMade
<1>3. ASSUME NEW t \in Txs, Resolve(t), UNCHANGED simpleVars
      PROVE  Flight!Give(t) \/ Flight!Oblige(t)
  <2> USE <1>3 DEF Resolve, At
  <2>1. PhaseOf[t] = "waiting"
    BY DEF PhaseOf, Phase, CallInv, PlaceFits
  <2>2. UNCHANGED <<ItemsOf, key>>
    BY DEF ItemsOf, ItemOf, Fresh
  <2>3. CASE obliged' = obliged
    <3>1. PhaseOf' = [PhaseOf EXCEPT ![t] = "given"]
      BY <2>3, PhaseStep DEF Phase, CallInv, PlaceFits, ObligationsAreOpen
    <3>2. \/ ItemsOf[key[t]] = "fresh"
          \/ ItemsOf[key[t]] = "stale" /\ BeingSet(key[t])
      <4>1. Fresh(key[t]) \/ (cached[key[t]] # NoBody /\ BeingSet(key[t]))
        BY <2>3 DEF ObligationsAreOpen
      <4> QED
        BY <4>1, ItemIs
    <3> QED
      BY <1>2, <2>1, <2>2, <3>1, <3>2 DEF Flight!Give, Flight!Step, PhaseOf, ItemsOf, ItemOf
  <2>4. CASE /\ ~Fresh(key[t]) /\ ~BeingSet(key[t])
             /\ obliged' = obliged \cup {t}
    <3>1. PhaseOf' = [PhaseOf EXCEPT ![t] = "making"]
      BY <2>4, PhaseStep DEF Phase, CallInv, PlaceFits
    <3> QED
      BY <1>2, <2>1, <2>2, <2>4, <3>1 DEF Flight!Oblige, Flight!Step, PhaseOf, ItemsOf, ItemOf
  <2> QED
    BY <2>3, <2>4
<1>4. ASSUME NEW t \in Txs, NEW k \in Keys, Ask(t, k)
      PROVE  Flight!Ask(t, k)
  <2> USE <1>4 DEF Ask, StartLookup, At, Goto
  <2>1. PhaseOf[t] = "idle"
    BY DEF PhaseOf, Phase
  <2>2. PhaseOf' = [PhaseOf EXCEPT ![t] = "waiting"]
    BY PhaseStep DEF Phase
  <2>3. UNCHANGED ItemsOf /\ key' = [key EXCEPT ![t] = k]
    BY DEF ItemsOf, ItemOf, Fresh
  <2> HIDE <1>4
  <2> QED
    BY <2>1, <2>2, <2>3 DEF Flight!Ask, Flight!Step, PhaseOf, ItemsOf, ItemOf
<1>5. ASSUME NEW t \in Txs, NEW k \in Keys, RefuseLookup(t, k)
      PROVE  Flight!Return(t)
  <2> USE <1>5 DEF RefuseLookup, Idle, At
  <2>1. PhaseOf[t] = "idle"
    BY DEF PhaseOf, Phase
  <2>2. PhaseOf' = [PhaseOf EXCEPT ![t] = "error"]
    BY PhaseStep DEF Phase, ObligationsAreOpen
  <2>3. UNCHANGED <<ItemsOf, key>>
    BY DEF ItemsOf, ItemOf, Fresh
  <2> HIDE <1>5
  <2> QED
    BY <2>1, <2>2, <2>3 DEF Flight!Return, Flight!Phases, Flight!Step, PhaseOf, ItemsOf, ItemOf
<1>6. ASSUME UNCHANGED <<PhaseOf, ItemsOf, key>>
      PROVE  UNCHANGED Flight!vars
  BY <1>6 DEF Flight!vars, PhaseOf, ItemsOf, ItemOf
<1>7. ASSUME NEW t \in Txs, NEW c \in Codes, NEW b, Return(t, c, b),
             \/ c = "ok" /\ PhaseOf[t] \in {"given", "made"}
             \/ c # "ok" /\ PhaseOf[t] \in Flight!Phases \ {"value"}
      PROVE  Flight!Return(t)
  <2> USE <1>7 DEF Return, Closed
  <2>1. PhaseOf' = [PhaseOf EXCEPT ![t] = IF c = "ok" THEN "value" ELSE "error"]
    BY PhaseStep DEF Phase, At
  <2>2. UNCHANGED <<ItemsOf, key>>
    BY DEF ItemsOf, ItemOf, Fresh
  <2> QED
    BY <2>1, <2>2 DEF Flight!Return, Flight!Step, Flight!Phases, PhaseOf, ItemsOf, ItemOf
<1>8. ASSUME NEW t \in Txs, Lookup(t)
      PROVE  [Flight!Return(t)]_Flight!vars
  <2> USE <1>8 DEF Lookup, Goto, At
  <2>1. UNCHANGED <<ItemsOf, key>>
    BY DEF FinishLookup, FailLookup, ItemsOf, ItemOf, Fresh
  <2>2. CASE FinishLookup(t, "call") /\ Goto(t, "test")
    <3>0. /\ pc[t] = "lookup" /\ pc'[t] = "test"
          /\ handle[t] = "open" /\ handle' = handle /\ obliged' = obliged
      BY <2>2 DEF FinishLookup
    <3>1. Phase(t)' = Phase(t)
      BY ONLY <3>0 DEF Phase, At
    <3>2. PhaseOf' = PhaseOf
      BY <2>2, <3>1, PhaseFrame DEF FinishLookup, PhaseOf
    <3> QED
      BY <2>1, <3>2, <1>6
  <2>3. CASE /\ FailLookup(t, "call")
             /\ pc' = [pc EXCEPT ![t] = "done"]
             /\ code' = [code EXCEPT ![t] = "Host"]
             /\ t \in obliged
    <3>1. Phase(t)' = Phase(t)
      BY <2>3 DEF FailLookup, Phase
    <3>2. PhaseOf' = PhaseOf
      BY <2>3, <3>1, PhaseFrame DEF FailLookup, PhaseOf
    <3> QED
      BY <2>1, <3>2, <1>6
  <2>4. CASE /\ FailLookup(t, "call")
             /\ pc' = [pc EXCEPT ![t] = "done"]
             /\ code' = [code EXCEPT ![t] = "Host"]
             /\ t \notin obliged
    <3>1. PhaseOf[t] = "given"
      BY <2>4 DEF FailLookup, PhaseOf, Phase
    <3>2. Phase(t)' = "error"
      BY <2>4 DEF FailLookup, Phase
    <3>3. PhaseOf' = [PhaseOf EXCEPT ![t] = "error"]
      BY <2>4, <3>2, PhaseStep DEF FailLookup
    <3> QED
      BY <2>1, <3>1, <3>3 DEF Flight!Return, Flight!Step, Flight!Phases, PhaseOf, ItemsOf, ItemOf
  <2> QED
    BY <2>2, <2>3, <2>4
<1>9. ASSUME NEW t \in Txs, Test(t)
      PROVE  UNCHANGED Flight!vars
  <2>1. handle[t] = "open"
    BY <1>9 DEF Test, At, CallInv, PlaceFits
  <2>2. Phase(t)' = Phase(t)
    BY <1>9, <2>1 DEF Test, At, Goto, MustMake, must_insert_or_update, Phase
  <2>3. PhaseOf' = PhaseOf
    BY <1>9, <2>2, PhaseFrame DEF Test, Goto, PhaseOf
  <2> QED
    BY <1>9, <2>3, <1>6 DEF Test, ItemsOf, ItemOf, Fresh
<1>10. ASSUME NEW t \in Txs, Hit(t) \/ StreamBack(t)
       PROVE  Flight!Return(t)
  <2>1. PhaseOf[t] \in {"given", "made"}
    BY <1>10 DEF Hit, StreamBack, At, PhaseOf, Phase
  <2> QED
    BY <1>7, <1>10, <2>1 DEF Hit, StreamBack, Codes, Flight!Phases
<1>11. ASSUME NEW t \in Txs, MakeEntry(t)
       PROVE  [Flight!Return(t)]_Flight!vars
  <2>1. PhaseOf[t] = "making"
    BY <1>11 DEF MakeEntry, At, PhaseOf, Phase
  <2>2. CASE Return(t, "GetOrSet", NoBody)
    BY <1>7, <2>1, <2>2 DEF Codes, Flight!Phases
  <2>3. CASE Goto(t, "insert") /\ UNCHANGED vars
    <3>1. Phase(t)' = Phase(t)
      BY <1>11, <2>3 DEF MakeEntry, At, Goto, Phase
    <3>2. PhaseOf' = PhaseOf
      BY <2>3, <3>1, PhaseFrame DEF Goto, PhaseOf
    <3> QED
      BY <2>3, <3>2, <1>6 DEF ItemsOf, ItemOf, Fresh
  <2> QED
    BY <1>11, <2>2, <2>3 DEF MakeEntry
<1>12. ASSUME NEW t \in Txs, InsertEntry(t)
       PROVE  Flight!Publish(t) \/ Flight!Return(t)
  <2>1. PhaseOf[t] = "making"
    BY <1>12 DEF InsertEntry, At, PhaseOf, Phase
  <2>2. CASE Return(t, "Host", NoBody)
    BY <1>7, <2>1, <2>2 DEF Codes, Flight!Phases
  <2>3. ASSUME Store(t, key[t]), obliged' = obliged \ {t}, Goto(t, "fill"),
               UNCHANGED <<handle, key>>
        PROVE  Flight!Publish(t)
    <3>1. PhaseOf' = [PhaseOf EXCEPT ![t] = "made"]
      BY <2>3, PhaseStep DEF Goto, At, Phase
    <3>2. PICK b \in Bodies : /\ cached' = [cached EXCEPT ![key[t]] = b]
                            /\ stale' = stale \ {key[t]}
      BY <2>3 DEF Store
    <3>3. ItemsOf' = [ItemsOf EXCEPT ![key[t]] = "fresh"]
      <4>1. b # NoBody
        BY DEF Bodies, NoBody
      <4>2. ItemOf(key[t])' = "fresh"
        BY <3>2, <4>1, <2>3 DEF ItemOf, Fresh
      <4>3. \A k \in Keys \ {key[t]} : ItemOf(k)' = ItemOf(k)
        BY <3>2 DEF ItemOf, Fresh
      <4> QED
        BY <4>2, <4>3, <2>3 DEF ItemsOf
    <3> QED
      BY <2>1, <2>3, <3>1, <3>3 DEF Flight!Publish, Flight!Step, PhaseOf, ItemsOf, ItemOf
  <2> QED
    BY <1>12, <2>2, <2>3 DEF InsertEntry
<1>13. ASSUME NEW t \in Txs, Fill(t)
       PROVE  [Flight!Return(t)]_Flight!vars
  <2>1. PhaseOf[t] = "made"
    BY <1>13 DEF Fill, At, PhaseOf, Phase
  <2>2. CASE Return(t, "Other", NoBody)
    BY <1>7, <2>1, <2>2 DEF Codes, Flight!Phases
  <2>3. CASE EndBody(t, "complete") /\ Goto(t, "stream")
    <3>1. Phase(t)' = Phase(t)
      BY <1>13, <2>3 DEF Fill, At, Goto, Phase
    <3>2. PhaseOf' = PhaseOf
      BY <2>3, <3>1, PhaseFrame DEF EndBody, Goto, PhaseOf
    <3> QED
      BY <2>3, <3>2, <1>6 DEF EndBody, ItemsOf, ItemOf, Fresh
  <2> QED
    BY <1>13, <2>2, <2>3 DEF Fill
<1>14. ASSUME NEW t \in Txs, Forget(t)
       PROVE  Flight!Forget({t})
  <2>1. PhaseOf' = [PhaseOf EXCEPT ![t] = "idle"]
    BY <1>14, PhaseStep DEF Forget, At, Phase
  <2> QED
    BY <1>14, <2>1 DEF Forget, Flight!Forget, PhaseOf, Fresh
<1>15. ASSUME NEW i \in Instances, End(i)
       PROVE  Flight!Forget(CallsOf(i))
  <2> USE <1>15 DEF End, EndInstance, EndOf, Closed, CallsOf
  <2>1. \A t \in CallsOf(i) : Phase(t)' = "idle"
    BY DEF Phase, At
  <2>2. \A t \in Txs \ CallsOf(i) : Phase(t)' = Phase(t)
    BY PhaseFrame
  <2>3. UNCHANGED <<cached, stale, key>>
    OBVIOUS
  <2> HIDE DEF CallsOf
  <2> QED
    BY <2>1, <2>2, <2>3 DEF Flight!Forget, Fresh
<1> HIDE DEF SimpleInv, CacheInv, CallsInv, TypeOK, vars
<1> QED
  <2>1. ASSUME NEW t \in Txs, Step(t)
        PROVE  [Flight!Next]_Flight!vars
    BY <1>8, <1>9, <1>10, <1>11, <1>12, <1>13, <1>14, <2>1 DEF Step, Flight!Next
  <2>2. ASSUME NEW i \in Instances, End(i)
        PROVE  Flight!Next
    BY <1>15, <2>2 DEF CallsOf, Flight!Next
  <2> QED
    BY <1>1, <1>3, <1>4, <1>5, <2>1, <2>2 DEF SimpleNext, Flight!Next

\* The calls of get_or_set_with of all instances together implement
\* SingleFlight: one of them at a time makes the entry of a key, and only while
\* there is no fresh one; the others wait for it or take over.
THEOREM FlightRefined == SimpleSpec => IsSingleFlight
<1>1. SimpleInv /\ [SimpleNext]_allVars => [Flight!Next]_Flight!vars
  <2> SUFFICES ASSUME SimpleInv, [SimpleNext]_allVars
               PROVE  [Flight!Next]_Flight!vars
    OBVIOUS
  <2>1. CASE SimpleNext
    BY <2>1, FlightStep
  <2>2. CASE UNCHANGED allVars
    <3>1. UNCHANGED <<cached, stale, obliged, handle, key, pc, code>>
      BY <2>2 DEF allVars
    <3> QED
      BY <3>1 DEF Flight!vars, Phase, At, Fresh
  <2> QED
    BY <2>1, <2>2
<1> QED
  BY FlightInit, SimpleInvariant, <1>1, PTL DEF SimpleSpec, IsSingleFlight, Flight!Spec

-------------------------------------------------------------------------------
(* Nobody waits in vain. *)

\* A call from a closure is under way only while the closure is, and asks for a
\* key below that of the closure.
InnerFits(t) ==
  Outer[t] # NoTx /\ UnderWay(t) =>
    At(Outer[t], "closure") /\ key[t] \in Below[key[Outer[t]]]

LookupHolds(t) == At(t, "lookup") => refs[t] = {"call"}

WaitInv == SimpleInv /\ \A t \in Txs : InnerFits(t) /\ LookupHolds(t)

LEMMA OuterType == \A t \in Txs : Outer[t] # NoTx => Outer[t] \in Txs /\ Owner[Outer[t]] = Owner[t]
BY SimpleCacheAssumption

\* A step of the call v, which does not leave its closure before the calls of
\* the closure have come to an end.
LEMMA InnerStep ==
  ASSUME WaitInv, NEW v \in Txs,
         \A u \in Txs \ {v} : pc'[u] = pc[u],
         key' = key,
         UnderWay(v)' => UnderWay(v),
         At(v, "closure") /\ ~At(v, "closure")'
           => \A u \in Txs : Outer[u] = v => pc[u] \in {"idle", "done"}
  PROVE  \A t \in Txs : InnerFits(t)'
<1> SUFFICES ASSUME NEW t \in Txs, Outer[t] # NoTx, UnderWay(t)'
             PROVE  At(Outer[t], "closure")' /\ key'[t] \in Below[key'[Outer[t]]]
  BY DEF InnerFits
<1>1. UnderWay(t)
  BY DEF UnderWay
<1>2. Outer[t] \in Txs /\ At(Outer[t], "closure") /\ key[t] \in Below[key[Outer[t]]]
  BY <1>1, OuterType DEF WaitInv, InnerFits
<1>3. At(Outer[t], "closure")'
  BY <1>1, <1>2 DEF At, UnderWay
<1> QED
  BY <1>2, <1>3

LEMMA WaitInit == SimpleInit => WaitInv
BY SimpleInitInv DEF SimpleInit, WaitInv, InnerFits, LookupHolds, UnderWay, At

LEMMA WaitStep ==
  ASSUME WaitInv, SimpleNext
  PROVE  \A t \in Txs : InnerFits(t)' /\ LookupHolds(t)'
<1> USE DEF At, Goto, simpleVars, vars, hostVars, bodyVars
<1>0. pc \in [Txs -> Places] /\ key \in [Txs -> Keys] /\ refs \in [Txs -> SUBSET Holders]
  BY DEF WaitInv, SimpleInv, CacheInv, TypeOK, CallsInv
<1>1. ASSUME UNCHANGED <<pc, key, refs>>
      PROVE  \A t \in Txs : InnerFits(t)' /\ LookupHolds(t)'
  BY <1>1 DEF WaitInv, InnerFits, LookupHolds, UnderWay
<1>2. ASSUME NEW k \in Keys, Expire(k) \/ Purge(k), UNCHANGED simpleVars
      PROVE  \A t \in Txs : InnerFits(t)' /\ LookupHolds(t)'
  BY <1>1, <1>2 DEF Expire, Purge
<1>3. ASSUME NEW t \in Txs, Resolve(t), UNCHANGED simpleVars
      PROVE  \A u \in Txs : InnerFits(u)' /\ LookupHolds(u)'
  BY <1>1, <1>3 DEF Resolve
<1>4. ASSUME NEW v \in Txs, NEW k \in Keys, Ask(v, k)
      PROVE  \A t \in Txs : InnerFits(t)' /\ LookupHolds(t)'
  <2>1. /\ pc[v] = "idle" /\ pc' = [pc EXCEPT ![v] = "lookup"]
        /\ key' = [key EXCEPT ![v] = k]
        /\ refs' = [refs EXCEPT ![v] = {"call"}]
    BY <1>4 DEF Ask, StartLookup
  <2>2. Outer[v] # NoTx => pc[Outer[v]] = "closure" /\ k \in Below[key[Outer[v]]]
    BY <1>4 DEF Ask, MayCall
  <2>3. InnerFits(v)'
    BY <1>0, <2>1, <2>2, OuterType DEF InnerFits
  <2>4. ASSUME NEW t \in Txs, t # v
        PROVE  InnerFits(t)'
    <3> SUFFICES ASSUME Outer[t] # NoTx, UnderWay(t)
                 PROVE  InnerFits(t)'
      BY <1>0, <2>1, <2>4 DEF InnerFits, UnderWay
    <3>1. pc[Outer[t]] = "closure" /\ key[t] \in Below[key[Outer[t]]]
      BY DEF WaitInv, InnerFits
    <3>2. Outer[t] \in Txs /\ Outer[t] # v
      BY <2>1, <3>1, OuterType
    <3> QED
      BY <1>0, <2>1, <2>4, <3>1, <3>2 DEF InnerFits
  <2>5. \A t \in Txs : LookupHolds(t)'
    BY <1>0, <2>1 DEF WaitInv, LookupHolds
  <2> QED
    BY <2>3, <2>4, <2>5
<1>5. ASSUME NEW v \in Txs, NEW to \in Places \ {"lookup"},
             pc' = [pc EXCEPT ![v] = to], pc[v] \in {"idle", "done"} => to \in {"idle", "done"},
             key' = key, \A u \in Txs \ {v} : refs'[u] = refs[u],
             pc[v] = "closure" => \A u \in Txs : Outer[u] = v => pc[u] \in {"idle", "done"}
      PROVE  \A t \in Txs : InnerFits(t)' /\ LookupHolds(t)'
  <2>1. \A t \in Txs : InnerFits(t)'
    BY <1>0, <1>5, InnerStep DEF UnderWay
  <2> QED
    BY <1>0, <1>5, <2>1 DEF WaitInv, LookupHolds
<1>6. ASSUME NEW v \in Txs, NEW k \in Keys, RefuseLookup(v, k)
      PROVE  \A t \in Txs : InnerFits(t)' /\ LookupHolds(t)'
  BY <1>5, <1>6 DEF RefuseLookup, Places
<1>7. ASSUME NEW v \in Txs, NEW c, NEW b, Return(v, c, b),
             pc[v] = "closure" => \A u \in Txs : Outer[u] = v => pc[u] \in {"idle", "done"}
      PROVE  \A t \in Txs : InnerFits(t)' /\ LookupHolds(t)'
  <2>1. pc' = [pc EXCEPT ![v] = "done"] /\ key' = key /\ \A u \in Txs \ {v} : refs'[u] = refs[u]
    BY <1>0, <1>7 DEF Return
  <2> QED
    BY <1>5, <1>7, <2>1 DEF Places
<1>8. ASSUME NEW v \in Txs, Step(v)
      PROVE  \A t \in Txs : InnerFits(t)' /\ LookupHolds(t)'
  <2>1. CASE Lookup(v)
    <3>1. pc[v] = "lookup" /\ key' = key /\ \A u \in Txs \ {v} : refs'[u] = refs[u]
      BY <1>0, <2>1 DEF Lookup, FinishLookup, FailLookup
    <3>2. pc' = [pc EXCEPT ![v] = "test"] \/ pc' = [pc EXCEPT ![v] = "done"]
      BY <2>1 DEF Lookup
    <3> QED
      BY <1>5, <3>1, <3>2 DEF Places
  <2>2. CASE Test(v)
    <3>1. pc[v] = "test" /\ key' = key /\ refs' = refs
      BY <2>2 DEF Test
    <3>2. pc' = [pc EXCEPT ![v] = "closure"] \/ pc' = [pc EXCEPT ![v] = "hit"]
      BY <2>2 DEF Test
    <3> QED
      BY <1>5, <3>1, <3>2 DEF Places
  <2>3. CASE Hit(v) \/ StreamBack(v)
    BY <1>7, <2>3 DEF Hit, StreamBack
  <2>4. CASE MakeEntry(v)
    <3>1. /\ pc[v] = "closure"
          /\ \A u \in Txs : Outer[u] = v => pc[u] \in {"idle", "done"}
          /\ \/ pc' = [pc EXCEPT ![v] = "insert"] /\ key' = key /\ refs' = refs
             \/ Return(v, "GetOrSet", NoBody)
      BY <2>4 DEF MakeEntry
    <3> QED
      BY <1>5, <1>7, <3>1 DEF Places
  <2>5. CASE InsertEntry(v)
    <3>1. /\ pc[v] = "insert"
          /\ \/ pc' = [pc EXCEPT ![v] = "fill"] /\ key' = key /\ refs' = refs
             \/ Return(v, "Host", NoBody)
      BY <2>5 DEF InsertEntry
    <3> QED
      BY <1>5, <1>7, <3>1 DEF Places
  <2>6. CASE Fill(v)
    <3>1. /\ pc[v] = "fill"
          /\ \/ pc' = [pc EXCEPT ![v] = "stream"] /\ key' = key /\ refs' = refs
             \/ Return(v, "Other", NoBody)
      BY <2>6 DEF Fill, EndBody
    <3> QED
      BY <1>5, <1>7, <3>1 DEF Places
  <2>7. CASE Forget(v)
    <3>1. /\ pc[v] = "done" /\ pc' = [pc EXCEPT ![v] = "idle"]
          /\ key' = key /\ refs' = refs
      BY <2>7 DEF Forget
    <3> QED
      BY <1>5, <3>1 DEF Places
  <2> QED
    BY <1>8, <2>1, <2>2, <2>3, <2>4, <2>5, <2>6, <2>7 DEF Step
<1>9. ASSUME NEW i \in Instances, End(i)
      PROVE  \A t \in Txs : InnerFits(t)' /\ LookupHolds(t)'
  <2>1. /\ \A u \in CallsOf(i) : pc'[u] = "idle"
        /\ \A u \in Txs \ CallsOf(i) : pc'[u] = pc[u] /\ refs'[u] = refs[u]
        /\ key' = key
    BY <1>0, <1>9 DEF End, EndInstance, EndOf, CallsOf
  <2>2. ASSUME NEW t \in Txs
        PROVE  InnerFits(t)'
    <3> SUFFICES ASSUME Outer[t] # NoTx, t \notin CallsOf(i), UnderWay(t)
                 PROVE  pc'[Outer[t]] = "closure" /\ key[t] \in Below[key[Outer[t]]]
      BY <2>1 DEF InnerFits, UnderWay
    <3>1. Outer[t] \in Txs \ CallsOf(i)
      BY OuterType DEF CallsOf
    <3> QED
      BY <2>1, <3>1 DEF WaitInv, InnerFits
  <2>3. \A t \in Txs : LookupHolds(t)'
    BY <2>1 DEF WaitInv, LookupHolds
  <2> QED
    BY <2>2, <2>3
<1> QED
  BY <1>2, <1>3, <1>4, <1>6, <1>8, <1>9 DEF SimpleNext

LEMMA WaitInvariant == SimpleSpec => []WaitInv
<1>1. WaitInv /\ [SimpleNext]_allVars => WaitInv'
  <2>1. ASSUME WaitInv, SimpleNext
        PROVE  \A t \in Txs : InnerFits(t)' /\ LookupHolds(t)'
    BY <2>1, WaitStep
  <2>2. ASSUME WaitInv, UNCHANGED allVars
        PROVE  \A t \in Txs : InnerFits(t)' /\ LookupHolds(t)'
    <3>1. UNCHANGED <<pc, key, refs>>
      BY <2>2 DEF allVars
    <3> QED
      BY <2>2, <3>1 DEF WaitInv, InnerFits, LookupHolds, UnderWay, At
  <2>3. ASSUME WaitInv, SimpleInv'
        PROVE  [SimpleNext]_allVars => WaitInv'
    BY <2>1, <2>2, <2>3 DEF WaitInv
  <2>4. SimpleInv /\ [SimpleNext]_allVars => SimpleInv'
    BY SimpleStep
  <2> QED
    BY <2>3, <2>4 DEF WaitInv
<1> QED
  BY WaitInit, <1>1, PTL DEF SimpleSpec

\* Who waits is at its closure, or waits for a call that is to provide the item
\* of its key; the latter does not wait for a lookup.
LEMMA Waiting ==
  ASSUME WaitInv, NEW t \in Txs, NEW u \in WaitsFor(t)
  PROVE  \/ At(t, "closure") /\ UnderWay(u) /\ Outer[u] = t
         \/ At(t, "lookup") /\ handle[t] = "pending" /\ u \in obliged /\ key[u] = key[t]
BY DEF WaitsFor, At

LEMMA SetterAtClosure ==
  ASSUME WaitInv, NEW u \in obliged, WaitsFor(u) # {}
  PROVE  At(u, "closure")
<1>1. u \in Txs /\ handle[u] = "open"
  BY DEF WaitInv, SimpleInv, CacheInv, TypeOK, ObligationsAreOpen
<1>2. PICK w : w \in WaitsFor(u)
  OBVIOUS
<1> QED
  BY <1>1, <1>2, Waiting

\* No circle: among the keys of the closures that wait in C there is one whose
\* closure asks for none of them, but whoever waits in C asked for one of them.
LEMMA NoCircle ==
  ASSUME WaitInv, KeysAreOrdered, NEW C \in SUBSET Txs, C # {}
  PROVE  \E t \in C : WaitsFor(t) \cap C = {}
<1> SUFFICES ASSUME \A t \in C : WaitsFor(t) \cap C # {}
             PROVE  FALSE
  OBVIOUS
<1> DEFINE K == {key[u] : u \in {v \in C : At(v, "closure")}}
<1>1. ASSUME NEW t \in C
      PROVE  key[t] \in K
  <2>1. PICK u \in C : u \in WaitsFor(t)
    OBVIOUS
  <2>2. CASE At(t, "closure")
    BY <2>2
  <2>3. CASE u \in obliged /\ key[u] = key[t]
    <3>1. At(u, "closure")
      BY <2>1, <2>3, SetterAtClosure
    <3> QED
      BY <2>3, <3>1
  <2> QED
    BY <2>1, <2>2, <2>3, Waiting
<1>2. K \in SUBSET Keys
  BY DEF WaitInv, SimpleInv, CacheInv, TypeOK
<1>3. PICK k \in K : Below[k] \cap K = {}
  <2>1. K # {}
    BY <1>1
  <2> HIDE DEF K
  <2> QED
    BY <1>2, <2>1 DEF KeysAreOrdered
<1>4. PICK u \in C : At(u, "closure") /\ key[u] = k
  BY <1>3
<1>5. PICK w \in C : w \in WaitsFor(u)
  BY <1>4
<1>6. UnderWay(w) /\ Outer[w] = u
  BY <1>4, <1>5, Waiting DEF At
<1>7. Outer[w] # NoTx
  BY <1>6, SimpleCacheAssumption
<1>8. key[w] \in Below[k]
  BY <1>4, <1>6, <1>7 DEF WaitInv, InnerFits
<1>9. key[w] \in K
  BY <1>1
<1> QED
  BY <1>3, <1>8, <1>9

\* core.h:510, for any number of calls, instances and keys: as long as the
\* closures do not lead back to their keys, calls never wait in a circle; they
\* wait for calls that are under way, or for an obligation that a failed lookup
\* left behind.
THEOREM WaitsEnd == SimpleSpec => []NobodyWaitsInVain
<1>1. ASSUME WaitInv, NEW t \in Txs, NEW u \in WaitsFor(t)
      PROVE  UnderWay(u) \/ u \in lost
  <2>1. CASE UnderWay(u)
    BY <2>1
  <2>2. CASE u \in obliged
    <3>1. u \in Txs /\ handle[u] = "open" /\ PlaceFits(u)
      BY <1>1, <2>2 DEF WaitInv, SimpleInv, CacheInv, TypeOK, ObligationsAreOpen, CallsInv, CallInv
    <3> QED
      BY <3>1 DEF PlaceFits, UnderWay
  <2> QED
    BY <1>1, <2>1, <2>2, Waiting
<1>2. ASSUME WaitInv, NEW t \in Txs, At(t, "lookup")
      PROVE  handle[t] = "pending" \/ (handle[t] = "open" /\ refs[t] = {"call"})
  <2>1. handle[t] \in {"none", "pending", "open"} /\ PlaceFits(t) /\ LookupHolds(t)
    BY <1>2 DEF WaitInv, SimpleInv, CacheInv, TypeOK, CallsInv, CallInv
  <2> QED
    BY <1>2, <2>1 DEF PlaceFits, LookupHolds, At
<1>3. WaitInv => NobodyWaitsInVain
  BY <1>1, <1>2, NoCircle DEF NobodyWaitsInVain
<1> QED
  BY WaitInvariant, <1>3, PTL

===============================================================================
