------------------------------ MODULE SimpleCache ------------------------------
(***************************************************************************)
(* fastly::cache::simple::get_or_set_with (cache/simple.h): the clients of *)
(* CacheTransaction that all run the same program.  Every host call of it  *)
(* is a step of its own, so that the calls of several instances interleave *)
(* between them; the closure of the user runs inside a call, may take any  *)
(* time, fail, trap, or call get_or_set_with for another key.              *)
(***************************************************************************)
EXTENDS CacheTransaction

CONSTANTS
  NoTx,
  Outer, \* [Txs -> Txs or NoTx]: the call whose closure makes this call
  Below  \* [Keys -> SUBSET Keys]: the keys the closure for a key asks for

ASSUME SimpleCacheAssumption ==
  /\ NoTx \notin Txs
  /\ Outer \in [Txs -> Txs \cup {NoTx}]
  /\ \A t \in Txs : Outer[t] # NoTx => Owner[Outer[t]] = Owner[t]
  /\ Below \in [Keys -> SUBSET Keys]

VARIABLES
  pc,    \* [Txs -> Places]: where each call is
  code   \* [Txs -> Codes]: the CacheError it returned, if it did

simpleVars == <<pc, code>>
allVars == <<cached, stale, body, obliged, handle, key, seen, refs, lost,
             writing, back, reading, pc, code>>

Places == {"idle", "lookup", "test", "hit", "closure", "insert", "fill",
           "stream", "done"}
Codes == {"ok", "Host", "InvalidOperation", "GetOrSet", "Other"}

SimpleTypeOK ==
  /\ TypeOK
  /\ pc \in [Txs -> Places]
  /\ code \in [Txs -> Codes]

SimpleInit ==
  /\ Init
  /\ pc = [t \in Txs |-> "idle"]
  /\ code = [t \in Txs |-> "ok"]

At(t, place) == pc[t] = place
Goto(t, place) == pc' = [pc EXCEPT ![t] = place] /\ UNCHANGED code

\* The call returns: its locals go, the last of them closes the handle of the
\* lookup, a StreamingBody that was not finished is cut short, and the Body b
\* is what the caller keeps.
Return_KeepsWriter(t, c, b) ==
  /\ pc' = [pc EXCEPT ![t] = "done"]
  /\ code' = [code EXCEPT ![t] = c]
  /\ Closed({t})
  /\ refs' = [refs EXCEPT ![t] = {}]
  /\ back' = [back EXCEPT ![t] = NoBody]
  /\ reading' = [reading EXCEPT ![t] = b]
  /\ body' = [x \in Bodies |-> IF x = writing[t] THEN "broken" ELSE body[x]]
  /\ UNCHANGED <<cached, stale, key, lost, writing>>
Return_KeepsHandle(t, c, b) ==
  /\ pc' = [pc EXCEPT ![t] = "done"]
  /\ code' = [code EXCEPT ![t] = c]
  /\ refs' = [refs EXCEPT ![t] = {}]
  /\ back' = [back EXCEPT ![t] = NoBody]
  /\ reading' = [reading EXCEPT ![t] = b]
  /\ writing' = [writing EXCEPT ![t] = NoBody]
  /\ body' = [x \in Bodies |-> IF x = writing[t] THEN "broken" ELSE body[x]]
  /\ UNCHANGED <<cached, stale, key, lost, handle, seen, obliged>>
Return(t, c, b) ==
  /\ pc' = [pc EXCEPT ![t] = "done"]
  /\ code' = [code EXCEPT ![t] = c]
  /\ Closed({t})
  /\ refs' = [refs EXCEPT ![t] = {}]
  /\ back' = [back EXCEPT ![t] = NoBody]
  /\ reading' = [reading EXCEPT ![t] = b]
  /\ writing' = [writing EXCEPT ![t] = NoBody]
  /\ body' = [x \in Bodies |-> IF x = writing[t] THEN "broken" ELSE body[x]]
  /\ UNCHANGED <<cached, stale, key, lost>>

-------------------------------------------------------------------------------
(* The steps of get_or_set_with. *)

\* An instance is single-threaded: its outer call starts when nothing else
\* runs, an inner one from the closure of the outer.
MayCall(t, k) ==
  \/ Outer[t] = NoTx
  \/ Outer[t] # NoTx /\ At(Outer[t], "closure") /\ k \in Below[key[Outer[t]]]

\* Transaction::lookup(key).execute() starts, or fails at once.
Ask(t, k) ==
  /\ At(t, "idle")
  /\ MayCall(t, k)
  /\ StartLookup(t, k, "call")
  /\ Goto(t, "lookup")

RefuseLookup(t, k) ==
  /\ At(t, "idle")
  /\ Idle(t)
  /\ MayCall(t, k)
  /\ pc' = [pc EXCEPT ![t] = "done"]
  /\ code' = [code EXCEPT ![t] = "Host"]
  /\ UNCHANGED vars

Lookup(t) ==
  /\ At(t, "lookup")
  /\ \/ FinishLookup(t, "call") /\ Goto(t, "test")
     \/ /\ FailLookup(t, "call")
        /\ pc' = [pc EXCEPT ![t] = "done"]
        /\ code' = [code EXCEPT ![t] = "Host"]

\* Does the call run its closure?
MustMake_Stale(t) == key[t] \in stale \/ must_insert(t)
MustMake_ToUpdate(t) == must_insert_or_update(t) /\ ~must_insert(t)
MustMake(t) == must_insert_or_update(t)

Test(t) ==
  /\ At(t, "test")
  /\ Goto(t, IF MustMake(t) THEN "closure" ELSE "hit")
  /\ UNCHANGED vars

\* found()->to_stream(), or the branch for a lookup with no obligation and no
\* item.
Hit(t) ==
  /\ At(t, "hit")
  /\ \/ found(t) /\ Return(t, "ok", seen[t])
     \/ found(t) /\ Return(t, "Host", NoBody)
     \/ ~found(t) /\ Return(t, "InvalidOperation", NoBody)

\* The closure ends, with an entry or with nullopt.
MakeEntry_Retries(t) ==
  /\ At(t, "closure")
  /\ \A u \in Txs : Outer[u] = t => pc[u] \in {"idle", "done"}
  /\ Goto(t, "insert") \/ Goto(t, "test")
  /\ UNCHANGED vars
MakeEntry(t) ==
  /\ At(t, "closure")
  /\ \A u \in Txs : Outer[u] = t => pc[u] \in {"idle", "done"}
  /\ \/ Goto(t, "insert") /\ UNCHANGED vars
     \/ Return(t, "GetOrSet", NoBody)

\* insert(ttl).surrogate_keys(..).execute_and_stream_back(): the builder and
\* its reference live no longer than the expression.
InsertEntry(t) ==
  /\ At(t, "insert")
  /\ \/ /\ must_insert_or_update(t)
        /\ Store(t, key[t])
        /\ obliged' = obliged \ {t}
        /\ back' = [back EXCEPT ![t] = writing'[t]]
        /\ Goto(t, "fill")
        /\ UNCHANGED <<handle, key, seen, refs, lost, reading>>
     \/ Return(t, "Host", NoBody)

\* insert_body.append(..) and insert_body.finish(); append cannot fail without
\* a trap.
Fill_Unchecked(t) ==
  /\ At(t, "fill")
  /\ \E state \in {"complete", "broken"} : EndBody(t, state)
  /\ Goto(t, "stream")
Fill(t) ==
  /\ At(t, "fill")
  /\ \/ EndBody(t, "complete") /\ Goto(t, "stream")
     \/ Return(t, "Other", NoBody)

\* found.to_stream() of the Found that was streamed back.
StreamBack(t) ==
  /\ At(t, "stream")
  /\ \/ Return(t, "ok", back[t])
     \/ Return(t, "Host", NoBody)

\* The caller drops the result and may call again; a closure makes an inner
\* call once.
Forget(t) ==
  /\ At(t, "done")
  /\ Outer[t] # NoTx => ~At(Outer[t], "closure")
  /\ t \notin lost
  /\ pc' = [pc EXCEPT ![t] = "idle"]
  /\ code' = [code EXCEPT ![t] = "ok"]
  /\ reading' = [reading EXCEPT ![t] = NoBody]
  /\ UNCHANGED <<cached, stale, body, obliged, handle, key, seen, refs, lost, writing, back>>

\* The instance returns from its last call, or traps in the midst of one.
CallsOf(i) == {t \in Txs : Owner[t] = i}
End(i) ==
  /\ EndInstance(i)
  /\ pc' = [t \in Txs |-> IF t \in CallsOf(i) THEN "idle" ELSE pc[t]]
  /\ code' = [t \in Txs |-> IF t \in CallsOf(i) THEN "ok" ELSE code[t]]

Exit(i) == (\A t \in CallsOf(i) : pc[t] \in {"idle", "done"}) /\ End(i)

Step(t) ==
  \/ Lookup(t) \/ Test(t) \/ Hit(t) \/ MakeEntry(t) \/ InsertEntry(t)
  \/ Fill(t) \/ StreamBack(t) \/ Forget(t)

SimpleNext ==
  \/ \E k \in Keys : (Expire(k) \/ Purge(k)) /\ UNCHANGED simpleVars
  \/ \E t \in Txs :
       \/ Resolve(t) /\ UNCHANGED simpleVars
       \/ \E k \in Keys : Ask(t, k) \/ RefuseLookup(t, k)
       \/ Step(t)
  \/ \E i \in Instances : End(i)

\* Programs go on, closures end, instances that have returned exit, and the
\* host answers a lookup that it could answer again and again.
Fairness ==
  /\ \A t \in Txs : WF_allVars(Step(t))
  /\ \A t \in Txs : SF_allVars(Resolve(t) /\ UNCHANGED simpleVars)
  /\ \A i \in Instances : WF_allVars(Exit(i))

SimpleSpec == SimpleInit /\ [][SimpleNext]_allVars
FairSpec == SimpleSpec /\ Fairness

-------------------------------------------------------------------------------
(* Properties. *)

\* The calls of all instances together make the entry of a key one at a time,
\* as SingleFlight says.  A call whose cache_get_state failed may have left the
\* obligation behind: then nobody else makes the entry until the instance ends,
\* as if the call were at it still.
Phase(t) ==
  CASE At(t, "idle")                                   -> "idle"
    [] At(t, "lookup") /\ handle[t] = "pending"        -> "waiting"
    [] pc[t] \in {"lookup", "test"} /\ handle[t] = "open" ->
         IF t \in obliged THEN "making" ELSE "given"
    [] At(t, "hit")                                    -> "given"
    [] pc[t] \in {"closure", "insert"}                 -> "making"
    [] pc[t] \in {"fill", "stream"}                    -> "made"
    [] At(t, "done")                                   ->
         IF code[t] = "ok" THEN "value"
         ELSE IF t \in obliged THEN "making" ELSE "error"

Flight == INSTANCE SingleFlight WITH
            Calls <- Txs,
            phase <- [t \in Txs |-> Phase(t)],
            want <- key,
            item <- [k \in Keys |-> IF Fresh(k) THEN "fresh"
                                    ELSE IF cached[k] # NoBody THEN "stale"
                                    ELSE "absent"]
IsSingleFlight == Flight!Spec

\* simple.h: InvalidOperation "should not arise during use of this API".  The
\* branch of get_or_set_with that answers it, without asking the host, is never
\* reached; whatever error the host answers is "Host" here.
NoInvalidOperation == \A t \in Txs : At(t, "done") => code[t] # "InvalidOperation"

\* What a call that ran its closure returns is the whole entry, however often
\* the item expires, is purged or is set by others before the return.
OwnEntryIsWhole ==
  [][\A t \in Txs :
       At(t, "stream") /\ (At(t, "done") /\ code[t] = "ok")'
         => body[reading'[t]] = "complete" /\ reading'[t] = back[t]]_allVars

\* Every call returns, as long as its own instance does not trap: it waits only
\* for calls that come to an end.  The one exception is an instance that has
\* forgotten an obligation in a failed lookup and never ends, because it waits
\* for that obligation itself, or for a call that does.
CallsReturn ==
  \A t \in Txs :
    [](At(t, "lookup") => <>(pc[t] \in {"done", "idle"} \/ [](lost \cap obliged # {})))

\* A lookup that the host can answer, and what keeps a call from going on: the
\* one that is to provide the item it looked up, or the calls of its closure.
\* A call that waits for nobody has a step to take.
UnderWay(t) == pc[t] \notin {"idle", "done"}
Answerable(t) == Fresh(key[t]) \/ cached[key[t]] # NoBody \/ ~BeingSet(key[t])
WaitsFor(t) ==
  IF At(t, "lookup") /\ handle[t] = "pending" /\ ~Answerable(t)
  THEN {u \in obliged : key[u] = key[t]}
  ELSE IF At(t, "closure") THEN {u \in Txs : Outer[u] = t /\ UnderWay(u)}
  ELSE {}

\* No closure leads back to its own key: among any keys there is one whose
\* closure asks for none of them.
KeysAreOrdered == \A K \in SUBSET Keys : K # {} => \E k \in K : Below[k] \cap K = {}

\* core.h:510: execute() blocks until the other client "provides the object's
\* metadata or cancels".  Nobody waits for a call that has returned, save one
\* that left its obligation behind in a failed lookup, and the calls, within an
\* instance and from one to another, never wait for each other in a circle as
\* long as the closures do not.  An answered lookup has all it needs to go on.
NobodyWaitsInVain ==
  /\ \A t \in Txs : \A u \in WaitsFor(t) : UnderWay(u) \/ u \in lost
  /\ KeysAreOrdered =>
       \A C \in SUBSET Txs : C # {} => \E t \in C : WaitsFor(t) \cap C = {}
  /\ \A t \in Txs :
       At(t, "lookup") => handle[t] = "pending" \/ (handle[t] = "open" /\ refs[t] = {"call"})

\* core.h: another may be required to insert the item if the caller providing
\* it "encountered an error".
ErrorHandsOn == \A t \in Txs : At(t, "done") /\ code[t] # "ok" => t \notin obliged

===============================================================================
