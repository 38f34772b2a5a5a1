--------------------------- MODULE CacheTransaction ---------------------------
(***************************************************************************)
(* The transactional interface of fastly::cache::core (cache/core.h,       *)
(* src/cpp/cache/core.cpp).  A transactional lookup gets a handle from the *)
(* host.  Of all the handles that miss a key the host obliges one to       *)
(* insert the item; the others wait.  The C++ objects made from a lookup   *)
(* share the handle through shared_ptr, and the handle closes with the     *)
(* last of them.                                                           *)
(*                                                                         *)
(* The cache itself is the host's, and external: how a pending lookup is   *)
(* resolved, what an insert and a close do to the obligation, expiry and   *)
(* purging.  A body number stands for a cached object.  A call that the    *)
(* host refuses returns an error and changes nothing; it has no action.    *)
(***************************************************************************)
EXTENDS Integers, FiniteSets

CONSTANTS
  Keys,
  Txs,        \* places for the objects of one transactional lookup
  Owner,      \* [Txs -> Instances]: the wasm instance that makes the lookup
  StateFails, \* may cache_get_state fail on a resolved handle
  MaxBodies   \* bound: bodies that exist at a time

Instances == {Owner[t] : t \in Txs}
Bodies == 1 .. MaxBodies
NoBody == 0

ASSUME CacheAssumption ==
  /\ Keys # {}
  /\ MaxBodies \in Nat
  /\ StateFails \in BOOLEAN
  /\ Owner \in [Txs -> Instances]

VARIABLES
  cached,  \* [Keys -> body of the item, or NoBody]
  stale,   \* the keys whose item is usable but stale
  body,    \* [Bodies -> BodyStates]: how far the body was written
  obliged, \* the handles that must insert or update
  handle,  \* [Txs -> {"none", "pending", "open"}]: the handle of a lookup
  key,     \* [Txs -> Keys]: the key looked up
  seen,    \* [Txs -> body found by the lookup, or NoBody]
  refs,    \* [Txs -> SUBSET Holders]: what holds the number of the handle
  lost,    \* the open handles whose number was forgotten
  writing, \* [Txs -> body of the StreamingBody of an insert, or NoBody]
  back,    \* [Txs -> body of the Found of execute_and_stream_back, or NoBody]
  reading  \* [Txs -> body of the Body that to_stream made, or NoBody]

hostVars == <<cached, stale, body>>
bodyVars == <<writing, back, reading>>
vars == <<cached, stale, body, obliged, handle, key, seen, refs, lost,
          writing, back, reading>>

BodyStates == {"streaming", "complete", "broken"}
Streams == {b \in Bodies : body[b] = "streaming"}

\* A running execute(), a PendingTransaction, a Transaction, a Found and a
\* builder for an insert or an update.
Holders == {"call", "busy", "tx", "found", "insert", "update"}

\* A StreamingBody always writes to a body that is still being streamed.
TypeOK ==
  /\ cached \in [Keys -> Bodies \cup {NoBody}]
  /\ stale \in SUBSET Keys
  /\ body \in [Bodies -> BodyStates]
  /\ obliged \in SUBSET Txs
  /\ handle \in [Txs -> {"none", "pending", "open"}]
  /\ key \in [Txs -> Keys]
  /\ seen \in [Txs -> Bodies \cup {NoBody}]
  /\ refs \in [Txs -> SUBSET Holders]
  /\ lost \in SUBSET Txs
  /\ writing \in [Txs -> Streams \cup {NoBody}]
  /\ back \in [Txs -> Bodies \cup {NoBody}]
  /\ reading \in [Txs -> Bodies \cup {NoBody}]

Init ==
  /\ cached = [k \in Keys |-> NoBody]
  /\ stale = {}
  /\ body = [b \in Bodies |-> "broken"]
  /\ obliged = {}
  /\ handle = [t \in Txs |-> "none"]
  /\ key = [t \in Txs |-> CHOOSE k \in Keys : TRUE]
  /\ seen = [t \in Txs |-> NoBody]
  /\ refs = [t \in Txs |-> {}]
  /\ lost = {}
  /\ writing = [t \in Txs |-> NoBody]
  /\ back = [t \in Txs |-> NoBody]
  /\ reading = [t \in Txs |-> NoBody]

-------------------------------------------------------------------------------
(* The host. *)

Fresh(k) == cached[k] # NoBody /\ k \notin stale

\* Somebody else has to provide the item of k.
BeingSet(k) == \E u \in obliged : key[u] = k

\* The host answers a pending lookup: with the item, when it is fresh or when
\* it may be used while somebody updates it, or else with the obligation, when
\* nobody has it.  A lookup that finds neither goes on waiting.
Resolve(t) ==
  /\ handle[t] = "pending"
  /\ \/ /\ Fresh(key[t]) \/ (cached[key[t]] # NoBody /\ BeingSet(key[t]))
        /\ UNCHANGED obliged
     \/ /\ ~Fresh(key[t]) /\ ~BeingSet(key[t])
        /\ obliged' = obliged \cup {t}
  /\ handle' = [handle EXCEPT ![t] = "open"]
  /\ seen' = [seen EXCEPT ![t] = cached[key[t]]]
  /\ UNCHANGED <<hostVars, key, refs, lost, bodyVars>>

Expire(k) ==
  /\ Fresh(k)
  /\ stale' = stale \cup {k}
  /\ UNCHANGED <<cached, body, obliged, handle, key, seen, refs, lost, bodyVars>>

\* A purge, or the end of the time a stale item may be used.
Purge(k) ==
  /\ cached[k] # NoBody
  /\ cached' = [cached EXCEPT ![k] = NoBody]
  /\ stale' = stale \ {k}
  /\ UNCHANGED <<body, obliged, handle, key, seen, refs, lost, bodyVars>>

\* Nobody has the body b any more.
Unused(b) ==
  /\ \A k \in Keys : cached[k] # b
  /\ \A t \in Txs : b \notin {seen[t], writing[t], back[t], reading[t]}

\* The item of k becomes a fresh one with a new body, written by t.
Store(t, k) ==
  \E b \in Bodies :
    /\ Unused(b)
    /\ \A c \in Bodies : Unused(c) => b <= c
    /\ body' = [body EXCEPT ![b] = "streaming"]
    /\ cached' = [cached EXCEPT ![k] = b]
    /\ stale' = stale \ {k}
    /\ writing' = [writing EXCEPT ![t] = b]

-------------------------------------------------------------------------------
(* Handles and the objects that share them. *)

Idle(t) == handle[t] = "none" /\ {writing[t], back[t], reading[t]} = {NoBody}

\* The handles of T are closed: the host takes the obligation back.
Closed(T) ==
  /\ handle' = [t \in Txs |-> IF t \in T THEN "none" ELSE handle[t]]
  /\ seen' = [t \in Txs |-> IF t \in T THEN NoBody ELSE seen[t]]
  /\ obliged' = obliged \ T

\* One object that holds the handle of t goes; the last one closes it.
Drop_Eager(t, r) ==
  /\ r \in refs[t]
  /\ refs' = [refs EXCEPT ![t] = @ \ {r}]
  /\ Closed({t})
Drop_Never(t, r) ==
  /\ r \in refs[t]
  /\ refs' = [refs EXCEPT ![t] = @ \ {r}]
  /\ UNCHANGED <<handle, seen, obliged>>
Drop(t, r) ==
  /\ r \in refs[t]
  /\ refs' = [refs EXCEPT ![t] = @ \ {r}]
  /\ \/ refs[t] = {r} /\ Closed({t})
     \/ refs[t] # {r} /\ UNCHANGED <<handle, seen, obliged>>

\* cache_transaction_lookup, by execute() or by execute_async().
StartLookup(t, k, holder) ==
  /\ Idle(t)
  /\ handle' = [handle EXCEPT ![t] = "pending"]
  /\ key' = [key EXCEPT ![t] = k]
  /\ refs' = [refs EXCEPT ![t] = {holder}]
  /\ UNCHANGED <<hostVars, obliged, seen, lost, bodyVars>>

\* execute() or wait(): cache_get_state blocks until the lookup is resolved,
\* and then the Transaction is made.  When it fails instead, the number of the
\* handle is forgotten and nothing will close it.  The busy handle of a wait is
\* used up; its object may stay, but has nothing to close.
FinishLookup(t, holder) ==
  /\ refs[t] = {holder}
  /\ handle[t] = "open"
  /\ refs' = [refs EXCEPT ![t] = {"tx"}]
  /\ UNCHANGED <<hostVars, obliged, handle, key, seen, lost, bodyVars>>

FailLookup(t, holder) ==
  /\ StateFails
  /\ refs[t] = {holder}
  /\ handle[t] = "open"
  /\ refs' = [refs EXCEPT ![t] = {}]
  /\ lost' = lost \cup {t}
  /\ UNCHANGED <<hostVars, obliged, handle, key, seen, bodyVars>>

\* The bits of cache_get_state, as the Transaction tests them.
must_insert_or_update(t) == t \in obliged
must_insert(t) == seen[t] = NoBody /\ t \in obliged
found(t) == seen[t] # NoBody

\* Transaction::found, insert and update copy the shared_ptr.
Share(t, r) ==
  /\ "tx" \in refs[t]
  /\ r \notin refs[t]
  /\ refs' = [refs EXCEPT ![t] = @ \cup {r}]
  /\ UNCHANGED <<hostVars, obliged, handle, key, seen, lost, bodyVars>>

GetFound(t) == found(t) /\ Share(t, "found")
GetBuilder(t, r) == r \in {"insert", "update"} /\ Share(t, r)

DropRef(t, r) == Drop(t, r) /\ UNCHANGED <<hostVars, key, lost, bodyVars>>

-------------------------------------------------------------------------------
(* What a transaction does to the cache. *)

cancel_insert_or_update(t) ==
  /\ "tx" \in refs[t]
  /\ must_insert_or_update(t)
  /\ obliged' = obliged \ {t}
  /\ UNCHANGED <<hostVars, handle, key, seen, refs, lost, bodyVars>>

\* TransactionInsertBuilder::execute and execute_and_stream_back: the host
\* takes the insert of an obliged handle alone.  The second also makes a Found,
\* with a handle of its own, of the new item.
Insert(t, streamBack) ==
  /\ "insert" \in refs[t]
  /\ writing[t] = NoBody /\ back[t] = NoBody
  /\ must_insert_or_update(t)
  /\ Store(t, key[t])
  /\ obliged' = obliged \ {t}
  /\ back' = IF streamBack THEN [back EXCEPT ![t] = writing'[t]] ELSE back
  /\ UNCHANGED <<handle, key, seen, refs, lost, reading>>

\* TransactionUpdateBuilder::execute: the host takes the update of an obliged
\* handle that found an item.  An item purged meanwhile stays away.
Update(t) ==
  /\ "update" \in refs[t]
  /\ must_insert_or_update(t) /\ found(t)
  /\ stale' = stale \ {key[t]}
  /\ obliged' = obliged \ {t}
  /\ UNCHANGED <<cached, body, handle, key, seen, refs, lost, bodyVars>>

\* StreamingBody::finish, or the end of a StreamingBody that was not finished.
EndBody_KeepsWriter(t, state) ==
  /\ writing[t] # NoBody
  /\ body' = [body EXCEPT ![writing[t]] = state]
  /\ UNCHANGED <<cached, stale, obliged, handle, key, seen, refs, lost, bodyVars>>
EndBody(t, state) ==
  /\ writing[t] # NoBody
  /\ body' = [body EXCEPT ![writing[t]] = state]
  /\ writing' = [writing EXCEPT ![t] = NoBody]
  /\ UNCHANGED <<cached, stale, obliged, handle, key, seen, refs, lost, back, reading>>

DropBack(t) ==
  /\ back[t] # NoBody
  /\ back' = [back EXCEPT ![t] = NoBody]
  /\ UNCHANGED <<hostVars, obliged, handle, key, seen, refs, lost, writing, reading>>

\* Found::to_stream, of a Found of the lookup or of the stream back.
to_stream(t, b) ==
  /\ b # NoBody
  /\ reading[t] = NoBody
  /\ b = back[t] \/ (b = seen[t] /\ "found" \in refs[t])
  /\ reading' = [reading EXCEPT ![t] = b]
  /\ UNCHANGED <<hostVars, obliged, handle, key, seen, refs, lost, writing, back>>

DropBody(t) ==
  /\ reading[t] # NoBody
  /\ reading' = [reading EXCEPT ![t] = NoBody]
  /\ UNCHANGED <<hostVars, obliged, handle, key, seen, refs, lost, writing, back>>

\* core::insert and core::lookup, which take no part in the collapsing.  A
\* lookup that finds nothing returns without closing its handle.
PlainInsert(t, k) ==
  /\ Idle(t)
  /\ Store(t, k)
  /\ UNCHANGED <<obliged, handle, key, seen, refs, lost, back, reading>>

PlainLookup(t, k) ==
  /\ Idle(t)
  /\ handle' = [handle EXCEPT ![t] = "open"]
  /\ key' = [key EXCEPT ![t] = k]
  /\ seen' = [seen EXCEPT ![t] = cached[k]]
  /\ \/ /\ cached[k] # NoBody
        /\ refs' = [refs EXCEPT ![t] = {"found"}]
        /\ UNCHANGED lost
     \/ /\ cached[k] = NoBody \/ StateFails
        /\ lost' = lost \cup {t}
        /\ UNCHANGED refs
  /\ UNCHANGED <<hostVars, obliged, bodyVars>>

\* An instance ends, by returning or by a trap: no destructor need have run,
\* and the host closes everything the instance had.
EndOf(T) ==
  /\ Closed(T)
  /\ refs' = [t \in Txs |-> IF t \in T THEN {} ELSE refs[t]]
  /\ back' = [t \in Txs |-> IF t \in T THEN NoBody ELSE back[t]]
  /\ reading' = [t \in Txs |-> IF t \in T THEN NoBody ELSE reading[t]]
  /\ writing' = [t \in Txs |-> IF t \in T THEN NoBody ELSE writing[t]]
  /\ body' = [b \in Bodies |-> IF \E t \in T : writing[t] = b THEN "broken" ELSE body[b]]
  /\ lost' = lost \ T
  /\ UNCHANGED <<cached, stale, key>>

EndInstance(i) == EndOf({t \in Txs : Owner[t] = i})

-------------------------------------------------------------------------------
(* Programs: any use of the objects. *)

Next ==
  \/ \E k \in Keys : Expire(k) \/ Purge(k)
  \/ \E t \in Txs :
       \/ Resolve(t)
       \/ \E k \in Keys : \E h \in {"call", "busy"} : StartLookup(t, k, h)
       \/ \E h \in {"call", "busy"} : FinishLookup(t, h) \/ FailLookup(t, h)
       \/ GetFound(t)
       \/ \E r \in Holders : GetBuilder(t, r)
       \/ \E r \in Holders \ {"call"} : DropRef(t, r)
       \/ cancel_insert_or_update(t)
       \/ \E streamBack \in BOOLEAN : Insert(t, streamBack)
       \/ Update(t)
       \/ \E state \in {"complete", "broken"} : EndBody(t, state)
       \/ \E b \in Bodies : to_stream(t, b)
       \/ DropBack(t) \/ DropBody(t)
       \/ \E k \in Keys : PlainInsert(t, k) \/ PlainLookup(t, k)
  \/ \E i \in Instances : EndInstance(i)

Spec == Init /\ [][Next]_vars

-------------------------------------------------------------------------------
(* Properties. *)

\* However a program shares, drops and passes on its objects, an object that
\* is still there never uses a handle that was closed.
ObjectsHaveHandles == \A t \in Txs : refs[t] # {} => handle[t] # "none"

\* A handle, and with it an obligation, is always in the hands of an object:
\* the last one to go closes it, so that nobody waits for an item that nobody
\* is to provide.  The handles that a failing cache_get_state and a lookup
\* without a result forget are the exception.
HandlesAreHeld ==
  \A t \in Txs : handle[t] # "none" => refs[t] # {} \/ t \in lost

\* Among all the instances at most one is to provide the item of a key.
OneSetterPerKey == \A t, u \in obliged : key[t] = key[u] => t = u

===============================================================================
