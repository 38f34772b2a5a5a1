----------------------------- MODULE SingleFlight -----------------------------
(***************************************************************************)
(* What get_or_set_with promises to all the clients of a cache together:   *)
(* the entry of a key is made by one of them at a time and only while      *)
(* there is no fresh one; the others wait for it, or take over when the    *)
(* one gives up, fails or ends.                                            *)
(***************************************************************************)
EXTENDS Integers

CONSTANTS Calls,  \* the calls that run at a time
          Keys

VARIABLES
  phase, \* [Calls -> Phases]
  want,  \* [Calls -> Keys]: the key the call asks for
  item   \* [Keys -> {"absent", "fresh", "stale"}]

vars == <<phase, want, item>>

\* A call waits, then it is given an item or it makes one, and then it returns
\* a value or an error.
Phases == {"idle", "waiting", "given", "making", "made", "value", "error"}

Init ==
  /\ phase = [c \in Calls |-> "idle"]
  /\ want \in [Calls -> Keys]
  /\ item = [k \in Keys |-> "absent"]

BeingMade(k) == \E c \in Calls : phase[c] = "making" /\ want[c] = k

Step(c, from, to) ==
  /\ phase[c] \in from
  /\ phase' = [phase EXCEPT ![c] = to]

Ask(c, k) ==
  /\ Step(c, {"idle"}, "waiting")
  /\ want' = [want EXCEPT ![c] = k]
  /\ UNCHANGED item

\* A fresh item is for everybody, a stale one for those who come while another
\* call makes a new one.
Give(c) ==
  /\ \/ item[want[c]] = "fresh"
     \/ item[want[c]] = "stale" /\ BeingMade(want[c])
  /\ Step(c, {"waiting"}, "given")
  /\ UNCHANGED <<want, item>>

Oblige(c) ==
  /\ item[want[c]] # "fresh"
  /\ ~BeingMade(want[c])
  /\ Step(c, {"waiting"}, "making")
  /\ UNCHANGED <<want, item>>

Publish(c) ==
  /\ Step(c, {"making"}, "made")
  /\ item' = [item EXCEPT ![want[c]] = "fresh"]
  /\ UNCHANGED want

\* An error may come back before the call has waited for anything.
Return(c) ==
  /\ \/ Step(c, {"given", "made"}, "value")
     \/ Step(c, Phases \ {"value"}, "error")
  /\ UNCHANGED <<want, item>>

Forget(C) ==
  /\ phase' = [c \in Calls |-> IF c \in C THEN "idle" ELSE phase[c]]
  /\ UNCHANGED <<want, item>>

\* The platform's own doing: an item ages or goes, or an instance ends.
Age(k) ==
  /\ \/ item[k] = "fresh" /\ item' = [item EXCEPT ![k] = "stale"]
     \/ item[k] # "absent" /\ item' = [item EXCEPT ![k] = "absent"]
  /\ UNCHANGED <<phase, want>>

Next ==
  \/ \E k \in Keys : Age(k)
  \/ \E c \in Calls :
       \/ \E k \in Keys : Ask(c, k)
       \/ Give(c) \/ Oblige(c) \/ Publish(c) \/ Return(c)
  \/ \E C \in SUBSET Calls : Forget(C)

Spec == Init /\ [][Next]_vars
===============================================================================
