-------------------------------- MODULE Answers --------------------------------
(***************************************************************************)
(* What asynchronous requests promise a program: each of them comes to one *)
(* outcome, the answer of its own backend, one at a time and only when     *)
(* there is an answer, or else the program itself has let it go.           *)
(***************************************************************************)

CONSTANT Exchanges

VARIABLES
  outcome,  \* [Exchanges -> Outcomes]
  answered, \* the exchanges that were answered with a response
  failed    \* the exchanges that failed

Outcomes == {"unsent", "pending", "response", "error", "abandoned"}

AnswersTypeOK ==
  /\ outcome \in [Exchanges -> Outcomes]
  /\ answered \in SUBSET Exchanges
  /\ failed \in SUBSET Exchanges

AnswersInit ==
  /\ outcome = [x \in Exchanges |-> "unsent"]
  /\ answered = {}
  /\ failed = {}

Comes(x, from, to) ==
  /\ outcome[x] = from
  /\ outcome' = [outcome EXCEPT ![x] = to]
  /\ UNCHANGED <<answered, failed>>

Begin(x) == Comes(x, "unsent", "pending")
Refuse(x) == Comes(x, "unsent", "error")
Abandon(x) == Comes(x, "pending", "abandoned")
Deliver(x) ==
  \/ x \in answered /\ Comes(x, "pending", "response")
  \/ x \in failed /\ Comes(x, "pending", "error")

\* The world outside, which goes on with abandoned exchanges too.
Answer(x) ==
  /\ x \notin answered \cup failed
  /\ \/ answered' = answered \cup {x} /\ UNCHANGED failed
     \/ failed' = failed \cup {x} /\ UNCHANGED answered
  /\ UNCHANGED outcome

\* The end of the program, which lets all of its exchanges go.
Quit ==
  /\ outcome' = [x \in Exchanges |->
                   IF outcome[x] = "pending" THEN "abandoned" ELSE outcome[x]]
  /\ UNCHANGED <<answered, failed>>

AnswersNext ==
  \/ \E x \in Exchanges :
       Begin(x) \/ Refuse(x) \/ Abandon(x) \/ Deliver(x) \/ Answer(x)
  \/ Quit

AnswersSpec == AnswersInit /\ [][AnswersNext]_<<outcome, answered, failed>>

===============================================================================
