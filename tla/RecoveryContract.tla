--------------------------- MODULE RecoveryContract ---------------------------
(***************************************************************************)
(* What an agent-driven episode promises, whatever happens inside a day:   *)
(* a failed invoice is recovered, or the subscription halts; a halted one  *)
(* can still be rescued, but only if it opened with a broken card; at most *)
(* ContactBudget contacts are spent, all of them while something was still *)
(* open; and the episode closes, never with its outcome undecided.         *)
(***************************************************************************)
EXTENDS Naturals

CONSTANT ContactBudget

VARIABLES
  outcome,     \* "open", "recovered", "halted", "rescued" or "cancelled"
  repairable,  \* the card was broken at opening
  spent,       \* agent contacts so far
  closed

contractVars == <<outcome, repairable, spent, closed>>

ContractInit ==
  /\ outcome \in {"open", "cancelled"}
  /\ repairable \in BOOLEAN
  /\ spent = 0
  /\ closed = (outcome = "cancelled")

AfterRepair(o) == IF repairable THEN {o, "rescued"} ELSE {o}

Contact ==
  /\ ~closed /\ spent < ContactBudget /\ outcome \in {"open", "halted"}
  /\ spent' = spent + 1
  /\ outcome' \in IF outcome = "halted" THEN AfterRepair("halted") ELSE {"open"}
  /\ UNCHANGED <<repairable, closed>>

Recover ==
  /\ ~closed /\ outcome = "open" /\ outcome' = "recovered"
  /\ UNCHANGED <<repairable, spent, closed>>

GiveUp ==   \* the halt, whose own email may already repair the card
  /\ ~closed /\ outcome = "open" /\ outcome' \in AfterRepair("halted")
  /\ UNCHANGED <<repairable, spent, closed>>

Close ==
  /\ ~closed /\ outcome # "open" /\ closed' = TRUE
  /\ UNCHANGED <<outcome, repairable, spent>>

ContractNext == Contact \/ Recover \/ GiveUp \/ Close

ContractSpec ==
  ContractInit /\ [][ContractNext]_contractVars
               /\ WF_contractVars(Recover \/ GiveUp \/ Close)

=============================================================================
