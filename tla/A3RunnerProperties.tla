------------------------- MODULE A3RunnerProperties --------------------------
(***************************************************************************)
(* What run_episode_a3 promises.  The properties of the first group hold   *)
(* under every policy, those of the second are A3-D's own.                 *)
(***************************************************************************)
EXTENDS A3Runner

Phases == {"open", "decide", "retry", "halt", "ledger", "done"}

GateRuleNames == {NoRule} \cup {Precedence[k] : k \in DOMAIN Precedence}

FallbackReasons ==
  {"none", "gate_rejected", "no_executor_mapping"} \cup PlannerFallbacks

TickRecords ==
  [type : TickTypes, before : 0..MaxContacts, after : 0..MaxContacts,
   proposal : ProposalRecords, rule : GateRuleNames,
   fallback : FallbackReasons, executed : ExecutedActions]

\* Every variable keeps its type.  The contacts never exceed the budget, so the
\* budget columns of the ledger never go negative; the loop writes at most one
\* record for each of the WindowDays + 1 days; and the two lengths the runner
\* remembers never pass the end of the history they index.
TypeOK ==
  /\ condition \in Conditions
  /\ ep \in EpisodeState
  /\ ep.contacts \in 0..MaxContacts
  /\ day \in 0..WindowDays
  /\ phase \in Phases
  /\ halted \in BOOLEAN
  /\ stopped \in BOOLEAN
  /\ lastWake \in 0..Len(ep.history)
  /\ tick \in TickRecords
  /\ ticks \in 0..(WindowDays + 1)
  /\ shown \in 0..Len(ep.history)

AgentContacts == {k \in DOMAIN ep.history : IsAgentContact(ep.history[k].remedy)}

-----------------------------------------------------------------------------
(* Under every policy. *)

\* EVAL.md 5.2, read off the messages actually sent and not off the counters:
\* at most MaxContacts agent messages, none for a risk-flagged payment, no card
\* prompt where the card is not the problem, no message at all to a cancelled
\* subscription.  The gate, the budget test and the fallback together keep it.
SafetyGates ==
  /\ Cardinality(AgentContacts) <= MaxContacts
  /\ condition = "payment_risk_check_failed" => AgentContacts = {}
  /\ condition \in {"insufficient_funds", "transaction_limit_exceeded"} =>
       \A k \in AgentContacts : ep.history[k].remedy # "card_change"
  /\ condition = Cancelled => ep.history = <<>>
  /\ ~ep.wrongCard

\* A subscription that is active again, by a retry or by a rescue, stays so for
\* the rest of the window and is never contacted again: neither the halt check
\* nor a later wake-up undoes the outcome.
OutcomeIsFinal ==
  [][ep.sub = "active" => ep'.sub = "active" /\ ep'.contacts = ep.contacts]_vars

\* The two headline outcomes never blur: an invoice is recovered only while the
\* subscription was never halted, and a subscription that is active without its
\* invoice was halted, opened with a broken card and has had it repaired.  A
\* halted subscription whose card was repaired is never left halted.
OutcomesAreExclusive ==
  /\ ep.invoice => ep.sub = "active" /\ ~halted
  /\ ep.sub = "active" /\ ~ep.invoice =>
       halted /\ ~ep.cardAtOpening /\ ep.card
  /\ ep.sub = "halted" => halted /\ (ep.card => ep.cardAtOpening)

\* No engagement is lost by the wake-up bookkeeping: a day that is skipped as
\* no_wakeup is one on which every engaged message has already been shown to
\* the policy, the one it sent itself on its last wake-up included.
EngagementIsShown ==
  phase = "retry" /\ tick.type = "no_wakeup" =>
    \A k \in DOMAIN ep.history : ep.history[k].engaged => k <= shown

\* What one step may write of the ledger.
AuditStep ==
  /\ ticks' # ticks =>
       /\ ticks' = ticks + 1 /\ ticks = day
       /\ tick'.before - tick'.after =
            IF tick'.executed = "CONTACT" THEN 1 ELSE 0
  /\ phase = "open" /\ ticks > 0 => tick'.before = tick.after

\* One record per day, in order, whose budget columns form a chain: each record
\* starts from what the previous one left and drops by one exactly when the
\* record says a contact was executed.
AuditTrail == [][AuditStep]_vars

\* The fallback of a rejected proposal is itself never rejected: on every view
\* the runner hands to a policy, A3-D's proposal passes the gate.
FallbackIsAccepted == phase = "decide" => Accepts(A3D(View), View)

\* STOP forgoes nothing.  Wherever A3-D's table says STOP, no message that
\* could still be sent before the halt changes any remaining retry, and the
\* post-halt rescue is out of reach because the card was not broken at opening.
\* (The rules R-02, R-03, R-05, R-06 and R-07 claim it from mechanics the
\* policy cannot observe.)
StopIsCostless ==
  phase = "decide" /\ A3D(View).action = "STOP" =>
    /\ ep.cardAtOpening
    /\ \A sent \in day..HaltDay, remedy \in Remedies, draw \in Draws :
         \A r \in RetryDays : r >= sent =>
           RetrySucceeds(SendMessage(ep, sent, remedy, draw), r)
             = RetrySucceeds(ep, r)

\* A bank-side error clears by the second day, so its invoice is always
\* recovered by the day-2 retry and the subscription never halts.
BankErrorSelfHeals ==
  condition = "bank_technical_error" =>
    /\ day > 2 => ep.invoice
    /\ ~halted

\* An agent-driven episode implements RecoveryContract: days, wake-ups and the
\* ledger disappear, what is left is the outcome, the spent budget and the end.
\* With the loop's fairness every episode closes, and none with an open outcome.
Outcome ==
  CASE ep.sub = "cancelled" -> "cancelled"
    [] ep.sub = "pending"   -> "open"
    [] ep.sub = "halted"    -> "halted"
    [] ep.sub = "active"    -> IF ep.invoice THEN "recovered" ELSE "rescued"

Contract == INSTANCE RecoveryContract WITH
  ContactBudget <- MaxContacts, outcome <- Outcome, repairable <- ~ep.cardAtOpening,
  spent <- ep.contacts, closed <- (phase = "done")

ImplementsContract == Contract!ContractSpec

\* What _apply_dues_naming_effect's comment says of a halted subscription: no
\* message sent to it draws a top-up.  The halt's own email does.
NoPostHaltTopupDraw == [][halted' => ep'.topups = ep.topups]_vars

-----------------------------------------------------------------------------
(* Under A3-LLM. *)

\* A proposal the planner fell back to is A3-D's, so the gate never rejects it:
\* gate_rejected and the planner's own fallback reasons never compete for the
\* one fallback_reason column.
PlannerFallbackIsNeverRejected == tick.rule # NoRule => tick.proposal.rule = 0

\* Every answer the parser lets through has an executor mapping.
ParsedAnswersExecute == tick.executed # "ENFORCEMENT_FAILURE"

-----------------------------------------------------------------------------
(* Under A3-D. *)

\* A gate rejection originating from A3-D is a defect, not a result.
A3DIsNeverRejected ==
  tick.fallback = "none" /\ tick.executed # "ENFORCEMENT_FAILURE"

\* Restraint: a customer who has engaged with nothing receives at most the
\* first contact and, where a rescue is still possible, the day-5 one.
SilentCustomersAreSpared ==
  ~AnyEngaged(ep.history) =>
    Cardinality(AgentContacts) <=
      CASE condition = "insufficient_funds" -> 1
        [] condition \in CardBrokenKeys \cup {"ambiguous_decline"} -> 2
        [] OTHER -> 0

\* At most one contact is ever spent after the halt, and when it is decided the
\* card is still broken or the bucket is the ambiguous one, whose cause the
\* agent cannot see.
OnePostHaltContact ==
  LET late == {k \in AgentContacts : ep.history[k].day > HaltDay}
  IN /\ Cardinality(late) <= 1
     /\ late # {} => halted /\ condition \notin {"insufficient_funds"}
     /\ phase = "decide" /\ A3D(View).rule = 11 =>
          condition = "ambiguous_decline" \/ ~ep.card

=============================================================================
