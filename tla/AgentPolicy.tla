----------------------------- MODULE AgentPolicy -----------------------------
(***************************************************************************)
(* What the agent side decides from: the EpisodeView it is shown, the      *)
(* Proposal it returns, the reason-code vocabulary, A3-D's sixteen-rule    *)
(* table (agent/policy.py) and the safety gate (agent/gate.py).  All of    *)
(* them are pure functions of the view.                                    *)
(***************************************************************************)
EXTENDS Simulator

(***************************************************************************)
(* The view.  `upcoming` is the set of retry days still ahead: the code    *)
(* exposes its size (auto_retries_remaining) and its least element         *)
(* (next_auto_retry_day).                                                  *)
(***************************************************************************)
BuildView(condition, ep, day) ==
  [state    |-> ep.sub,
   day      |-> day,
   upcoming |-> IF ep.invoice \/ day >= HaltDay
                THEN {} ELSE {r \in RetryDays : r > day},
   decline  |-> condition,
   history  |-> ep.history,
   budget   |-> MaxContacts - ep.contacts]

Views == [state : SubscriptionStates \cup {"expired"}, day : Nat,
          upcoming : SUBSET RetryDays, decline : OpeningConditions,
          history : Seq(ContactRecord), budget : Int]

(***************************************************************************)
(* Proposals and reason codes.                                             *)
(***************************************************************************)
ActionTypes == {"CONTACT", "WAIT", "STOP"}
NoRemedy == "none"

ReasonCodes ==
  {"remedy_match_card", "remedy_match_topup", "retry_window_open",
   "post_halt_rescue", "engagement_observed", "no_engagement_restraint",
   "risk_flagged"}

AdmissibleDeclineCodes ==
  [r \in ReasonCodes |->
     CASE r = "remedy_match_card" -> CardBrokenKeys \cup
            {"ambiguous_decline", "bank_technical_error"}
       [] r = "remedy_match_topup" -> {"insufficient_funds",
            "transaction_limit_exceeded", "ambiguous_decline"}
       [] r = "retry_window_open" -> {"insufficient_funds",
            "bank_technical_error", "transaction_limit_exceeded"}
       [] r = "post_halt_rescue" -> CardBrokenKeys \cup {"ambiguous_decline"}
       [] r \in {"engagement_observed", "no_engagement_restraint"} ->
            DeclineCodes
       [] r = "risk_flagged" -> {"payment_risk_check_failed"}]

IsAdmissible(reason, decline) ==
  /\ reason \in ReasonCodes
  /\ decline \in AdmissibleDeclineCodes[reason]

\* `rule` is the rationale: A3-D puts there the number of the rule that
\* fired; 0 stands for any other text.
Proposal(action, remedy, rule, reason) ==
  [action |-> action, remedy |-> remedy, rule |-> rule, reason |-> reason]

\* Proposal checks nothing: what a policy may put in it is wider than what the
\* parser, the gate and the executor accept.
ProposalRecords ==
  [action : ActionTypes \cup {"RETRY_PAYMENT", "none"},
   remedy : AgentRemedies \cup {NoRemedy, "discount"},
   rule : 0..16,
   reason : ReasonCodes \cup {"none", "null_policy_no_reasoning"}]

(***************************************************************************)
(* A3-D: an ordered table, first match wins.                               *)
(***************************************************************************)
\* Mutant: the threshold is one observation too high.
WithholdAppliesLate(view) ==
  Len(view.history) >= 3 /\ ~AnyEngaged(view.history)

WithholdApplies(view) ==
  Len(view.history) >= 2 /\ ~AnyEngaged(view.history)

CARD_BROKEN == {"card_expired", "debit_instrument_blocked",
                "card_not_enabled_group"}

\* Mutant: R-11 on any day from the fifth on.
PostHaltRescueFrom5(view) ==
  view.state = "halted" /\ view.day >= 5 /\ view.budget >= 1

\* R-11's test, besides the bucket.
PostHaltRescueDue(view) ==
  view.state = "halted" /\ view.day = 5 /\ view.budget >= 1

Rule(number, when, action, remedy, reason) ==
  [when |-> when, proposal |-> Proposal(action, remedy, number, reason)]

Restraint == "no_engagement_restraint"

\* The table, given whether restraint withholds the contact of R-09, R-13, R-15.
A3DTable(view, withhold) ==
  LET day       == view.day
      halted    == view.state = "halted"
      broken    == view.decline \in CARD_BROKEN
      ambiguous == view.decline = "ambiguous_decline"
      insuff    == view.decline = "insufficient_funds"
      bankError == view.decline = "bank_technical_error"
      engagedOr(reason) ==
        IF AnyEngaged(view.history) THEN "engagement_observed" ELSE reason
  IN { Rule(1, view.state = "active", "STOP", NoRemedy, Restraint),
       Rule(2, view.decline = "payment_risk_check_failed",
             "STOP", NoRemedy, "risk_flagged"),
       Rule(3, view.decline = "transaction_limit_exceeded",
             "STOP", NoRemedy, Restraint),
       Rule(4, bankError /\ view.upcoming # {},
             "WAIT", NoRemedy, "retry_window_open"),
       Rule(5, bankError, "STOP", NoRemedy, Restraint),
       Rule(6, insuff /\ halted, "STOP", NoRemedy, Restraint),
       Rule(7, insuff /\ day >= 3, "STOP", NoRemedy, Restraint),
       Rule(8, insuff /\ day = 0,
             "CONTACT", "topup_reminder", "remedy_match_topup"),
       Rule(9, insuff /\ day = 2 /\ ~withhold,
             "CONTACT", "topup_reminder", engagedOr("remedy_match_topup")),
       Rule(10, insuff, "WAIT", NoRemedy,
             IF withhold THEN Restraint ELSE "retry_window_open"),
       Rule(11, (broken \/ ambiguous) /\ PostHaltRescueDue(view),
             "CONTACT", "card_change", "post_halt_rescue"),
       Rule(12, broken /\ day = 0,
             "CONTACT", "card_change", "remedy_match_card"),
       Rule(13, broken /\ day = 3 /\ ~withhold,
             "CONTACT", "card_change", engagedOr("remedy_match_card")),
       Rule(14, ambiguous /\ day = 0,
             "CONTACT", "card_change", "remedy_match_card"),
       Rule(15, ambiguous /\ day = 2 /\ ~withhold,
             "CONTACT", "topup_reminder", "remedy_match_topup"),
       Rule(16, TRUE, "WAIT", NoRemedy, Restraint) }

A3DRules(view) == A3DTable(view, WithholdApplies(view))

FirstMatch(rules) ==
  LET matches == {r \in rules : r.when}
  IN (CHOOSE r \in matches :
        \A s \in matches : r.proposal.rule <= s.proposal.rule).proposal

A3D(view) == FirstMatch(A3DRules(view))

NullProposal == Proposal("WAIT", NoRemedy, 0, "null_policy_no_reasoning")

(***************************************************************************)
(* The gate.  Every message is stamped 10:00, so R6's hours are constants. *)
(***************************************************************************)
SendHour == 10
QuietHours == 9..21

\* Mutant: R5 keeps one contact in reserve.
BudgetSpentEarly(view) == view.budget <= 1

\* R5's test.
BudgetSpent(view) == view.budget <= 0

Precedence == <<"R2", "R4", "R3", "R1", "R8", "R5", "R6">>

Fires(rule, p, view) ==
  LET contact == p.action = "CONTACT"
  IN \/ rule = "R2" /\ contact /\ view.state \in {"cancelled", "expired"}
     \/ rule = "R4" /\ contact /\ view.decline = "payment_risk_check_failed"
     \/ rule = "R3" /\ contact /\ p.remedy = "card_change"
          /\ view.decline \in {"insufficient_funds",
                               "transaction_limit_exceeded"}
     \/ rule = "R1" /\ p.action \notin ActionTypes
     \/ rule = "R8" /\ contact /\ view.decline \notin DeclineCodes
     \/ rule = "R5" /\ contact /\ BudgetSpent(view)
     \/ rule = "R6" /\ SendHour \notin QuietHours

Fired(p, view) == {k \in DOMAIN Precedence : Fires(Precedence[k], p, view)}

\* Mutant: the remedy-match rule is not consulted.
AcceptsMismatch(p, view) == \A k \in Fired(p, view) : Precedence[k] = "R3"

Accepts(p, view) == Fired(p, view) = {}

NoRule == "none"

\* The first rule that fires, in the frozen precedence order.
RuleFired(p, view) ==
  IF Accepts(p, view) THEN NoRule
  ELSE Precedence[CHOOSE k \in Fired(p, view) :
                    \A l \in Fired(p, view) : k <= l]

(***************************************************************************)
(* What other policies can hand the runner.                                *)
(***************************************************************************)
\* parse_llm_output's checks: what an LLM answer must pass to be used as is.
\* Mutant: the remedy of a contact is not checked.
ParsesAsAnyRemedy(p, view) ==
  /\ p.action \in ActionTypes
  /\ p.action # "CONTACT" => p.remedy = NoRemedy
  /\ IsAdmissible(p.reason, view.decline)
  /\ p.reason = "post_halt_rescue" => view.state = "halted"

ParsesAs(p, view) ==
  /\ p.action \in ActionTypes
  /\ IF p.action = "CONTACT" THEN p.remedy \in AgentRemedies
                             ELSE p.remedy = NoRemedy
  /\ IsAdmissible(p.reason, view.decline)
  /\ p.reason = "post_halt_rescue" => view.state = "halted"

PlannerFallbacks == {"timeout", "unparseable", "schema_violation"}

=============================================================================
