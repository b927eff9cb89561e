---------------------------- MODULE ArmDiagnostics ----------------------------
(***************************************************************************)
(* What the repository computes over paired episodes: the stress suite's   *)
(* verdict on an arm (eval/stress.py over eval/runner.py's metrics), the   *)
(* decomposition of A3-D's deficit (scripts/day9_decompose.py), and the    *)
(* frontier of its restraint threshold (scripts/day9_frontier.py), which   *)
(* runs a transcription of A3-D's table for every threshold of a grid.     *)
(* The lanes of the frontier are advanced beside those of the arms.        *)
(***************************************************************************)
EXTENDS PairedArms

CONSTANT Grid   \* the thresholds swept

BASELINE_THRESHOLD == 2

ASSUME GridAssumption ==
  /\ Grid \subseteq Nat \ {0}
  /\ {BASELINE_THRESHOLD, BASELINE_THRESHOLD + 1} \subseteq Grid

VARIABLE frontier   \* threshold -> lane

diagVars == <<world, day, lanes, frontier>>

(***************************************************************************)
(* make_a3d_policy_variant: the sixteen rules a second time, as the script *)
(* writes them out, in its order of returns and with its own set of card   *)
(* problems, the threshold of the withholding test a parameter.  Nothing   *)
(* of A3D's table is used here: that the two agree is checked and proved.  *)
(***************************************************************************)
FRONTIER_CARD_BROKEN ==
  {"card_expired", "debit_instrument_blocked", "card_not_enabled_group"}

\* Mutant: the transcription tests > instead of >=.
WithholdsAbove(threshold, view) ==
  Len(view.history) > threshold /\ ~AnyEngaged(view.history)

WithholdsFrom(threshold, view) ==
  Len(view.history) >= threshold /\ ~AnyEngaged(view.history)

\* Mutant: R-11 without its day, as if one wake-up only followed the halt.
VariantRescuesAnyDay(view) == view.state = "halted" /\ view.budget >= 1

VariantRescues(view) ==
  view.state = "halted" /\ view.day = 5 /\ view.budget >= 1

VariantRules(threshold, view) ==
  LET code      == view.decline
      withholds == WithholdsFrom(threshold, view)
      engaged   == AnyEngaged(view.history)
  IN << Rule(1, view.state = "active", "STOP", NoRemedy, Restraint),
        Rule(2, code = "payment_risk_check_failed",
             "STOP", NoRemedy, "risk_flagged"),
        Rule(3, code = "transaction_limit_exceeded",
             "STOP", NoRemedy, Restraint),
        Rule(4, code = "bank_technical_error" /\ view.upcoming # {},
             "WAIT", NoRemedy, "retry_window_open"),
        Rule(5, code = "bank_technical_error", "STOP", NoRemedy, Restraint),
        Rule(6, code = "insufficient_funds" /\ view.state = "halted",
             "STOP", NoRemedy, Restraint),
        Rule(7, code = "insufficient_funds" /\ view.day >= 3,
             "STOP", NoRemedy, Restraint),
        Rule(8, code = "insufficient_funds" /\ view.day = 0,
             "CONTACT", "topup_reminder", "remedy_match_topup"),
        Rule(9, code = "insufficient_funds" /\ view.day = 2 /\ ~withholds,
             "CONTACT", "topup_reminder",
             IF engaged THEN "engagement_observed" ELSE "remedy_match_topup"),
        Rule(10, code = "insufficient_funds", "WAIT", NoRemedy,
             IF withholds THEN Restraint ELSE "retry_window_open"),
        Rule(11, /\ code \in FRONTIER_CARD_BROKEN \/ code = "ambiguous_decline"
                 /\ VariantRescues(view),
             "CONTACT", "card_change", "post_halt_rescue"),
        Rule(12, code \in FRONTIER_CARD_BROKEN /\ view.day = 0,
             "CONTACT", "card_change", "remedy_match_card"),
        Rule(13, code \in FRONTIER_CARD_BROKEN /\ view.day = 3 /\ ~withholds,
             "CONTACT", "card_change",
             IF engaged THEN "engagement_observed" ELSE "remedy_match_card"),
        Rule(14, code = "ambiguous_decline" /\ view.day = 0,
             "CONTACT", "card_change", "remedy_match_card"),
        Rule(15, code = "ambiguous_decline" /\ view.day = 2 /\ ~withholds,
             "CONTACT", "topup_reminder", "remedy_match_topup"),
        Rule(16, TRUE, "WAIT", NoRemedy, Restraint) >>

\* The first of them that returns.
FirstReturn(rules) ==
  rules[CHOOSE k \in DOMAIN rules :
          rules[k].when /\ \A j \in 1..(k - 1) : ~rules[j].when].proposal

Variant(threshold, view) == FirstReturn(VariantRules(threshold, view))

\* One day of run_variant_over_dev at one threshold.
VariantDay(threshold, lane) ==
  RunnerDay(Variant(threshold, AgentView(lane, day)), lane, day)

DiagInit ==
  /\ Init
  /\ frontier =
       [t \in Grid |-> Lane(Opening(world.condition, world.latent))]

DiagDay ==
  /\ Day
  /\ frontier' = [t \in Grid |-> VariantDay(t, frontier[t])]

DiagTerminated == Terminated /\ UNCHANGED frontier

DiagNext == DiagDay \/ DiagTerminated

DiagSpec == DiagInit /\ [][DiagNext]_diagVars

Ended == day > WindowDays

-----------------------------------------------------------------------------
(* The stress suite's verdict on an arm. *)

StressArms == {"A0", "A1", "A2_STRENGTHENED", "A3-D", "A4"}

ZeroToleranceKeys ==
  {"gate_rejections_total", "card_change_for_insufficient_funds",
   "R2", "R4", "R5", "R6", "R8"}

Exempt(arm) ==
  IF arm = "A1" THEN {"card_change_for_insufficient_funds"} ELSE {}

HasLedger(arm) == arm = "A3-D"

\* compute_metrics' safety_invariants, summed over this one episode.  For an arm
\* without a ledger the keys read off the gate do not exist.
SafetyInvariants(arm) ==
  [key \in IF HasLedger(arm) THEN ZeroToleranceKeys
           ELSE {"card_change_for_insufficient_funds"} |->
     CASE key = "gate_rejections_total" -> Cardinality(lanes[arm].rejectedBy)
       [] key = "card_change_for_insufficient_funds" ->
            IF lanes[arm].ep.wrongCard THEN 1 ELSE 0
       [] OTHER -> IF key \in lanes[arm].rejectedBy THEN 1 ELSE 0]

AuditCovers(arm) ==
  lanes[arm].records = IF world.condition = Cancelled THEN 0 ELSE WindowDays + 1

ArmViolations(arm) ==
  LET measured == SafetyInvariants(arm)
  IN {key \in DOMAIN measured \ Exempt(arm) : measured[key] > 0}
       \cup {c \in {"audit_coverage"} : HasLedger(arm) /\ ~AuditCovers(arm)}
       \cup {c \in {"max_contacts_sent_observed"} :
               lanes[arm].ep.contacts > MaxContacts}

-----------------------------------------------------------------------------
(* The decomposition of the deficit. *)

COMPARATORS == {"A1", "A2_STRENGTHENED"}

ComparatorOnly(comp) == Recovered(comp) /\ ~Recovered("A3-D")

Bucket(comp) ==
  LET own    == lanes["A3-D"].ep.contacts
      theirs == lanes[comp].ep.contacts
  IN CASE own < theirs -> IF lanes["A3-D"].stopped THEN "A_D1" ELSE "A_D2"
       [] own = theirs -> "E_same"
       [] own > theirs -> "E_more"

-----------------------------------------------------------------------------
\* EVAL.md 5.2 over the stress suite.  No arm's verdict ever names a violation,
\* and for every arm but the strawman that verdict can be trusted although most
\* of its keys are missing for an arm without a gate: the messages really sent
\* keep the rows nobody measured.  (A1 writes to risk-flagged customers; no key
\* of its verdict can say so.  The first A2 is not in the suite: its fallback
\* sends a card prompt over a transaction limit.)
StressVerdictIsSound ==
  /\ Ended => \A arm \in StressArms : ArmViolations(arm) = {}
  /\ \A arm \in Arms \ {"A1"} :
       /\ Cardinality(AgentSends(arm)) <= MaxContacts
       /\ world.condition \in {"payment_risk_check_failed", Cancelled} =>
            AgentSends(arm) = {}
       /\ arm # "A2" /\ world.condition \in {"insufficient_funds",
                                             "transaction_limit_exceeded"} =>
            \A k \in AgentSends(arm) : Sent(arm)[k].remedy # "card_change"

\* What the paired decomposition can attribute a lost invoice to.  No arm but
\* the oracle recovers an invoice that A3-D gave up with a STOP, so bucket D1 is
\* empty; every lost invoice had a broken card and a customer A3-D left alone on
\* day 3; where the cause was visible A3-D never spent more than the comparator,
\* and what A2-strengthened gained it always gained with more contacts.
DeficitIsRestraint ==
  Ended =>
    /\ lanes["A3-D"].stopped =>
         \A arm \in Arms \ {"A4"} : Recovered(arm) => Recovered("A3-D")
    /\ \A comp \in COMPARATORS : ComparatorOnly(comp) =>
         /\ Bucket(comp) # "A_D1"
         /\ ~world.latent.card
         /\ \A k \in AgentSends("A3-D") : Sent("A3-D")[k].day # HaltDay
         /\ world.condition \in CARD_BROKEN => Bucket(comp) # "E_more"
         /\ comp = "A2_STRENGTHENED" =>
              world.condition \in CARD_BROKEN /\ Bucket(comp) = "A_D2"

\* The second text of the sixteen rules says what the first one says.  On every
\* view that a lane of the sweep reaches, at its own threshold, it proposes the
\* same action and remedy, for the same reason and from the same rule, as soon
\* as its withholding test comes out as A3-D's (at the baseline it always does);
\* and the lane at the baseline is A3-D's, message by message.  The script's
\* parity check compares totals of the dev split at the baseline, which two slips
\* that offset each other, or one on views above it only, would pass.
TranscriptionIsA3D ==
  /\ frontier[BASELINE_THRESHOLD] = lanes["A3-D"]
  /\ \A t \in Grid :
       LET view == AgentView(frontier[t], day)
       IN WithholdsFrom(t, view) = WithholdApplies(view) =>
            Variant(t, view) = A3D(view)

\* The sweep has two regimes and no more: whatever the threshold, the episode is
\* the baseline's or that of the next threshold, because the one decision
\* restraint takes always falls on a history of two messages.
GridHasTwoRegimes ==
  \A t \in Grid :
    frontier[t] = frontier[IF t <= BASELINE_THRESHOLD THEN BASELINE_THRESHOLD
                           ELSE BASELINE_THRESHOLD + 1]

\* In the patient regime the deficit is gone: it loses no invoice to
\* A2-strengthened, and withholding less never costs an invoice, although every
\* further message lowers the appeal of the next and shifts the draws.
PatienceNeverCostsAnInvoice ==
  LET patient == frontier[BASELINE_THRESHOLD + 1].ep.invoice
  IN /\ Recovered("A2_STRENGTHENED") => patient
     /\ Recovered("A3-D") => patient

=============================================================================
