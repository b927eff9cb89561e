----------------------------- MODULE EpisodeAudit -----------------------------
(***************************************************************************)
(* The ledger of an episode as the evaluation reads it: compute_metrics    *)
(* counts over its wake-up records and audit_coverage_check counts them    *)
(* all (eval/runner.py).  Neither sees the episode, only what step 9 wrote *)
(* about it, so the counters advance with each record and are compared     *)
(* with the episode at its end.                                            *)
(***************************************************************************)
EXTENDS A3RunnerProperties

VARIABLE tally   \* compute_metrics' counters over the records so far

auditVars == <<vars, tally>>

\* escalation_count's test reads the reason code and not the action.
Escalates(record) == record.proposal.reason = "risk_flagged"

Counted(executed, record) == IF record.executed = executed THEN 1 ELSE 0

\* One more record.
Tallied(record) ==
  IF record.type # "wakeup" THEN tally
  ELSE [tally EXCEPT
          !.wakeups     = @ + 1,
          !.contacts    = @ + Counted("CONTACT", record),
          !.waits       = @ + Counted("WAIT", record),
          !.stops       = @ + Counted("STOP", record),
          !.escalations = @ + IF Escalates(record) THEN 1 ELSE 0]

AuditInit ==
  /\ Init
  /\ tally = [wakeups |-> 0, contacts |-> 0, waits |-> 0, stops |-> 0,
              escalations |-> 0]

AuditNext ==
  \/ WriteLedger /\ tally' = Tallied(tick')
  \/ (OpenDay \/ Decide \/ Retry \/ Halt \/ Terminated) /\ UNCHANGED tally

\* As in A3Runner, the loop always takes its next step.
AuditSpec == AuditInit /\ [][AuditNext]_auditVars /\ WF_auditVars(AuditNext)

\* audit_coverage_check for this episode.
AuditCoverage ==
  ticks = IF condition = Cancelled THEN 0 ELSE WindowDays + 1

-----------------------------------------------------------------------------
\* The ledger tells the episode's story: every day has its record, the contacts
\* it shows are the contacts the result reports, each wake-up is a contact, a
\* wait or a stop and nothing else, and a stop is recorded once, exactly when
\* the episode was stopped, whoever proposed it.
LedgerReconciles ==
  /\ phase = "done" =>
       /\ AuditCoverage
       /\ tally.contacts = ep.contacts
       /\ tally.stops = IF stopped THEN 1 ELSE 0
  /\ tally.contacts + tally.waits + tally.stops = tally.wakeups

\* What the comment on escalation_count says it counts: STOP decisions whose
\* reason is risk_flagged, hence never more of them than STOPs.
EscalationsAreStops == tally.escalations <= tally.stops

=============================================================================
