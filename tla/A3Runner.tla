------------------------------ MODULE A3Runner -------------------------------
(***************************************************************************)
(* run_episode_a3 (harness/runner.py): one episode driven by an injected   *)
(* policy.  Every day has the same order of steps: the automatic email     *)
(* (day 0), the view and the wake-up test, on a wake-up the policy, the    *)
(* gate, the A3-D fallback of a rejected proposal and the executor, then   *)
(* the automatic retry, the halt, and exactly one ledger record.           *)
(***************************************************************************)
EXTENDS AgentPolicy

CONSTANTS
  WindowDays,   \* episode.window_days: the loop runs days 0..WindowDays
  Conditions,   \* the opening conditions a cohort may hold
  Policy        \* which policy is injected

ASSUME RunnerAssumption ==
  /\ WindowDays \in Nat
  /\ HaltDay <= WindowDays
  /\ Conditions \subseteq OpeningConditions
  /\ Policy \in {"A3-D", "A3-LLM", "null", "any"}

VARIABLES
  condition,   \* the cohort's opening condition
  ep,          \* the episode state (Simulator)
  day,         \* loop variable
  phase,       \* next step of the day
  halted,      \* the loop's own halted flag, distinct from ep.sub
  stopped,     \* episode_stopped
  lastWake,    \* last_wake_history_len
  tick,        \* the ledger record of the current day
  ticks,       \* ledger records written
  shown        \* history variable: length of the last history a policy saw

vars == <<condition, ep, day, phase, halted, stopped, lastWake, tick, ticks,
          shown>>

WakeupDays == {0, 1, 2, 3, 5, 7, 14}
TerminalStates == {"cancelled", "expired", "active"}

TickTypes == {"wakeup", "no_wakeup", "budget_exhausted", "terminal_suppressed"}
ExecutedActions == {"none", "CONTACT", "WAIT", "STOP", "ENFORCEMENT_FAILURE"}

Budget(e) == MaxContacts - e.contacts

\* Mutant: only the latest message is looked at.
LatestEngaged(history) ==
  history # <<>> /\ history[Len(history)].engaged /\ Len(history) > lastWake

NewEngagement(history) ==
  \E k \in DOMAIN history : k > lastWake /\ history[k].engaged

\* Mutant: a STOP does not suppress the days that follow it.
EpisodeOverUnstopped(e) == e.sub \in TerminalStates

EpisodeOver(e) == e.sub \in TerminalStates \/ stopped

\* Mutant: an exhausted budget is not tested.
TickTypeNoBudget(e) ==
  IF EpisodeOver(e) THEN "terminal_suppressed"
  ELSE IF day \in WakeupDays \/ NewEngagement(e.history)
       THEN "wakeup" ELSE "no_wakeup"

TickType(e) ==
  IF EpisodeOver(e) THEN "terminal_suppressed"
  ELSE IF Budget(e) = 0 THEN "budget_exhausted"
  ELSE IF day \in WakeupDays \/ NewEngagement(e.history)
       THEN "wakeup" ELSE "no_wakeup"

NoProposal == Proposal("none", NoRemedy, 0, "none")

BlankTick(type, budget) ==
  [type |-> type, before |-> budget, after |-> budget,
   proposal |-> NoProposal, rule |-> NoRule, fallback |-> "none",
   executed |-> "none"]

View == BuildView(condition, ep, day)

(***************************************************************************)
(* What `policy(view)` may return, with the fallback reason the planner    *)
(* reports through last_fallback_reason.  "A3-LLM" stands for any answer   *)
(* the parser lets through, or A3-D's own proposal when it did not; "any"  *)
(* for a caller-supplied policy that respects nothing.                     *)
(***************************************************************************)
Output(proposal, fallback) == [proposal |-> proposal, fallback |-> fallback]

LLMAnswers(view) ==
  {p \in {Proposal(a, r, 0, c) : a \in ActionTypes,
                r \in AgentRemedies \cup {NoRemedy}, c \in ReasonCodes} :
     ParsesAs(p, view)}

\* Neither the gate nor the executor reads the remedy of another action.
WildProposals ==
  {Proposal("CONTACT", r, 0, "none") :
     r \in AgentRemedies \cup {NoRemedy, "discount"}} \cup
  {Proposal(a, NoRemedy, 0, "none") : a \in {"WAIT", "STOP", "RETRY_PAYMENT"}}

PolicyOutputs(view) ==
  CASE Policy = "A3-D"   -> {Output(A3D(view), "none")}
    [] Policy = "null"   -> {Output(NullProposal, "none")}
    [] Policy = "A3-LLM" -> {Output(p, "none") : p \in LLMAnswers(view)}
                       \cup {Output(A3D(view), f) : f \in PlannerFallbacks}
    [] Policy = "any"    -> {Output(p, "none") : p \in WildProposals}

(***************************************************************************)
(* Actions.                                                                *)
(***************************************************************************)
Init ==
  /\ condition \in Conditions
  /\ \E latent \in LatentStates(condition) : ep = Opening(condition, latent)
  /\ day = 0
  /\ phase = IF condition = Cancelled THEN "done" ELSE "open"
  /\ halted = FALSE
  /\ stopped = FALSE
  /\ lastWake = 0
  /\ tick = BlankTick("no_wakeup", MaxContacts)
  /\ ticks = 0
  /\ shown = 0

\* Steps 1-3: the automatic email on day 0, then the view and the wake-up.
OpenDay ==
  /\ phase = "open"
  /\ IF day = 0
     THEN \E draw \in Draws : ep' = SendMessage(ep, day, AutoEmail, draw)
     ELSE UNCHANGED ep
  /\ tick' = BlankTick(TickType(ep'), Budget(ep'))
  /\ phase' = IF TickType(ep') = "wakeup" THEN "decide" ELSE "retry"
  /\ UNCHANGED <<condition, day, halted, stopped, lastWake, ticks, shown>>

\* Mutant: whatever is not a contact ends the episode.
ExecutedNoWait(p, view) ==
  CASE ~Accepts(p, view) -> "WAIT"
    [] Accepts(p, view) /\ p.action = "CONTACT" ->
         IF p.remedy \in AgentRemedies THEN "CONTACT" ELSE "ENFORCEMENT_FAILURE"
    [] OTHER -> "STOP"

\* What the executor does with the proposal that survived the gate.
Executed(p, view) ==
  CASE ~Accepts(p, view) -> "WAIT"
    [] Accepts(p, view) /\ p.action = "CONTACT" ->
         IF p.remedy \in AgentRemedies THEN "CONTACT" ELSE "ENFORCEMENT_FAILURE"
    [] OTHER -> IF p.action = "STOP" THEN "STOP" ELSE "WAIT"

Execute(p, executed) ==
  /\ IF executed = "CONTACT"
     THEN \E draw \in Draws :
            ep' = SendContact(condition, ep, day, p.remedy, draw)
     ELSE UNCHANGED ep
  /\ stopped' = (stopped \/ executed = "STOP")

Survivor(out, view) ==
  IF Accepts(out.proposal, view) THEN out.proposal ELSE A3D(view)

FallbackReason(out, view) ==
  IF Executed(Survivor(out, view), view) = "ENFORCEMENT_FAILURE"
  THEN "no_executor_mapping"
  ELSE IF Accepts(out.proposal, view) THEN out.fallback ELSE "gate_rejected"

Decision(out, view) ==
  /\ tick' = [tick EXCEPT
                !.proposal = out.proposal,
                !.rule     = RuleFired(out.proposal, view),
                !.fallback = FallbackReason(out, view),
                !.executed = Executed(Survivor(out, view), view)]
  /\ Execute(Survivor(out, view), Executed(Survivor(out, view), view))

\* Steps 4-6: policy, gate, fallback of a rejected proposal, executor.
Decide ==
  /\ phase = "decide"
  /\ \E view \in {View} : \E out \in PolicyOutputs(view) : Decision(out, view)
  /\ lastWake' = Len(View.history)
  /\ shown' = Len(View.history)
  /\ phase' = "retry"
  /\ UNCHANGED <<condition, day, halted, ticks>>

\* Step 7.
Retry ==
  /\ phase = "retry"
  /\ ep' = AfterRetry(ep, day, halted)
  /\ phase' = "halt"
  /\ UNCHANGED <<condition, day, halted, stopped, lastWake, tick, ticks, shown>>

\* Step 8: the halt and its email, or nothing.
Halt ==
  /\ phase = "halt"
  /\ IF HaltsNow(ep, day, halted)
     THEN /\ halted' = TRUE
          /\ \E draw \in Draws : ep' = AfterHalt(ep, day, draw)
     ELSE UNCHANGED <<halted, ep>>
  /\ phase' = "ledger"
  /\ UNCHANGED <<condition, day, stopped, lastWake, tick, ticks, shown>>

\* The loop's own step to the next day.  Mutant: one day too many.
NextDayTooFar ==
  IF day > WindowDays
  THEN phase' = "done" /\ UNCHANGED day
  ELSE phase' = "open" /\ day' = day + 1

NextDay ==
  IF day = WindowDays
  THEN phase' = "done" /\ UNCHANGED day
  ELSE phase' = "open" /\ day' = day + 1

\* Step 9: budget_after is read when the record is written.  Mutant: it is the
\* figure of the view.
RecordStale == tick' = [tick EXCEPT !.after = tick.before]

Record == tick' = [tick EXCEPT !.after = Budget(ep)]

WriteLedger ==
  /\ phase = "ledger"
  /\ Record
  /\ ticks' = ticks + 1
  /\ NextDay
  /\ UNCHANGED <<condition, ep, halted, stopped, lastWake, shown>>

Terminated == phase = "done" /\ UNCHANGED vars

Next == OpenDay \/ Decide \/ Retry \/ Halt \/ WriteLedger \/ Terminated

Spec == Init /\ [][Next]_vars

\* The loop is one thread of straight-line code: it always takes its next step.
FairSpec == Spec /\ WF_vars(Next)

=============================================================================
