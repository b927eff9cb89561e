# Revenue recovery: a TLA+ model of the episode engine, the agent and its arms

This directory holds TLA+ modules that model the recovery simulator, the agent that acts in it, the baseline arms it is
compared with and the evaluation around them, TLC configurations that check them on small instances, and proofs, checked
by TLAPS, of the results that hold for every value of the constants. Paths below are relative to the repository root
unless they name a module.

## 1. The system

A subscription's charge failed at T+0. For thirty days an *arm* decides each day whether to contact the customer and
about what; the payment provider retries on days 1, 2 and 3, halts the subscription on day 3 and sends two automatic
emails of its own. The repository simulates such episodes, runs seven arms over the same episodes, and reports invoice
recovery, subscription rescue, contacts and safety violations.

| Part | Code | State | Operations | Model |
|---|---|---|---|---|
| Simulator primitives | `src/rrx/sim/engine.py`, `latent.py` | `_EpisodeState`: card, funds, block, mandate, subscription, invoice, counters, history | draw latent state, send message (card and dues effects, rescue), retry, halt | `Simulator` |
| A3 runner | `src/rrx/harness/runner.py` | loop locals: day, halted, stopped, last wake length; ledger | one day: email, view, wake-up, policy, gate, fallback, executor, retry, halt, record | `A3Runner` |
| A3-D, reason codes, view | `src/rrx/agent/policy.py`, `reason_codes.py`, `src/rrx/features/episode_view.py` | none | sixteen ordered rules over the view | `AgentPolicy` |
| Gate | `src/rrx/agent/gate.py` | none | seven rules in a frozen precedence | `AgentPolicy` |
| Planner (A3-LLM) | `src/rrx/agent/planner.py`, `prompt.py` | last fallback reason, telemetry | render, look up, call, parse, fall back | `PlannerReplay`; its outcome inside an episode: `LLMAnswers`, `PlannerFallbacks` |
| Cache and replay | `src/rrx/agent/llm_cache.py` | key -> raw text, replay flag | get, put, load | `PlannerReplay` |
| Ledger | `src/rrx/agent/ledger.py` | append-only records | one record per day | `tick` of `A3Runner` (budget, proposal, gate, fallback, executed); what is counted over the records: `EpisodeAudit` |
| Baselines and oracle | `engine.run_episode`, `src/rrx/baselines/*` | same episode state | schedules A0, A1, A2 and its two variants; A4 | `BaselineArms` |
| Paired arms | `src/rrx/eval/arms.py`, `src/rrx/sim/cohort.py`, `rng.py` | the draws of an episode, shared by all arms | run each arm over the same episodes | `PairedArms` |
| Evaluation artifacts | `src/rrx/eval/runner.py`, `arms.run_official_arm` | run directories | write ledger, results, metrics, manifest | `HoldoutSession`; the metrics' counters: `EpisodeAudit`, `ArmDiagnostics` |
| Holdout session | `scripts/run_holdout.py` | tag, session log, run directories | preconditions, one run per arm, outcome lines | `HoldoutSession` |
| Holdout analysis | `src/rrx/eval/holdout_analysis.py` | data of the loaded arms, comparator set | verify indices, recompute, compare, criteria | `HoldoutAnalysis` |
| Stress suite | `src/rrx/eval/stress.py` | none | run the arms on a stress split, judge each arm | the verdict on an arm: `ArmDiagnostics` |
| Decomposition and frontier | `scripts/day9_decompose.py`, `day9_frontier.py` | the threshold swept | attribute A3-D's deficit, rerun A3-D at other thresholds | `ArmDiagnostics` |
| Spec tools, other diagnostics, clients | `src/rrx/spec/*`, `diagnostics/*`, `scripts/day9_mechanism_attribution.py`, `day10_value.py`, `src/rrx/integrations/*` | files | static checks, reports, HTTP | not modelled |

**How they interact.** A runner owns an `_EpisodeState`; policies see only the `EpisodeView` built from it and return
a `Proposal`; the gate filters it; the executor calls `_send_message`, the only way an agent touches the world. The
retry, the halt and the automatic emails belong to the loop. Three loops (`run_episode`, `run_a4_episode`,
`run_episode_a3`) repeat the same retry and halt code. Everything is single-threaded; there are no callbacks beyond
the injected policy.

**What is hard.** Nothing runs concurrently, so the difficulty is *order inside a day and across days*: messages,
retries and the halt all write the subscription's state; the wake-up test compares history lengths taken at different
points of different days; a policy that cannot see the latent state stops an episode on the strength of what it
believes about it; an LLM may answer anything; and the arms of a paired comparison consume a shared set of draws that
is keyed by message number, not by arm. Around the episodes there is the evaluation: a planner whose calls time out,
are cached and replayed; a one-shot holdout session that can be interrupted between any two of its writes and is
restarted by an operator; and an analysis that must not compare what was never run. `PROJECT.json` lists every hazard at
its line with the properties on guard.

## 2. Modules

| Module | What it holds |
|---|---|
| `Simulator` | Constants of the schedule and their assumption `WorldAssumption`; latent draws, episode state, messages, retries, halt. Pure operators. |
| `AgentPolicy` | The view, proposals, reason codes, A3-D's table, the gate, what the LLM parser admits. Pure operators. |
| `A3Runner` | The state machine of `run_episode_a3`: `OpenDay`, `Decide`, `Retry`, `Halt`, `WriteLedger`. |
| `A3RunnerProperties` | Type invariant, safety, action and liveness properties of an episode, the refinement mapping to the contract. |
| `RecoveryContract` | The abstract specification: recovered, or halted and perhaps rescued, within a contact budget, and closed. |
| `BaselineArms` | The schedules, the oracle's rule, and a day of `run_episode` and `run_a4_episode` as an operator on a lane. |
| `PairedArms` | Seven lanes over one world; properties that compare arms episode by episode. |
| `ArmDiagnostics` | The stress verdict, the decomposition and the threshold frontier over those lanes; one more lane for each threshold. |
| `EpisodeAudit` | `compute_metrics` and the coverage check over the ledger of one episode. |
| `PlannerReplay` | `invoke_planner` and `LLMCache` over several runs: live, cut short, continued, recorded, replayed. |
| `HoldoutSession` | The repository, `run_holdout.py` with the artifact writing of `run_official_arm`, and the operator. |
| `HoldoutAnalysis` | Loading and verifying the result files, the tie rule, criteria 2 and 3. |
| `WorldProofs` | Lemmas about the operators of `Simulator` and `AgentPolicy`; `A3DIsGateCompliant`. |
| `A3RunnerProofs`, `MechanicsProofs`, `EpisodeAuditProofs` | Theorems about one episode: safety and refinement; mechanics and restraint; ledger. |
| `PairedArmsProofs` | Theorems about the lanes, their verdicts and the threshold frontier. |
| `PlannerReplayProofs`, `HoldoutSessionProofs`, `HoldoutAnalysisProofs` | Theorems about the evaluation. Section 5 describes all eight. |

`A3RunnerProperties` extends `A3Runner`, which extends `AgentPolicy`, which extends `Simulator`; `EpisodeAudit` extends
it. `ArmDiagnostics` extends `PairedArms`, which extends `BaselineArms` (over `AgentPolicy`) and takes the wake-up, the
gate and the executor of the agent's lanes from `A3Runner` by `INSTANCE`: `RunnerDay` is a day of the runner, given what
A3-D's table, or the frontier's, proposes on that day's view, so those lanes are not a second transcription of the
runner. The three modules of the evaluation stand alone: what they take from an episode is only that its decisions are
determined by the proposals before them (`PlannerReplay`) and that it ends with a result (`HoldoutSession`,
`HoldoutAnalysis`).

### How state and actions correspond to the code

* `ep` is `_EpisodeState`, field by field. `message_index` is `Len(ep.history)` and `agent_contact_count` is
  `ep.contacts`, because the code increments each pair in the same block. `tick` is the ledger record under
  construction. `shown` is the only history variable: the length of the history last shown to the policy.
* Instants (`funds_available_from`, `blocked_until`) are naturals, `TicksPerDay` to a day, so that several instants fall
  inside a day and "at exactly day d" can be told from "just after". `BLOCKED_INDEFINITELY` is `Never`.
* Random draws are nondeterministic in `A3Runner`: whether the customer engages, whether the card change completes, how
  soon a top-up lands. A probability becomes the set of outcomes it can produce. In `PairedArms` the draws are fixed at
  the start, per message and per top-up number, because that is what the seeds of `sim/rng.py` do; the engagement draw
  is kept as a *rank*, since the probability it is compared with depends on the channel and on fatigue: an appeal is
  higher for an agent's message than for the email (1.15 x 0.8^2 > 0.65 in `configs/episode.yaml`) and falls with each
  earlier contact.
* Amounts, channels, hashes, prompts, costs and wording are left out: no property depends on them. The invoice amount is
  only ever copied.
* `EpisodeAudit`: `tally` holds the counters of `compute_metrics`, advanced with each record that `WriteLedger` writes.
  It reads the record and nothing of the episode, as the evaluation reads `ledger.jsonl` and not the simulator.
* `ArmDiagnostics`: `day9_frontier.py` carries its own transcription of A3-D's table in which the 2 of the withholding
  test is a parameter. The model does the same: `VariantRules(t, view)` writes the script's sixteen returns out a second
  time, in the script's order and with its own set of card problems, and shares nothing with `AgentPolicy`'s table.
  `Variant` is the first rule that returns, `frontier[t]` its lane. `ArmViolations` is the verdict of
  `stress.py` on one episode; for an arm without a ledger the keys read off the gate are not in the domain of
  `SafetyInvariants`, as they are not in the metrics file.
* The fields of `EpisodeView` that no policy or gate rule reads (amount, identifiers) are omitted. `upcoming` stands for
  both `auto_retries_remaining` and `next_auto_retry_day`.
* `Policy` selects what is injected. `"any"` is a caller-supplied policy that bypasses the parser and the table, unknown
  action types and remedies included, which the runner explicitly defends against (`runner.py:337-361`).
* `PlannerReplay`: seeds fix the world, so what a decision point is asked depends on the proposals made before it and on
  nothing else; a prompt, and with it a cache key, is the sequence of earlier proposals. A completion is one of five
  kinds of text, no text at all included (only the Gemini client returns that), a timeout or an exhausted quota.
  `Finish` writes the cache with `to_jsonl_line`, which no script calls yet; `Replay` is `load_jsonl`.
* `HoldoutSession`: `repository` is what git knows (head, authorization tag, whether the evaluation surface is the
  frozen one in the commit and in the worktree), `process` is the script, and the remaining actions are the operator's:
  edit, commit, authorize, clear a remnant, relocate a completed arm. The preconditions of `main` read and write nothing
  in between, so they are one step; after them every write is a step of its own, and each may raise, be interrupted or
  be killed. The head only moves forward and the freeze tag is fixed. An edit or a commit while a session runs is
  possible, and the manifest property excludes the directories being made then (`calm`), because nothing in the code
  notices it.
* `HoldoutAnalysis`: what is on disk is chosen when it is read: any sequence of lines, with any arm's metrics. Rates of
  arms over the same episodes are compared as counts. The interval of a bootstrap is a free choice between two arms
  whose rates differ; it never excludes zero for equal rates. The oracle enters no criterion and is left out.

## 3. Runs

| Run | Module, configuration | Question | Distinct states |
|---|---|---|---|
| `any_policy` | `A3RunnerProperties`, `MCAnyPolicy.cfg` | Do the runner, gate and fallback keep every promise when the policy keeps none? | 382 000 |
| `a3d` | `A3RunnerProperties`, `MCA3D.cfg` | A3-D's own promises on the configured schedule and the whole 30-day window. | 37 000 |
| `a3_llm` | `EpisodeAudit`, `MCA3LLM.cfg` | Any parser-approved answer or planner fallback: does an episode implement `RecoveryContract`, and does its ledger tell what happened? | 130 000 |
| `paired` | `ArmDiagnostics`, `MCPaired.cfg` | What is true between arms, and of the verdicts and diagnoses drawn from them, in *every* episode, not on average? | 380 000 |
| `replay` | `PlannerReplay`, `MCReplay.cfg` | Does a replay decide what its run decided, and when can it not finish? | 1 420 000 |
| `holdout` | `HoldoutSession`, `MCHoldout.cfg` | Do log, directories and manifests tell the truth after any crash and any operator action, and does every session end? | 1 380 000 |
| `analysis` | `HoldoutAnalysis`, `MCAnalysis.cfg` | Is what is compared what was run, and does a tie ever help the candidate? | 466 000 |
| `halt_email` | `A3RunnerProperties`, `MCHaltEmail.cfg` | A comment's claim about post-halt draws; refuted (section 6). | - |
| `replay_claim` | `PlannerReplay`, `MCReplayClaim.cfg` | A document's claim that every recorded run replays; refuted. | - |
| `holdout_interrupt` | `HoldoutSession`, `MCHoldoutInterrupt.cfg` | The script's claim that an arm that raises has its line; refuted. | - |
| `holdout_retry` | `HoldoutSession`, `MCHoldoutRetry.cfg` | The script's claim about replaying a crashed arm; refuted. | - |
| `escalation` | `EpisodeAudit`, `MCEscalation.cfg` | The claim that the escalation rate counts STOP decisions; refuted. | - |

**Under any policy.** `SafetyGates` restates the evaluation's zero-tolerance gates over the messages actually sent.
`OutcomesAreExclusive` and `OutcomeIsFinal` keep recovered, halted and rescued apart. `EngagementIsShown` says the
wake-up bookkeeping loses no engagement. `FallbackIsAccepted` says the proposal executed in place of a rejected one is
never itself rejected. `StopIsCostless` looks ahead: wherever A3-D would say STOP, no message that could still be sent
before the halt changes the result of any remaining retry, and the card was never broken. `BankErrorSelfHeals`
and `AuditTrail` cover the boundary of the bank block and the budget columns.

**Under A3-D.** Never rejected; silent customers receive at most the first contact and one rescue attempt; after the
halt there is at most one contact (`OnePostHaltContact`), never where the funds were the problem, and when it is decided
the card is still broken unless the bucket is the ambiguous one, whose cause the agent cannot see.

**The ledger** (`a3_llm`). `LedgerReconciles`: every day of an episode that was not cancelled at opening has its record,
stopped or not; the contacts counted in the ledger are the contacts of the result; each wake-up is executed as a
contact, a wait or a stop and as nothing else; and one stop is recorded exactly where the episode was stopped. Under
A3-LLM a rejected proposal is executed as its fallback and an unparsable answer as A3-D's, so the executed action, not
the proposed one, is what must reconcile.

**Between arms.** `NoArmBelowTheFloor` and `NoArmLosesARescue`: A0 is a floor for both metrics in every single episode.
The second is not obvious: an agent contact uses up the message number, and so the engagement draw, of the halt email
that rescues the subscription under A0. It holds because every arm that contacts a broken card at all starts with a card
prompt, whose appeal is at least the email's, so the draw that would have rescued repairs earlier. A schedule that
started with a balance reminder breaks it (the mutant `A2TopupFirst`). `OracleIsTheCeiling`: A4 recovers every invoice
any arm recovers, also episode by episode; it is not the ceiling of rescues, as `EVAL.md` notes, because it keeps no
contact for after the halt. `StrengtheningIsFree` is the
claim of `baselines/a2_variants.py` that the T+5 prompt costs no invoice.

**Verdicts and diagnoses** (`ArmDiagnostics`, over the same lanes). `StressVerdictIsSound`: no arm of the suite ever has
a violation named, and for each but the strawman A1 the rows the verdict could not measure (an arm without a ledger has
no gate columns, and a missing key counts as zero) hold of the messages really sent. A1 does write to risk-flagged
customers, and nothing in its verdict can say so. The first A2 is not in the suite: it sends a card prompt over a
transaction limit. `DeficitIsRestraint` says what an invoice that a comparator recovers and A3-D loses can be due to: a
broken card and a customer left alone on day 3, never a STOP, and, where the cause was visible, never with more contacts
than the comparator spent. `TranscriptionIsA3D`: on every view a lane reaches, the frontier's second text of the table
decides what the first decides wherever their withholding tests agree, and at the baseline threshold its lane is A3-D's,
day by day; the script's own parity check compares totals over a split. `GridHasTwoRegimes`: however many thresholds are
swept, all up to the baseline behave alike and all above it. `PatienceNeverCostsAnInvoice`: above the baseline no invoice is lost, to A3-D or to
A2-strengthened. It is a statement about invoices; rescues are not claimed.

**The planner.** `ReplayNeverDiverges`: whatever a replay has decided so far is what the recorded run decided, call by
call, because a miss raises instead of falling back. `ReplayStopsOnlyWithoutText`: a replay that stops does so at a
decision whose live call produced no stored text, a timeout or a missing text, and nowhere else. `ResumedRunsAgree`: a
run that continues after an exhausted quota, over the same cache, repeats the decisions it had paid for.

**The holdout session.** `CompleteLineMeansArtifacts` and `RunParamsSealTheDirectory`: a COMPLETE line, or the presence
of the file written last, implies every artifact, untorn. `OneRemnantAtMost`: a failure leaves one partial directory,
that of the arm it stopped at, and none behind it. `OnlyTheFrozenSurfaceRuns`: a manifest names the surface that was
run, and it is the frozen one. It speaks of the paths the script lists and of runs nobody edits under: a behaviour that
depends on an unlisted path (`run_holdout.py:125`) and an edit in mid-run, before the manifest reads the files
(`arms.py:354`), are outside it. `EveryAttemptIsAuthorizedAnew`: no commit
starts two sessions. Nothing in the code counts attempts; it holds because the session's own log entry dirties a tracked
file. `EverySessionEnds` is the liveness property: a session that started comes to its end, whether arms complete, raise
or are interrupted.

**The analysis.** `AcceptedDataIsTheRun`: the values of an accepted arm are those of its episodes, one each, paired
by position with the same episodes of every other arm. `PassingBeatsEveryBoundedArm`: a candidate that passes lies
above every bounded arm, tied or not, and its contacts are at most those of *each* bounded arm that shares the leader's
rate, so the order in which equal arms are looked at does not decide.

### Bounds and why they are enough

* Days: 30 in `a3d`; 5 in the runs with a free policy, which is past the halt (3) and reaches the post-halt wake-up on
  day 5; 7 in `paired`, the last day on which any schedule sends anything. Later days repeat the same step with no
  retry, no halt and no scheduled contact.
* `TicksPerDay` 2 or 3: instants on a day boundary, between two days and after the last retry all occur. Funds and
  clearance sets contain, for each retry day, an instant before it, at it and after it where the run's properties care.
* Contacts: the configured 3, and 2 in `a3_llm`, where exhausting the budget early is the interesting case.
* In `paired` a draw that nobody can read is not enumerated: where the card works no message can complete a change, so
  the last message's level is constant. `Grid` is {1, 2, 3, 7}: below the baseline, at it, just above it, and above
  every number of messages an episode can contain. The baseline and its successor are assumed to be in it
  (`GridAssumption`).
* `Levels` {0, 2, 4} of 0..4: a draw everybody's message passes, one that fatigue turns from engaged to not, one that
  nothing passes. The three card-broken codes are treated alike by all code (`_CARD_BROKEN_KEYS`), so one stands for
  them in the runs; the proofs quantify over all.
* `replay`: three decision points, so that there is one before and one after the interesting call, and three runs: one
  cut short, its continuation and a replay.
* `holdout`: three arms of different kinds (with and without a ledger, the oracle), two sessions and three commits: the
  second session meets everything the first can leave behind, and a third commit lets the operator clear, commit and
  authorize again.
* `analysis`: two episodes and three lines are enough for every one of missing, duplicate, foreign, swapped and torn
  lines, alone and in the combinations that keep the count; all result sets of three bounded arms and a candidate.
* The theorems below remove these bounds for the properties they cover.

### Fairness

`FairSpec` is `Spec /\ WF_vars(Next)`: the loop is straight-line code in one thread and always takes its next step.
Nothing stronger is assumed; no draw is assumed to be ever favourable. `AuditSpec` is the same over the ledger's
counters. In `HoldoutSession`, `FairSpec` is `Spec /\ WF_vars(Progress)`, where `Progress` is the four steps a healthy
script takes. A failure, an interrupt or a kill may happen and never needs to, and the operator is under no obligation
whatever. The other runs need no fairness.

Deadlock checking is on everywhere; `Terminated` is an explicit stuttering step of the finished program.

## 4. The abstract specification

`RecoveryContract` has four variables: the outcome, whether the card was broken at opening, contacts spent, closed.
A contact may be spent only while something is open; an open episode is recovered or given up; giving up may already
rescue a repairable one, because the halt email can; an episode closes only with an outcome. `A3RunnerProperties` maps
`ep.sub`, `ep.invoice`, `ep.cardAtOpening`, `ep.contacts` and the end of the loop to them, and the `a3_llm` run checks
the whole specification, its fairness included, as a temporal property. The theorem `RunnerImplementsContract` proves
the safety half for all constants and all policies.

## 5. What is proved

All proofs are in the modules named `...Proofs`. They assume the named assumptions on the constants and no others:
`WorldAssumption` (ticks and days are naturals, the retry days do not pass the halt day, top-up delays are positive, a
permanent block outlasts the retries), `RunnerAssumption` (the window contains the halt day, conditions and policy are
known), `PairedAssumption` and `GridAssumption` (the same for the paired lanes, and a grid with the baseline threshold
and its successor in it), `PlannerAssumption`, `SessionAssumption` and `AnalysisAssumption` (what the constants of those
modules are). TLC evaluates each of them in the runs of its module. Where a theorem needs more of the schedule it says
so in its own hypothesis; the schedule of `configs/episode.yaml` (retries on days 1, 2, 3, halt on day 3, budget 3)
satisfies them all.

### One episode

* `WorldProofs`: the effect of a message, a retry and the halt on each field that matters: types are preserved, contacts
  grow by one exactly for agent messages, the card never breaks, a rescue needs a card that was broken. A3-D's table
  always yields a proposal (the least-numbered match exists), its type, and `A3DIsGateCompliant`: on every view of a
  live subscription with budget, it passes all seven gate rules. The code asserts this "by construction" and leans on it
  in the fallback.
* `A3RunnerProofs`: the inductive invariant `IInv` is `TypeOK` with three strengthenings. `OutcomeShape` ties the local
  `halted` flag, the subscription state, the invoice and the card to the phase of the day: exclusiveness alone is not
  inductive, because the halt test reads the flag and the retry reads the state, and only their joint history excludes a
  halt after a recovery. `Spending` bounds contacts by the budget and says that a policy is only consulted with budget
  left and an open subscription. `RecordsWritten` says that the ledger has one record for each day that is over, which
  is what bounds it by the window. `TypeOK` states ranges as well as types: contacts and the budget columns of every
  record lie within the budget, no ledger is longer than the window, and what the runner remembers of the history is a
  length of it. From `IInv` follow `TypeCorrect`, `OutcomesNeverBlur`, `OutcomesAreFinal`,
  `FallbackNeverRejected` (through `A3DIsGateCompliant`) and `RunnerImplementsContract`. `GateLog` relates the history
  to what the gate lets through, message by message, and gives `GatesHold`; a counting lemma ties the number of agent
  messages to the contact counter. `DecisionLog` describes the record of the day and gives `A3DNeverRejected`,
  `PlannerFallbackNeverRejected` and `ParsedAnswersAlwaysExecute`.
* `MechanicsProofs`: `LatentLog` records what no step of the day loop undoes about the latent state (a working card,
  funds in place, when a block clears), from one lemma on every step, `LatentOnlyImproves`. `StopForgoesNothing` then
  has two cases: where the card works and the funds are there no message can change a retry at all (`NothingToRepair`);
  where the funds are missing A3-D stops so late that only the retry of the same day is left, and a top-up takes time
  (`TooLateForToday`). It assumes that the halt is on day 3 or earlier: rule R-07 has the literal 3 in it, the schedule
  is configured, and with a later halt the rule would give up recoveries. `BankErrorsHeal` assumes a retry on day 2 and
  blocks that clear by then, as `sim/latent.py` draws them. `EngagementAlwaysShown` needs no such assumption. The
  restraint of A3-D, `SilenceIsRespected` and `OneRescueAttempt`, reads the history as a sequence of days:
  `RestraintLog` says that the opening email comes first, that no day has two agent messages, that all of them lie on
  the first four days or are the rescue attempt of day 5, and that until somebody engages there is one early message.
  `OneRescueAttempt` assumes a halt on day 3 or later; with an earlier one an early message would follow it.
* `EpisodeAuditProofs`: `AuditTrailAlways` under every policy, and `LedgerAlwaysReconciles` under every policy but the
  caller-supplied one, which may ask for a remedy without an executor and so add a fourth kind of wake-up. The invariant
  (`Books`) balances the counters with the record still under construction: between the decision and step 9 a contact is
  already in the episode and not yet in the ledger.

### Between arms

`PairedArmsProofs` has one invariant per comparison, all of them over `LanesInv`: every lane is a typed episode, its
contacts are its messages less the automatic ones (`Counted`), and its outcome fields fit its flag (`Settled`). It gives
`LanesAreTyped` and `ResultsCohere`. One lemma, `LaneDayParts`, splits a day of any lane, a baseline's, the oracle's or
the runner's, into the same four parts: the opening email, at most one prompt, the retry, the halt with its email. The
later invariants only say what each part does.

* `ArmsStandOnTheFloor`: until the retries are over every arm is at least as recoverable as the arm that sends nothing
  (`FloorInv`: card, funds, block and mandate are ordered). The invoices alone would not be inductive: an arm may be
  behind in what it has recovered only if it never falls behind in what it can.
* `StrengtheningCostsNothing`: the strengthened schedule is the corrected one up to day 5 and wherever the card works,
  so with a halt before day 5 its third prompt can only rescue (`StrengthInv`).
* `NoRescueIsLost`: `RescueInv` numbers the draws. Only the first two can rescue the customer nobody contacts, and in
  every arm a draw that repairs has repaired once its message is sent, whoever sent it, provided it was a card prompt.
  That is what has to be shown of A3-D: where the card may be broken it opens with one (`OpensWithCard`).
* `OracleCapsEveryArm`: `CeilingInv` follows a card and the funds of every arm back to the draws that changed them, by
  message index. The oracle has sent, by the end of any day, every message another arm can have sent by then: the
  contacts of an arm lie on three days (`Slots`), the oracle's on the first three (`Quota`), and a draw heard by an arm
  is heard by the oracle no later. It assumes a retry on the halt day: the oracle's last repair may come after an arm's
  last earlier retry, and without that last retry TLC finds an arm above the ceiling.
* `TranscriptionIsFaithful`: each of the sixteen rules of the second text is, word by word, the rule of A3-D's table at
  its number wherever the withholding tests agree (`RulesAreTheTable`), so the first that returns and the least-numbered
  match are the same proposal (`TextsAgree`); the lanes then stay equal (`ParityInv`). Nothing is assumed of the
  schedule.
* `SweepHasTwoRegimes`: on the day on which restraint decides, a customer of the frontier has been sent exactly two
  messages (`Paced`), so every threshold above the baseline withholds alike. The halt may not be before the decisive day
  3. The invariants of `PairedArms` carry over to `ArmDiagnostics` by a lemma: the frontier's lanes are only watched.
* `StressVerdictHolds`: no verdict names a violation. `VerdictInv` says of every message, in every arm, that its remedy
  fits the arm and the decline (`Fits`), and of the runner's lanes that no day lacks its record.
* `PatienceIsFree`: a lane of the frontier is compared with another lane message for message, in one of three ways that
  together are inductive (`PatienceInv`). Outside the card-broken codes the table has, until the retries are over, all
  that a scheduled arm has *and* the reminder that arm has yet to send on day 1 (`Matched`): the table's reminder is of
  day 0, so without the second half the arm would catch up. Inside them it is the scheduled arm's own lane until the
  halt or already recovered (`Beside`). The patient table is A3-D's lane until the one decision on which restraint can
  differ and, after it, at least as recoverable (`Freed`). It assumes that the halt is on day 3 or 4, between the
  table's last early message and its rescue of day 5, literals of `agent/policy.py` both. With a halt and a retry on day
  5, or 6, TLC finds an invoice lost; with a halt before day 3 it finds none on the constants of `paired`, and nothing
  is proved.
* `DeficitIsTheRestraint`: a broken card is either still beside the comparators or was left alone on day 3 and has since
  been sent at most the rescue (`Withheld`, in `RestraintInv`); what a schedule has spent by then is known to the
  message (`Prompted`). A stopped A3-D loses nothing because it never stops a card that may be broken (`Steady`). It
  assumes the same halt days and a budget of three contacts, the configured one, or more: with two, A3-D's rescue and
  the two prompts of A2-strengthened cost the same, and TLC finds a deficit outside `A_D2`.

### The evaluation

* `PlannerReplayProofs`: `ReplayInvariant` says that every outcome of the run in progress, the one cut short and the
  recorded one is explained by the text its cache holds for its prompt, where the prompt is the sequence of proposals
  before it. A replay that reads the same cache therefore sees the same prompts, by induction over the run's own steps.
  From it: `ReplayTypes`, `ReplayIsFaithful`, `ReplayStopsRightly`, `ResumedRunsRepeat`, and
  `TextsMakeReplaysWhole`, the part of the claim refuted in `replay_claim` that the code does keep.
* `HoldoutSessionProofs`: `SessionInvariant` relates the phase of the script to the disk. `Filling` says that the files
  of the current arm are the first ones of its list, none torn, the rest still to come; `InOrder` that the arms before
  it are complete or relocated and those after it untouched; `Logged` what the lines of the session are; `Undisturbed`
  what the refusals established and nobody has changed since. From it: `SessionTypes`, `CompleteLines`,
  `RunParamsSeal`, `OneRemnant`, `FrozenSurface`, `AttemptsAreAuthorized` and `EndingIsTrue`, the safety half of
  `EverySessionEnds`, for any scope of arms, any list of files, any number of sessions and commits.
* `HoldoutAnalysisProofs`: the checks of a loaded file (right number of records, every index present) make the map
  from records to episodes a surjection between sets of one cardinality, hence an injection: `AcceptedFilesAreWhole`.
  The wins of the file are then the wins of the run, and since the leader is in the tied set, `PassingIsEarned`.
  `ComparedArePaired` adds the order: a finite set of numbers has one ascending enumeration (`NumbersEnumerate`, by the
  least size of a set without one, and `EnumerationsAgree`, by the first place where two would differ), so the records
  sorted by episode are the episodes in order. For this `Values` and `Order` state what a stable sort yields as the
  choice of the ascending bijection: the library's `SortSeq` goes through an operator the prover does not expand.

### Only model-checked

* Liveness (`EverySessionEnds` and the contract's fairness, by which an episode always closes): beyond the prover.

Every safety invariant and every action property that a run checks is stated by a theorem.

## 6. Findings

Five statements of the repository that the code does not keep, each refuted by a run of one property:

* `halt_email`: the docstring of `_apply_dues_naming_effect` says that after the halt "the mechanism does not fire at
  all (no draw consumed)". The guard is `day > halt_boundary_day`, and the halt email is sent *on* that day, after the
  subscription became halted: an engaged customer makes it draw a top-up that no retry will ever read. No outcome
  changes.
* `replay_claim`: `EVAL.md:938` says that a recorded run can be replayed byte-identically by construction. A timed-out
  call is answered by A3-D and never stored (`planner.py:306`), so the replay of a complete run stops there.
* `holdout_interrupt`: `scripts/run_holdout.py:33` says that every arm that raises leaves an outcome line. The handler
  catches `Exception` (line 363); `KeyboardInterrupt` passes it by.
* `holdout_retry`: `scripts/run_holdout.py:49` says that a crashed arm is replayed by clearing its directory and
  invoking again. The precondition at line 264 refuses while any arm's directory exists, completed ones included.
  Relocating those lets the session start, but it then runs the completed arms once more.

* `escalation`: the comment at `src/rrx/eval/runner.py:263` and `EVAL.md:651` define the escalation rate by STOP
  decisions with the reason `risk_flagged`. The code tests the reason alone (line 265). The parser admits a WAIT with
  that reason on a risk-flagged payment, so an A3-LLM episode can be counted once a wake-up without a single STOP. Under
  A3-D the two definitions agree.

Not findings of a run: A3-D's run parameters name no policy (`eval/arms.py:378`), which `results/holdout_runs.md`
already records. The comment at `src/rrx/eval/runner.py:267` says that what cannot be executed is recorded as a WAIT;
the episode runner records `ENFORCEMENT_FAILURE` for an unknown action, and a rejected proposal is executed as its
fallback.

## 7. Plan

Done: `Simulator`, `AgentPolicy`, `A3Runner` with its contract and proofs, `BaselineArms`, `PairedArms`,
`PlannerReplay`, `HoldoutSession` with its liveness, `HoldoutAnalysis`, `EpisodeAudit`, `ArmDiagnostics`, the proofs of
section 5. What could still be added: the readings of `scripts/day9_mechanism_attribution.py` and `day10_value.py` that
attribute a difference to a mechanism per episode, as further operators over the lanes; and `PatienceIsFree` and
`DeficitIsTheRestraint` for a halt before day 3.

**Not modelled.** The statistics (bootstrap, rates), prompts and wording, network adapters, specification documents, and
the reports and one-off diagnostics other than those above (`diagnostics/*`, `day9_mechanism_attribution.py`,
`day10_value.py`): they hold no protocol state, run once over finished files, and their content is numeric or textual.
The cache's key does not hold the model's reasoning effort (`llm_cache.py:35`); a run has one setting, so there is
nothing in the model for it to be confused with, and that hazard stands without a property. So do the two gaps of the
freeze check, the paths it does not list (`run_holdout.py:125`) and the files edited between a run and its manifest
(`arms.py:354`): the code has no guard against either that a property could rest on.
