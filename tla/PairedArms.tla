------------------------------ MODULE PairedArms ------------------------------
(***************************************************************************)
(* The paired comparison the evaluation rests on (eval/arms.py): the same  *)
(* episode run under every arm.  The arms share nothing but the world, so  *)
(* their day loops are advanced side by side, one day per step.            *)
(***************************************************************************)
EXTENDS BaselineArms

CONSTANTS
  WindowDays,   \* episode.window_days
  Conditions,   \* the opening conditions drawn
  Levels        \* engagement levels the worlds use

ASSUME PairedAssumption ==
  /\ WindowDays \in Nat
  /\ HaltDay <= WindowDays
  /\ Conditions \subseteq OpeningConditions
  /\ Levels \subseteq 0..NobodyEngages

VARIABLES
  world,   \* the draws of the episode, chosen once
  day,
  lanes    \* arm -> lane

vars == <<world, day, lanes>>

Arms == ScheduledArms \cup {"A3-D", "A4"}

(***************************************************************************)
(* Draws that can change nothing are not enumerated: a card prompt draws a *)
(* completion only while the card is broken, the instant of the funds is   *)
(* read only where funds are awaited, the last index of a top-up can only  *)
(* be the halt email's, after the last retry, and the last message of an   *)
(* exhausted budget, sent after the last retry too, can only matter to a   *)
(* card that is still broken.                                              *)
(***************************************************************************)
Constantly(value) == {[k \in MessageIndexes |-> value]}

ButTheLast(values, last) ==
  {[k \in MessageIndexes |-> IF k \in 0..MaxContacts THEN f[k] ELSE last]
     : f \in [0..MaxContacts -> values]}

LevelDraws(latent) ==
  IF latent.card THEN ButTheLast(Levels, NobodyEngages)
  ELSE [MessageIndexes -> Levels]

Completions(latent) ==
  IF latent.card THEN Constantly(FALSE) ELSE [MessageIndexes -> BOOLEAN]

TopUps(latent) ==
  IF latent.funds = 0 THEN Constantly(0)
  ELSE ButTheLast({0} \cup AccelDelays, 0)

Worlds ==
  UNION {UNION {
    [condition : {c}, latent : {latent}, level : LevelDraws(latent),
     completes : Completions(latent), topup : TopUps(latent)]
      : latent \in LatentStates(c)} : c \in Conditions}

(***************************************************************************)
(* One day of run_episode_a3, given what the policy proposes on the view   *)
(* of that day (nobody asks on a day without a wake-up), with the runner's *)
(* own operators.                                                          *)
(***************************************************************************)
Runner(lane, opened, d) == INSTANCE A3Runner WITH
  Policy <- "A3-D", condition <- world.condition, ep <- opened, day <- d,
  phase <- "open", halted <- lane.halted, stopped <- lane.stopped,
  lastWake <- lane.lastWake, tick <- "unused", ticks <- d, shown <- 0

AgentView(lane, d) == Runner(lane, OpeningEmail(world, lane.ep, d), d)!View

RunnerDay(proposal, lane, d) ==
  LET opened   == OpeningEmail(world, lane.ep, d)
      wakes    == Runner(lane, opened, d)!TickType(opened) = "wakeup"
      view     == AgentView(lane, d)
      output   == Runner(lane, opened, d)!Output(proposal, "none")
      survivor == Runner(lane, opened, d)!Survivor(output, view)
      executed == IF wakes THEN Runner(lane, opened, d)!Executed(survivor, view)
                  ELSE "none"
      content  == IF executed = "CONTACT" THEN survivor.remedy ELSE NoContact
      woken    == [lane EXCEPT
                     !.stopped    = @ \/ executed = "STOP",
                     !.lastWake   = IF wakes THEN Len(opened.history) ELSE @,
                     !.records    = @ + 1,
                     !.rejectedBy = IF wakes
                       THEN @ \cup ({RuleFired(output.proposal, view)} \ {NoRule})
                       ELSE @]
  IN CloseDay(world, woken, Contacted(world, opened, d, content), d)

LaneDay(arm, lane) ==
  CASE arm \in ScheduledArms -> ScheduledDay(arm, world, lane, day)
    [] arm = "A4"            -> A4Day(world, lane, day)
    [] arm = "A3-D"          -> RunnerDay(A3D(AgentView(lane, day)), lane, day)

Init ==
  /\ world \in Worlds
  /\ day = IF world.condition = Cancelled THEN WindowDays + 1 ELSE 0
  /\ lanes = [arm \in Arms |-> Lane(Opening(world.condition, world.latent))]

\* Mutant: range(0, window_days + 2).
DayTooFar ==
  /\ day <= WindowDays + 1
  /\ lanes' = [arm \in Arms |-> LaneDay(arm, lanes[arm])]
  /\ day' = day + 1
  /\ UNCHANGED world

Day ==
  /\ day <= WindowDays
  /\ lanes' = [arm \in Arms |-> LaneDay(arm, lanes[arm])]
  /\ day' = day + 1
  /\ UNCHANGED world

Terminated == day > WindowDays /\ UNCHANGED vars

Next == Day \/ Terminated

Spec == Init /\ [][Next]_vars

-----------------------------------------------------------------------------
Recovered(arm) == lanes[arm].ep.invoice
Rescued(arm)   == lanes[arm].ep.sub = "active"   \* EpisodeResult's own column
Sent(arm)      == lanes[arm].ep.history
AgentSends(arm) == {k \in DOMAIN Sent(arm) : IsAgentContact(Sent(arm)[k].remedy)}

\* Every lane is an episode state, and an arm never sends more messages than
\* there are draws for.
TypeOK ==
  /\ day \in 0..(WindowDays + 1)
  /\ \A arm \in Arms :
       /\ lanes[arm].ep \in EpisodeState
       /\ Len(Sent(arm)) <= MaxContacts + 2

\* A0 is the floor of the invoice metric, episode by episode and not only on
\* average: whatever the fatigue and the re-indexed draws do, an invoice that
\* recovers without any contact recovers under every arm.
NoArmBelowTheFloor == Recovered("A0") => \A arm \in Arms : Recovered(arm)

\* And the floor of the rescue metric, although an agent contact takes the very
\* draw the halt email would have had: every arm that contacts a broken card at
\* all makes its first contact a card prompt, which the same draw repairs.
NoArmLosesARescue ==
  day > HaltDay /\ Rescued("A0") => \A arm \in Arms : Rescued(arm)

\* A4 is the ceiling of the invoice metric, episode by episode: when all retries
\* are over, no arm has recovered an invoice the oracle left, the ones it gave
\* up on or left to the retries included.
OracleIsTheCeiling ==
  day > HaltDay => \A arm \in Arms : Recovered(arm) => Recovered("A4")

\* The third, post-halt prompt of A2-strengthened costs no invoice and loses no
\* subscription that the corrected schedule keeps.
StrengtheningIsFree ==
  /\ Recovered("A2_STRENGTHENED") <=> Recovered("A2_CORRECTED_V1")
  /\ Rescued("A2_CORRECTED_V1") => Rescued("A2_STRENGTHENED")

\* The three columns of a result agree in every arm, contacts to an already
\* active subscription included: recovered means active and never halted,
\* active without the invoice means a repaired card, and no episode closes
\* pending.
ResultsAreCoherent ==
  \A arm \in Arms :
    LET lane == lanes[arm]
    IN /\ lane.ep.invoice => lane.ep.sub = "active" /\ ~lane.halted
       /\ lane.ep.sub = "active" /\ ~lane.ep.invoice =>
            lane.halted /\ ~lane.ep.cardAtOpening /\ lane.ep.card
       /\ day > HaltDay => lane.ep.sub # "pending"

=============================================================================
