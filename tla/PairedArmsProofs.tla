-------------------------- MODULE PairedArmsProofs ---------------------------
(***************************************************************************)
(* The paired comparison, for every schedule, budget, set of draws and     *)
(* window: each arm's lane is a coherent episode, and arm against arm the  *)
(* floor, the strengthened schedule and the transcribed table are what the *)
(* evaluation takes them to be.                                            *)
(***************************************************************************)
EXTENDS ArmDiagnostics, WorldProofs, FiniteSetTheorems

WorldType ==
  [condition : OpeningConditions, latent : LatentType,
   level : [MessageIndexes -> Nat], completes : [MessageIndexes -> BOOLEAN],
   topup : [MessageIndexes -> {0} \cup AccelDelays]]

IsLane(l) ==
  l = [ep |-> l.ep, halted |-> l.halted, stopped |-> l.stopped,
       lastWake |-> l.lastWake, records |-> l.records,
       rejectedBy |-> l.rejectedBy]

One(p) == IF p THEN 1 ELSE 0

\* The messages of a lane are its contacts and its automatic emails, so a draw
\* there is for every message it can still send.
Counted(ep, emails) ==
  /\ ep.contacts <= MaxContacts
  /\ Len(ep.history) = ep.contacts + emails
  /\ ep.topups <= Len(ep.history)

\* Nothing decided, recovered, halted, or rescued after the halt.
Settled(ep, halted) ==
  \/ ep.sub = "pending" /\ ~ep.invoice /\ ~halted
  \/ ep.sub = "active" /\ ep.invoice /\ ~halted
  \/ ep.sub = "halted" /\ ~ep.invoice /\ halted
  \/ ep.sub = "active" /\ ~ep.invoice /\ halted
       /\ ep.card /\ ~ep.cardAtOpening

LaneInv(l, d) ==
  /\ IsLane(l)
  /\ l.ep \in EpisodeState
  /\ l.halted \in BOOLEAN
  /\ Counted(l.ep, One(d > 0) + One(l.halted))
  /\ Settled(l.ep, l.halted)
  /\ l.halted => d > HaltDay
  /\ d > HaltDay => l.ep.sub # "pending"

LanesInv ==
  /\ world \in WorldType
  /\ day \in 0..(WindowDays + 1)
  /\ IF world.condition = Cancelled
     THEN /\ day = WindowDays + 1
          /\ lanes = [arm \in Arms |-> Lane(Opening(world.condition, world.latent))]
     ELSE /\ lanes = [arm \in Arms |-> lanes[arm]]
          /\ \A arm \in Arms : LaneInv(lanes[arm], day)

\* One episode is at least as recoverable as another.
Improves(f, e) ==
  /\ e.card => f.card
  /\ f.funds <= e.funds
  /\ f.blocked = e.blocked
  /\ f.mandate = e.mandate

\* Until the retries are over every arm is ahead of the arm that sends nothing.
Ahead(x, floor, d) ==
  /\ d = 0 => x.ep = floor.ep
  /\ d <= HaltDay => Improves(x.ep, floor.ep)
  /\ floor.ep.invoice => x.ep.invoice

FloorInv ==
  world.condition # Cancelled =>
    \A arm \in Arms : Ahead(lanes[arm], lanes["A0"], day)

\* The two schedules differ from the fifth day on, and where the card is broken.
AtLeastAsGood(strong, plain, d) ==
  /\ d <= 5 \/ world.condition \notin CardBrokenKeys => strong = plain
  /\ strong.halted = plain.halted
  /\ strong.ep.invoice = plain.ep.invoice
  /\ plain.ep.sub = "active" => strong.ep.sub = "active"

StrengthInv ==
  AtLeastAsGood(lanes["A2_STRENGTHENED"], lanes["A2_CORRECTED_V1"], day)

-----------------------------------------------------------------------------
(***************************************************************************)
(* Messages.                                                               *)
(***************************************************************************)
\* What one message, an agent's or an automatic one, may change.
MessageOutcome(e, f, agent) ==
  /\ f \in EpisodeState
  /\ Improves(f, e)
  /\ f.cardAtOpening = e.cardAtOpening
  /\ f.invoice = e.invoice
  /\ f.contacts = e.contacts + agent
  /\ f.topups <= e.topups + 1
  /\ Len(f.history) = Len(e.history) + 1
  /\ f.sub = IF e.sub = "halted" /\ f.card /\ ~f.cardAtOpening
             THEN "active" ELSE e.sub

LEMMA MessageTopups ==
  ASSUME NEW e \in EpisodeState, NEW d \in Nat, NEW remedy, NEW draw \in Draws
  PROVE  SendMessage(e, d, remedy, draw).topups \in {e.topups, e.topups + 1}
<1> DEFINE g == MessageEffect(e, d, remedy, draw)
           h == IF draw.engaged /\ NamesCard(remedy)
                THEN CardEffect(e, draw) ELSE e
<1>1. h \in EpisodeState /\ h.topups = e.topups
  BY DrawsAreTyped DEF CardEffect, EpisodeState, DrawsType
<1>2. g \in EpisodeState /\ (g = h \/ g = DuesEffect(h, d, draw))
  BY EffectOnlyHelps DEF MessageEffect
<1> HIDE DEF h
<1>3. DuesEffect(h, d, draw).topups \in {h.topups, h.topups + 1}
  BY <1>1 DEF DuesEffect, EpisodeState
<1>4. g.topups \in {e.topups, e.topups + 1}
  BY <1>1, <1>2, <1>3
<1> HIDE DEF g
<1> QED BY <1>2, <1>4 DEF SendMessage, EpisodeState, g

LEMMA AppendLen ==
  ASSUME NEW s \in Seq(ContactRecord), NEW r
  PROVE  Len(Append(s, r)) = Len(s) + 1
BY LenProperties

LEMMA EmailOutcome ==
  ASSUME NEW e \in EpisodeState, NEW d \in Nat, NEW draw \in Draws
  PROVE  MessageOutcome(e, SendMessage(e, d, AutoEmail, draw), 0)
<1> DEFINE f == SendMessage(e, d, AutoEmail, draw)
<1>1. AutoEmail \in Remedies /\ ~IsAgentContact(AutoEmail)
  BY DEF Remedies, IsAgentContact
<1>2. /\ f \in EpisodeState
      /\ f.funds <= e.funds
      /\ e.card => f.card
      /\ f.cardAtOpening = e.cardAtOpening
      /\ f.invoice = e.invoice
      /\ f.blocked = e.blocked
      /\ f.mandate = e.mandate
      /\ f.contacts = e.contacts + 0
      /\ f.sub = IF e.sub = "halted" /\ f.card /\ ~f.cardAtOpening
                 THEN "active" ELSE e.sub
      /\ \E engaged \in BOOLEAN :
           f.history = Append(e.history, [day |-> d, remedy |-> AutoEmail,
                                          engaged |-> engaged])
  BY <1>1, MessageChanges
<1>3. f.topups \in {e.topups, e.topups + 1} /\ e.topups \in Nat
  BY MessageTopups DEF EpisodeState
<1> HIDE DEF f
<1>4. f.topups <= e.topups + 1
  BY <1>3
<1>5. Len(f.history) = Len(e.history) + 1
  BY <1>2, AppendLen DEF EpisodeState
<1>6. MessageOutcome(e, f, 0)
  BY <1>2, <1>4, <1>5 DEF MessageOutcome, Improves
<1> QED BY <1>6 DEF f

LEMMA PromptOutcome ==
  ASSUME NEW c, NEW e \in EpisodeState, NEW d \in Nat,
         NEW remedy \in AgentRemedies, NEW draw \in Draws
  PROVE  MessageOutcome(e, SendContact(c, e, d, remedy, draw), 1)
<1> DEFINE f == SendContact(c, e, d, remedy, draw)
           g == SendMessage(e, d, remedy, draw)
<1>1. ContactOutcome(c, e, d, remedy, f)
  BY ContactEffect
<1>2. f.topups \in {e.topups, e.topups + 1} /\ e.topups \in Nat
  <2>1. g \in EpisodeState
    BY MessageChanges DEF Remedies
  <2>2. g.topups \in {e.topups, e.topups + 1}
    BY MessageTopups
  <2> HIDE DEF g
  <2>3. f.topups = g.topups
    BY <2>1 DEF SendContact, EpisodeState, g
  <2> QED BY <2>2, <2>3 DEF EpisodeState
<1> HIDE DEF f
<1>3. f.topups <= e.topups + 1
  BY <1>2
<1>4. Len(f.history) = Len(e.history) + 1
  BY <1>1, AppendLen DEF ContactOutcome, EpisodeState
<1>5. MessageOutcome(e, f, 1)
  BY <1>1, <1>3, <1>4 DEF ContactOutcome, MessageOutcome, Improves
<1> QED BY <1>5 DEF f

\* A draw exists for a message whose index the world covers.
LEMMA DrawIsTyped ==
  ASSUME world \in WorldType, NEW e \in EpisodeState, NEW remedy,
         Len(e.history) <= MaxContacts + 1, e.topups <= Len(e.history)
  PROVE  DrawFor(world, e, remedy) \in Draws
<1>1. /\ Len(e.history) \in Nat
      /\ e.topups \in Nat
      /\ MaxContacts \in Nat
  BY LenProperties, WorldAssumption DEF EpisodeState
<1>2. Len(e.history) \in MessageIndexes /\ e.topups \in MessageIndexes
  BY <1>1 DEF MessageIndexes
<1>3. /\ world.completes[Len(e.history)] \in BOOLEAN
      /\ world.topup[e.topups] \in {0} \cup AccelDelays
  BY <1>2 DEF WorldType
<1> QED BY <1>3 DEF DrawFor, Draws

-----------------------------------------------------------------------------
(***************************************************************************)
(* A day of any arm: the opening email, at most one contact, the close.    *)
(***************************************************************************)
Prompts(e, content) ==
  \/ content = NoContact
  \/ content \in AgentRemedies /\ e.contacts < MaxContacts

\* A day closes a lane that differs from yesterday's only in what its agent
\* remembers, on an episode that was sent at most one message.
OneDay(l, n, content) ==
  LET opened == OpeningEmail(world, l.ep, day)
  IN /\ Prompts(opened, content)
     /\ \E k : /\ IsLane(k)
               /\ k.halted = l.halted
               /\ n = CloseDay(world, k, Contacted(world, opened, day, content), day)

\* What the runner sends on a day whose policy proposes this.
RunnerContent(proposal, l) ==
  LET opened   == OpeningEmail(world, l.ep, day)
      wakes    == Runner(l, opened, day)!TickType(opened) = "wakeup"
      view     == AgentView(l, day)
      survivor == Runner(l, opened, day)!Survivor(
                    Runner(l, opened, day)!Output(proposal, "none"), view)
      executed == IF wakes
                  THEN Runner(l, opened, day)!Executed(survivor, view)
                  ELSE "none"
  IN IF executed = "CONTACT" THEN survivor.remedy ELSE NoContact

\* What an arm sends on a day.
ContentOf(arm, l) ==
  LET opened == OpeningEmail(world, l.ep, day)
      lever  == A4Content(world.condition, world.latent)
  IN CASE arm \in ScheduledArms ->
            IF opened.contacts < MaxContacts
            THEN Scheduled(arm, world.condition, day, opened.sub)
            ELSE NoContact
       [] arm = "A4"   -> IF A4Sends(lever, opened, day) THEN lever ELSE NoContact
       [] arm = "A3-D" -> RunnerContent(A3D(AgentView(l, day)), l)

LEMMA ScheduledContent ==
  ASSUME NEW arm \in ScheduledArms, NEW condition \in OpeningConditions,
         NEW d, NEW state
  PROVE  Scheduled(arm, condition, d, state) \in AgentRemedies \cup {NoContact}
<1>1. A1(condition, d, state) \in AgentRemedies \cup {NoContact}
  BY DEF A1, AgentRemedies
<1>2. A2(condition, d, state) \in AgentRemedies \cup {NoContact}
  BY DEF A2, CardPromptOn, AgentRemedies, OpeningConditions, DeclineCodes,
         CardBrokenKeys
<1>3. A2Corrected(condition, d, state) \in AgentRemedies \cup {NoContact}
  BY <1>2 DEF A2Corrected, CardPromptOn, AgentRemedies, CardBrokenKeys
<1>4. A2Strengthened(condition, d, state) \in AgentRemedies \cup {NoContact}
  BY <1>3 DEF A2Strengthened, CardPromptOn, AgentRemedies
<1> QED BY <1>1, <1>2, <1>3, <1>4 DEF Scheduled, ScheduledArms

\* The runner's day is one, whatever the policy proposes.
LEMMA RunnerDayParts ==
  ASSUME NEW proposal, NEW l, IsLane(l),
         OpeningEmail(world, l.ep, day).contacts \in 0..MaxContacts
  PROVE  OneDay(l, RunnerDay(proposal, l, day), RunnerContent(proposal, l))
<1> DEFINE opened   == OpeningEmail(world, l.ep, day)
           wakes    == Runner(l, opened, day)!TickType(opened) = "wakeup"
           view     == AgentView(l, day)
           output   == Runner(l, opened, day)!Output(proposal, "none")
           survivor == Runner(l, opened, day)!Survivor(output, view)
           executed == IF wakes
                       THEN Runner(l, opened, day)!Executed(survivor, view)
                       ELSE "none"
           content  == IF executed = "CONTACT" THEN survivor.remedy
                       ELSE NoContact
           k == [l EXCEPT
                   !.stopped    = @ \/ executed = "STOP",
                   !.lastWake   = IF wakes THEN Len(opened.history) ELSE @,
                   !.records    = @ + 1,
                   !.rejectedBy = IF wakes
                     THEN @ \cup ({RuleFired(output.proposal, view)} \ {NoRule})
                     ELSE @]
           c == Contacted(world, opened, day, content)
<1>1. RunnerDay(proposal, l, day) = CloseDay(world, k, c, day)
  BY DEF RunnerDay
<1>2. wakes => opened.contacts < MaxContacts
  <2>1. wakes => MaxContacts - opened.contacts # 0
    BY DEF Runner!TickType, Runner!Budget
  <2> QED BY <2>1, WorldAssumption
<1>3. executed = "CONTACT" => wakes /\ survivor.remedy \in AgentRemedies
  BY DEF Runner!Executed, Runner!AgentRemedies, AgentRemedies
<1>4. content = RunnerContent(proposal, l)
  BY DEF RunnerContent
<1>5. IsLane(k) /\ k.halted = l.halted
  <2> DEFINE v1 == l.stopped \/ executed = "STOP"
             v2 == IF wakes THEN Len(opened.history) ELSE l.lastWake
             v3 == l.records + 1
             v4 == IF wakes
                   THEN l.rejectedBy
                     \cup ({RuleFired(output.proposal, view)} \ {NoRule})
                   ELSE l.rejectedBy
  <2>1. k = [l EXCEPT !.stopped = v1, !.lastWake = v2, !.records = v3,
                      !.rejectedBy = v4]
    BY DEF IsLane
  <2> HIDE DEF k, v1, v2, v3, v4, executed, wakes
  <2> QED BY <2>1 DEF IsLane
<1> HIDE DEF k, survivor, executed, wakes, output, view, opened
<1>6. Prompts(opened, content)
  BY <1>2, <1>3 DEF Prompts
<1> HIDE DEF content
<1> QED BY <1>1, <1>4, <1>5, <1>6 DEF opened, OneDay

\* And so is that of every other loop.
LEMMA LaneDayParts ==
  ASSUME world \in WorldType, NEW arm \in Arms, NEW l, IsLane(l),
         OpeningEmail(world, l.ep, day).contacts \in 0..MaxContacts
  PROVE  OneDay(l, LaneDay(arm, l), ContentOf(arm, l))
<1> DEFINE opened  == OpeningEmail(world, l.ep, day)
           content == ContentOf(arm, l)
<1>1. world.condition \in OpeningConditions
  BY DEF WorldType
<1>2. CASE arm \in ScheduledArms
  <2>1. content = IF opened.contacts < MaxContacts
                  THEN Scheduled(arm, world.condition, day, opened.sub)
                  ELSE NoContact
    BY <1>2 DEF ContentOf, ScheduledArms
  <2>2. LaneDay(arm, l)
          = CloseDay(world, l, Contacted(world, opened, day, content), day)
    <3>1. LaneDay(arm, l) = ScheduledDay(arm, world, l, day)
      BY <1>2 DEF LaneDay, ScheduledArms
    <3> QED BY <2>1, <3>1 DEF ScheduledDay
  <2> HIDE DEF content, opened
  <2>3. Prompts(opened, content)
    BY <1>1, <1>2, <2>1, ScheduledContent DEF Prompts
  <2> QED BY <2>2, <2>3 DEF opened, content, OneDay
<1>3. CASE arm = "A4"
  <2> DEFINE lever == A4Content(world.condition, world.latent)
  <2>1. content = IF A4Sends(lever, opened, day) THEN lever ELSE NoContact
    BY <1>3 DEF ContentOf, ScheduledArms
  <2>2. LaneDay(arm, l)
          = CloseDay(world, l, Contacted(world, opened, day, content), day)
    BY <1>3, <2>1 DEF LaneDay, A4Day, ScheduledArms
  <2>3. lever \in AgentRemedies \cup {NoContact}
    BY DEF A4Content, AgentRemedies
  <2> HIDE DEF lever, content, opened
  <2>4. Prompts(opened, content)
    BY <2>1, <2>3 DEF A4Sends, Prompts
  <2> QED BY <2>2, <2>4 DEF opened, content, OneDay
<1>4. CASE arm = "A3-D"
  <2>1. LaneDay(arm, l) = RunnerDay(A3D(AgentView(l, day)), l, day)
    BY <1>4 DEF LaneDay, ScheduledArms
  <2>2. content = RunnerContent(A3D(AgentView(l, day)), l)
    BY <1>4 DEF ContentOf, ScheduledArms
  <2> QED BY <2>1, <2>2, RunnerDayParts
<1> QED BY <1>2, <1>3, <1>4 DEF Arms

-----------------------------------------------------------------------------
(***************************************************************************)
(* A lane stays a coherent episode.                                        *)
(***************************************************************************)
LEMMA MessageKeepsSettled ==
  ASSUME NEW e \in EpisodeState, NEW f, NEW n, NEW h \in BOOLEAN,
         MessageOutcome(e, f, n), Settled(e, h)
  PROVE  /\ Settled(f, h)
         /\ e.sub # "pending" => f.sub # "pending"
BY DEF MessageOutcome, Improves, Settled, EpisodeState

LEMMA MessageKeepsCount ==
  ASSUME NEW e \in EpisodeState, NEW f, NEW m \in Nat
  PROVE  /\ MessageOutcome(e, f, 0) /\ Counted(e, m) => Counted(f, m + 1)
         /\ MessageOutcome(e, f, 1) /\ Counted(e, m)
              /\ e.contacts < MaxContacts => Counted(f, m)
<1>1. /\ e.contacts \in Nat
      /\ e.topups \in Nat
      /\ Len(e.history) \in Nat
      /\ MaxContacts \in Nat
  BY LenProperties, WorldAssumption DEF EpisodeState
<1>2. f \in EpisodeState =>
        f.contacts \in Nat /\ f.topups \in Nat /\ Len(f.history) \in Nat
  BY LenProperties DEF EpisodeState
<1>3. ASSUME MessageOutcome(e, f, 0), Counted(e, m) PROVE Counted(f, m + 1)
  BY <1>1, <1>2, <1>3 DEF MessageOutcome, Counted
<1>4. ASSUME MessageOutcome(e, f, 1), Counted(e, m), e.contacts < MaxContacts
      PROVE  Counted(f, m)
  <2>1. /\ f.contacts = e.contacts + 1
        /\ f.topups <= e.topups + 1
        /\ Len(f.history) = Len(e.history) + 1
        /\ f.contacts \in Nat /\ f.topups \in Nat /\ Len(f.history) \in Nat
    BY <1>2, <1>4 DEF MessageOutcome
  <2>2. /\ e.contacts < MaxContacts
        /\ Len(e.history) = e.contacts + m
        /\ e.topups <= Len(e.history)
    BY <1>4 DEF Counted
  <2>3. f.contacts <= MaxContacts /\ Len(f.history) = f.contacts + m
    <3>1. e.contacts + 1 <= MaxContacts
      BY <1>1, <2>2
    <3>2. (e.contacts + m) + 1 = (e.contacts + 1) + m
      BY <1>1
    <3> QED BY <2>1, <2>2, <3>1, <3>2
  <2>4. f.topups <= Len(f.history)
    <3>1. f.topups <= e.topups + 1 /\ e.topups + 1 <= Len(e.history) + 1
      BY <1>1, <2>1, <2>2
    <3>2. e.topups + 1 \in Nat /\ Len(e.history) + 1 = Len(f.history)
      BY <1>1, <2>1
    <3> QED BY <2>1, <3>1, <3>2
  <2> QED BY <2>3, <2>4 DEF Counted
<1> QED BY <1>3, <1>4

\* What the steps of a day before its close keep.
Underway(e, h) ==
  /\ e \in EpisodeState
  /\ Counted(e, 1 + One(h))
  /\ Settled(e, h)
  /\ day > HaltDay => e.sub # "pending"

LEMMA OpeningKeepsLane ==
  ASSUME world \in WorldType, day \in Nat, NEW l, LaneInv(l, day)
  PROVE  LET opened == OpeningEmail(world, l.ep, day)
         IN /\ Underway(opened, l.halted)
            /\ Improves(opened, l.ep)
            /\ opened.invoice = l.ep.invoice
            /\ opened.contacts \in 0..MaxContacts
<1> DEFINE e == l.ep
           opened == OpeningEmail(world, l.ep, day)
           draw == DrawFor(world, e, AutoEmail)
<1>1. /\ e \in EpisodeState
      /\ l.halted \in BOOLEAN
      /\ Counted(e, One(day > 0) + One(l.halted))
      /\ Settled(e, l.halted)
      /\ l.halted => day > HaltDay
      /\ day > HaltDay => e.sub # "pending"
  BY DEF LaneInv
<1>2. /\ HaltDay \in Nat
      /\ MaxContacts \in Nat
      /\ One(l.halted) \in Nat
      /\ e.funds \in Nat
      /\ Len(e.history) \in Nat
  BY <1>1, WorldAssumption, LenProperties DEF One, EpisodeState
<1>3. CASE day = 0
  <2>1. One(day > 0) + One(l.halted) = 0 /\ One(l.halted) = 0
    BY <1>1, <1>2, <1>3 DEF One
  <2>2. e.contacts \in Nat
    BY <1>1 DEF EpisodeState
  <2>3. Len(e.history) <= MaxContacts + 1 /\ e.topups <= Len(e.history)
    BY <1>1, <1>2, <2>1, <2>2 DEF Counted
  <2>4. draw \in Draws
    BY <1>1, <2>3, DrawIsTyped
  <2>5. opened = SendMessage(e, day, AutoEmail, draw)
    BY <1>3 DEF OpeningEmail
  <2> HIDE DEF e, draw
  <2>6. MessageOutcome(e, opened, 0)
    BY <1>1, <2>4, <2>5, EmailOutcome
  <2> HIDE DEF opened
  <2>7. Counted(opened, 0 + 1)
    <3>1. Counted(e, 0)
      BY <1>1, <2>1
    <3> QED BY <1>1, <2>6, <3>1, MessageKeepsCount
  <2>8. Counted(opened, 1 + One(l.halted))
    BY <2>1, <2>7
  <2>9. /\ Settled(opened, l.halted)
        /\ day > HaltDay => opened.sub # "pending"
    BY <1>1, <2>6, MessageKeepsSettled
  <2>10. opened \in EpisodeState /\ opened.contacts \in Nat
    BY <2>6 DEF MessageOutcome, EpisodeState
  <2>11. opened.contacts \in 0..MaxContacts
    BY <1>2, <2>8, <2>10 DEF Counted
  <2> QED BY <2>6, <2>8, <2>9, <2>10, <2>11
          DEF MessageOutcome, Underway, e, opened
<1>4. CASE day # 0
  <2>1. opened = e
    BY <1>4 DEF OpeningEmail
  <2>2. One(day > 0) = 1
    BY <1>4 DEF One
  <2>3. e.contacts \in 0..MaxContacts
    BY <1>1, <1>2 DEF EpisodeState, Counted
  <2>4. Improves(e, e)
    BY <1>2 DEF Improves
  <2> QED BY <1>1, <2>1, <2>2, <2>3, <2>4 DEF Underway
<1> QED BY <1>3, <1>4

LEMMA PromptKeepsLane ==
  ASSUME world \in WorldType, day \in Nat, NEW e, NEW h \in BOOLEAN,
         Underway(e, h), NEW content, Prompts(e, content)
  PROVE  LET c == Contacted(world, e, day, content)
         IN /\ Underway(c, h)
            /\ Improves(c, e)
            /\ c.invoice = e.invoice
            /\ e.sub = "active" => c.sub = "active"
            /\ c.contacts = IF content = NoContact THEN e.contacts
                            ELSE e.contacts + 1
<1> DEFINE c == Contacted(world, e, day, content)
<1>1. /\ e \in EpisodeState
      /\ Counted(e, 1 + One(h))
      /\ Settled(e, h)
      /\ e.funds \in Nat
      /\ e.contacts \in Nat
      /\ Len(e.history) \in Nat
      /\ MaxContacts \in Nat
      /\ One(h) \in {0, 1}
  BY WorldAssumption, LenProperties DEF Underway, EpisodeState, One
<1>2. CASE content = NoContact
  <2>1. c = e
    BY <1>2 DEF Contacted
  <2> QED BY <1>1, <1>2, <2>1 DEF Improves
<1>3. CASE content \in AgentRemedies /\ e.contacts < MaxContacts
  <2> DEFINE draw == DrawFor(world, e, content)
  <2>2. c = SendContact(world.condition, e, day, content, draw)
    BY <1>3 DEF Contacted, AgentRemedies, NoContact
  <2>3. Len(e.history) <= MaxContacts + 1 /\ e.topups <= Len(e.history)
    BY <1>1, <1>3 DEF Counted
  <2>4. draw \in Draws
    BY <1>1, <2>3, DrawIsTyped
  <2> HIDE DEF draw, c
  <2>5. MessageOutcome(e, c, 1)
    BY <1>1, <1>3, <2>2, <2>4, PromptOutcome
  <2>6. Counted(c, 1 + One(h))
    <3>1. 1 + One(h) \in Nat
      BY <1>1
    <3> QED BY <1>1, <1>3, <2>5, <3>1, MessageKeepsCount
  <2>7. Settled(c, h) /\ (e.sub # "pending" => c.sub # "pending")
    BY <1>1, <2>5, MessageKeepsSettled
  <2> QED BY <1>3, <2>5, <2>6, <2>7
          DEF Underway, MessageOutcome, AgentRemedies, NoContact, c
<1> QED BY <1>2, <1>3 DEF Prompts

\* The retry of a day recovers an invoice and nothing else.
LEMMA RetryKeepsLane ==
  ASSUME day \in Nat, NEW c, NEW h \in BOOLEAN, Underway(c, h)
  PROVE  LET r == AfterRetry(c, day, h)
         IN /\ Underway(r, h)
            /\ Improves(r, c)
            /\ r.invoice <=> \/ c.invoice
                             \/ /\ day \in RetryDays /\ ~h
                                /\ RetrySucceeds(c, day)
            /\ day > HaltDay => r = c
<1> DEFINE r == AfterRetry(c, day, h)
<1>1. /\ c \in EpisodeState
      /\ Settled(c, h)
      /\ c.funds \in Nat
  BY DEF Underway, EpisodeState
<1>2. Improves(c, c)
  BY <1>1 DEF Improves
<1>3. day \in RetryDays => ~(day > HaltDay)
  BY WorldAssumption
<1>4. CASE day \in RetryDays /\ ~c.invoice /\ ~h /\ RetrySucceeds(c, day)
  <2>1. r = [c EXCEPT !.invoice = TRUE, !.sub = "active"]
    BY <1>4 DEF AfterRetry
  <2> HIDE DEF r
  <2>2. /\ r \in EpisodeState
        /\ r.invoice = TRUE
        /\ r.sub = "active"
        /\ r.funds = c.funds /\ r.card = c.card /\ r.blocked = c.blocked
        /\ r.mandate = c.mandate /\ r.contacts = c.contacts
        /\ r.history = c.history /\ r.topups = c.topups
    BY <1>1, <2>1 DEF EpisodeState, SubscriptionStates
  <2>3. Improves(r, c)
    BY <1>2, <2>2 DEF Improves
  <2>4. Underway(r, h)
    BY <1>4, <2>2 DEF Underway, Counted, Settled
  <2> QED BY <1>3, <1>4, <2>2, <2>3, <2>4 DEF r
<1>5. CASE ~(day \in RetryDays /\ ~c.invoice /\ ~h /\ RetrySucceeds(c, day))
  <2>1. r = c
    BY <1>5 DEF AfterRetry
  <2> QED BY <1>1, <1>2, <1>5, <2>1
<1> QED BY <1>4, <1>5

\* The halt leaves the invoice alone, and nothing is pending after it.
LEMMA HaltKeepsLane ==
  ASSUME world \in WorldType, day \in Nat, NEW e, Underway(e, FALSE),
         HaltsNow(e, day, FALSE)
  PROVE  LET f == AfterHalt(e, day, DrawFor(world, e, AutoEmail))
         IN /\ f \in EpisodeState
            /\ Counted(f, 1 + One(TRUE))
            /\ Settled(f, TRUE)
            /\ Improves(f, e)
            /\ f.invoice = e.invoice
            /\ f.sub # "pending"
<1> DEFINE g == [e EXCEPT !.sub = "halted"]
           draw == DrawFor(world, e, AutoEmail)
           f == AfterHalt(e, day, draw)
<1>1. /\ e \in EpisodeState
      /\ Counted(e, 1)
      /\ ~e.invoice
      /\ e.contacts \in Nat
      /\ Len(e.history) \in Nat
      /\ MaxContacts \in Nat
  <2>1. 1 + One(FALSE) = 1
    BY DEF One
  <2> QED BY <2>1, WorldAssumption, LenProperties
          DEF Underway, EpisodeState, HaltsNow
<1>2. Len(e.history) <= MaxContacts + 1 /\ e.topups <= Len(e.history)
  BY <1>1 DEF Counted
<1>3. draw \in Draws
  BY <1>1, <1>2, DrawIsTyped
<1>4. /\ g \in EpisodeState
      /\ g.sub = "halted"
      /\ g.invoice = e.invoice
      /\ g.card = e.card /\ g.funds = e.funds
      /\ g.blocked = e.blocked /\ g.mandate = e.mandate
      /\ g.contacts = e.contacts /\ g.history = e.history
      /\ g.topups = e.topups
  BY <1>1 DEF EpisodeState, SubscriptionStates
<1>5. f = SendMessage(g, day, AutoEmail, draw)
  BY DEF AfterHalt
<1> HIDE DEF f, g, draw
<1>6. MessageOutcome(g, f, 0)
  BY <1>3, <1>4, <1>5, EmailOutcome
<1>7. Counted(f, 1 + One(TRUE))
  <2>1. Counted(g, 1)
    BY <1>1, <1>4 DEF Counted
  <2> QED BY <1>4, <1>6, <2>1, MessageKeepsCount DEF One
<1>8. Settled(f, TRUE) /\ f.sub # "pending"
  <2>1. Settled(g, TRUE)
    BY <1>1, <1>4 DEF Settled
  <2> QED BY <1>4, <1>6, <2>1, MessageKeepsSettled
<1>9. f \in EpisodeState /\ Improves(f, e) /\ f.invoice = e.invoice
  BY <1>4, <1>6 DEF MessageOutcome, Improves
<1> QED BY <1>7, <1>8, <1>9 DEF f, draw

LEMMA CloseKeepsLane ==
  ASSUME world \in WorldType, day \in Nat, NEW k, IsLane(k),
         k.halted \in BOOLEAN, NEW c, Underway(c, k.halted),
         k.halted => day > HaltDay
  PROVE  LET n == CloseDay(world, k, c, day)
         IN /\ LaneInv(n, day + 1)
            /\ Improves(n.ep, c)
            /\ n.ep.invoice <=> \/ c.invoice
                                \/ /\ day \in RetryDays /\ ~k.halted
                                   /\ RetrySucceeds(c, day)
            /\ day > HaltDay => n = [k EXCEPT !.ep = c]
<1> DEFINE h == k.halted
           r == AfterRetry(c, day, h)
           halts == HaltsNow(r, day, h)
           f == AfterHalt(r, day, DrawFor(world, r, AutoEmail))
           n == CloseDay(world, k, c, day)
<1>1. /\ Underway(r, h)
      /\ Improves(r, c)
      /\ r.invoice <=> \/ c.invoice
                       \/ day \in RetryDays /\ ~h /\ RetrySucceeds(c, day)
      /\ day > HaltDay => r = c
  BY RetryKeepsLane
<1>2. n = [k EXCEPT !.halted = h \/ halts, !.ep = IF halts THEN f ELSE r]
  BY DEF CloseDay, IsLane
<1>3. HaltDay \in Nat /\ c.funds \in Nat
  BY WorldAssumption DEF Underway, EpisodeState
<1>4. CASE halts
  <2>1. day = HaltDay /\ ~h
    BY <1>4 DEF HaltsNow
  <2>2. /\ f \in EpisodeState
        /\ Counted(f, 1 + One(TRUE))
        /\ Settled(f, TRUE)
        /\ Improves(f, r)
        /\ f.invoice = r.invoice
        /\ f.sub # "pending"
    <3>1. Underway(r, FALSE) /\ HaltsNow(r, day, FALSE)
      BY <1>1, <1>4, <2>1
    <3> HIDE DEF r
    <3> QED BY <3>1, HaltKeepsLane
  <2> HIDE DEF f, r
  <2>3. /\ IsLane(n)
        /\ n.halted = TRUE
        /\ n.ep = f
    BY <1>2, <1>4 DEF IsLane
  <2>4. day + 1 > HaltDay /\ One(day + 1 > 0) = 1 /\ ~(day > HaltDay)
    BY <1>3, <2>1 DEF One
  <2>5. LaneInv(n, day + 1)
    BY <2>2, <2>3, <2>4 DEF LaneInv
  <2>6. Improves(f, c)
    <3>1. /\ f.funds \in Nat /\ r.funds \in Nat
          /\ f.funds <= r.funds /\ r.funds <= c.funds
      BY <1>1, <2>2 DEF Improves, Underway, EpisodeState
    <3>2. f.funds <= c.funds
      BY <1>3, <3>1
    <3> QED BY <1>1, <2>2, <3>2 DEF Improves
  <2> QED BY <1>1, <2>1, <2>2, <2>3, <2>4, <2>5, <2>6
<1>5. CASE ~halts
  <2>1. n.ep = r /\ n.halted = h /\ IsLane(n)
    BY <1>2, <1>5 DEF IsLane
  <2>2. day > HaltDay => n = [k EXCEPT !.ep = c]
    BY <1>1, <1>2, <1>5 DEF IsLane
  <2>3. h => day + 1 > HaltDay
    BY <1>3
  <2>4. day + 1 > HaltDay => r.sub # "pending"
    <3>1. day = HaltDay => r.invoice \/ h
      BY <1>5 DEF HaltsNow
    <3>2. day + 1 > HaltDay => day = HaltDay \/ day > HaltDay
      BY <1>3
    <3> QED BY <1>1, <3>1, <3>2 DEF Underway, Settled
  <2>5. One(day + 1 > 0) = 1
    BY DEF One
  <2> HIDE DEF r, n, halts
  <2>6. LaneInv(n, day + 1)
    BY <1>1, <2>1, <2>3, <2>4, <2>5 DEF LaneInv, Underway
  <2> QED BY <1>1, <2>1, <2>2, <2>6 DEF n
<1> QED BY <1>4, <1>5

LEMMA ImprovesIsTransitive ==
  ASSUME NEW e \in EpisodeState, NEW f \in EpisodeState, NEW g \in EpisodeState,
         Improves(g, f), Improves(f, e)
  PROVE  Improves(g, e)
<1>1. /\ e.funds \in Nat /\ f.funds \in Nat /\ g.funds \in Nat
      /\ g.funds <= f.funds /\ f.funds <= e.funds
  BY DEF Improves, EpisodeState
<1>2. g.funds <= e.funds
  BY <1>1
<1> QED BY <1>2 DEF Improves

\* What a whole day does to a lane, of any arm: c is the episode before the close.
DayOutcome(l, n, content) ==
  LET opened == OpeningEmail(world, l.ep, day)
      c      == Contacted(world, opened, day, content)
  IN /\ Prompts(opened, content)
     /\ Underway(opened, l.halted)
     /\ opened.invoice = l.ep.invoice
     /\ Underway(c, l.halted)
     /\ Improves(c, opened)
     /\ c.invoice = opened.invoice
     /\ opened.sub = "active" => c.sub = "active"
     /\ c.contacts = IF content = NoContact THEN opened.contacts
                     ELSE opened.contacts + 1
     /\ LaneInv(n, day + 1)
     /\ Improves(n.ep, c)
     /\ n.ep.invoice <=> \/ c.invoice
                         \/ /\ day \in RetryDays /\ ~l.halted
                            /\ RetrySucceeds(c, day)
     /\ day > HaltDay => n.ep = c /\ n.halted = l.halted

LEMMA DayKeepsLane ==
  ASSUME world \in WorldType, day \in Nat, NEW l, LaneInv(l, day),
         NEW n, NEW content, OneDay(l, n, content)
  PROVE  DayOutcome(l, n, content)
<1> DEFINE opened == OpeningEmail(world, l.ep, day)
           c == Contacted(world, opened, day, content)
<1>1. Underway(opened, l.halted) /\ opened.invoice = l.ep.invoice
  BY OpeningKeepsLane
<1>2. l.halted \in BOOLEAN /\ (l.halted => day > HaltDay)
  BY DEF LaneInv
<1>3. PICK k : /\ IsLane(k)
               /\ k.halted = l.halted
               /\ n = CloseDay(world, k, c, day)
  BY DEF OneDay
<1>4. Prompts(opened, content)
  BY DEF OneDay
<1>5. /\ Underway(c, l.halted)
      /\ Improves(c, opened)
      /\ c.invoice = opened.invoice
      /\ opened.sub = "active" => c.sub = "active"
      /\ c.contacts = IF content = NoContact THEN opened.contacts
                      ELSE opened.contacts + 1
  <2> HIDE DEF opened
  <2> QED BY <1>1, <1>2, <1>4, PromptKeepsLane
<1> HIDE DEF opened, c
<1>6. /\ LaneInv(n, day + 1)
      /\ Improves(n.ep, c)
      /\ n.ep.invoice <=> \/ c.invoice
                          \/ /\ day \in RetryDays /\ ~l.halted
                             /\ RetrySucceeds(c, day)
      /\ day > HaltDay => n = [k EXCEPT !.ep = c]
  <2>1. /\ Underway(c, k.halted)
        /\ k.halted \in BOOLEAN
        /\ k.halted => day > HaltDay
    BY <1>2, <1>3, <1>5
  <2> QED BY <1>3, <2>1, CloseKeepsLane
<1>7. day > HaltDay => n.ep = c /\ n.halted = l.halted
  BY <1>3, <1>6 DEF IsLane
<1> QED BY <1>1, <1>4, <1>5, <1>6, <1>7 DEF DayOutcome, opened, c

-----------------------------------------------------------------------------
(***************************************************************************)
(* Every lane, all along.                                                  *)
(***************************************************************************)
LEMMA ConstantDraws ==
  ASSUME NEW S, NEW v \in S
  PROVE  Constantly(v) \subseteq [MessageIndexes -> S]
BY DEF Constantly

LEMMA CutDraws ==
  ASSUME NEW S, NEW last \in S
  PROVE  ButTheLast(S, last) \subseteq [MessageIndexes -> S]
BY DEF ButTheLast

LEMMA DrawsAreCovered ==
  ASSUME NEW latent \in LatentType
  PROVE  /\ LevelDraws(latent) \subseteq [MessageIndexes -> Nat]
         /\ Completions(latent) \subseteq [MessageIndexes -> BOOLEAN]
         /\ TopUps(latent) \subseteq [MessageIndexes -> {0} \cup AccelDelays]
<1>1. Levels \subseteq Nat /\ NobodyEngages \in Nat
  BY PairedAssumption, WorldAssumption DEF NobodyEngages
<1>2. LevelDraws(latent) \subseteq [MessageIndexes -> Nat]
  BY <1>1 DEF LevelDraws, ButTheLast
<1>3. Completions(latent) \subseteq [MessageIndexes -> BOOLEAN]
  BY ConstantDraws DEF Completions
<1>4. TopUps(latent) \subseteq [MessageIndexes -> {0} \cup AccelDelays]
  BY ConstantDraws, CutDraws DEF TopUps
<1> QED BY <1>2, <1>3, <1>4

LEMMA WorldsAreTyped == Worlds \subseteq WorldType
<1> SUFFICES ASSUME NEW w \in Worlds PROVE w \in WorldType
  OBVIOUS
<1>1. PICK c \in Conditions : \E latent \in LatentStates(c) :
        w \in [condition : {c}, latent : {latent}, level : LevelDraws(latent),
               completes : Completions(latent), topup : TopUps(latent)]
  BY DEF Worlds
<1>2. PICK latent \in LatentStates(c) :
        w \in [condition : {c}, latent : {latent}, level : LevelDraws(latent),
               completes : Completions(latent), topup : TopUps(latent)]
  BY <1>1
<1>3. c \in OpeningConditions
  BY PairedAssumption
<1>4. latent \in LatentType
  BY <1>3, LatentStatesAreTyped
<1> QED BY <1>2, <1>3, <1>4, DrawsAreCovered DEF WorldType

\* An episode nothing has happened in.
OpeningOf(c, e) ==
  /\ e \in EpisodeState
  /\ e.contacts = 0 /\ e.topups = 0 /\ e.history = <<>>
  /\ e.sub = (IF c = Cancelled THEN "cancelled" ELSE "pending")
  /\ ~e.invoice

LEMMA OpeningIsTyped ==
  ASSUME NEW c, NEW latent \in LatentType
  PROVE  OpeningOf(c, Opening(c, latent))
<1> DEFINE empty == <<>>
           state == IF c = Cancelled THEN "cancelled" ELSE "pending"
           e == Opening(c, latent)
<1>1. empty \in Seq(ContactRecord)
  BY EmptySeq
<1>2. /\ latent.card \in BOOLEAN /\ latent.funds \in Nat
      /\ latent.blocked \in Nat /\ latent.mandate \in BOOLEAN
  BY DEF LatentType
<1>3. state \in SubscriptionStates
  BY DEF SubscriptionStates
<1>4. e = [card |-> latent.card, cardAtOpening |-> latent.card,
           funds |-> latent.funds, blocked |-> latent.blocked,
           mandate |-> latent.mandate, sub |-> state,
           invoice |-> FALSE, contacts |-> 0, wasted |-> 0,
           topups |-> 0, wrongCard |-> FALSE, history |-> empty]
  BY DEF Opening
<1> HIDE DEF empty, state, e
<1>5. e \in EpisodeState
  BY <1>1, <1>2, <1>3, <1>4 DEF EpisodeState
<1>6. /\ e.contacts = 0 /\ e.topups = 0 /\ e.history = empty
      /\ e.sub = state /\ e.invoice = FALSE
  BY <1>4
<1>7. OpeningOf(c, e)
  BY <1>5, <1>6 DEF OpeningOf, empty, state
<1> QED BY <1>7 DEF e

LEMMA InitLanesInv == Init => LanesInv
<1> SUFFICES ASSUME Init PROVE LanesInv
  OBVIOUS
<1> DEFINE e == Opening(world.condition, world.latent)
           l == Lane(e)
<1>1. /\ world \in WorldType
      /\ world.condition \in OpeningConditions
      /\ world.latent \in LatentType
  BY WorldsAreTyped DEF Init, WorldType
<1>2. WindowDays \in Nat /\ HaltDay \in Nat /\ MaxContacts \in Nat
  BY PairedAssumption, WorldAssumption
<1>3. CASE world.condition = Cancelled
  BY <1>1, <1>2, <1>3 DEF Init, LanesInv
<1>4. CASE world.condition # Cancelled
  <2>1. day = 0 /\ lanes = [arm \in Arms |-> l]
    BY <1>4 DEF Init
  <2>2. /\ e \in EpisodeState
        /\ e.contacts = 0 /\ e.topups = 0 /\ e.history = <<>>
        /\ e.sub = "pending" /\ ~e.invoice
    BY <1>1, <1>4, OpeningIsTyped DEF OpeningOf
  <2> HIDE DEF e
  <2>3. IsLane(l) /\ l.ep = e /\ l.halted = FALSE
    BY DEF Lane, IsLane
  <2> HIDE DEF l
  <2>4. Counted(l.ep, One(day > 0) + One(l.halted))
    BY <1>2, <2>1, <2>2, <2>3 DEF Counted, One
  <2>5. LaneInv(l, day)
    <3>1. Settled(l.ep, l.halted)
      BY <2>2, <2>3 DEF Settled
    <3>2. ~(day > HaltDay)
      BY <1>2, <2>1
    <3> QED BY <2>2, <2>3, <2>4, <3>1, <3>2 DEF LaneInv
  <2> QED BY <1>1, <1>2, <1>4, <2>1, <2>5 DEF LanesInv
<1> QED BY <1>3, <1>4

LEMMA DayMovesEveryLane ==
  ASSUME LanesInv, Day, NEW arm \in Arms
  PROVE  /\ world \in WorldType
         /\ world.condition # Cancelled
         /\ day \in Nat
         /\ LaneInv(lanes[arm], day)
         /\ lanes'[arm] = LaneDay(arm, lanes[arm])
         /\ DayOutcome(lanes[arm], lanes'[arm], ContentOf(arm, lanes[arm]))
<1>1. WindowDays \in Nat
  BY PairedAssumption
<1>2. /\ world \in WorldType
      /\ day \in Nat
      /\ world.condition # Cancelled
  BY <1>1 DEF LanesInv, Day
<1>3. LaneInv(lanes[arm], day)
  BY <1>2 DEF LanesInv
<1>4. lanes'[arm] = LaneDay(arm, lanes[arm])
  BY DEF Day
<1>5. OpeningEmail(world, lanes[arm].ep, day).contacts \in 0..MaxContacts
  BY <1>2, <1>3, OpeningKeepsLane
<1>6. OneDay(lanes[arm], LaneDay(arm, lanes[arm]), ContentOf(arm, lanes[arm]))
  BY <1>2, <1>3, <1>5, LaneDayParts DEF LaneInv
<1>7. DayOutcome(lanes[arm], LaneDay(arm, lanes[arm]), ContentOf(arm, lanes[arm]))
  BY <1>2, <1>3, <1>6, DayKeepsLane
<1> QED BY <1>2, <1>3, <1>4, <1>7

LEMMA LanesInvStep == LanesInv /\ [Next]_vars => LanesInv'
<1>1. ASSUME LanesInv, Day PROVE LanesInv'
  <2>1. /\ world' = world
        /\ day' = day + 1
        /\ day <= WindowDays
        /\ WindowDays \in Nat
        /\ day \in Nat
    BY <1>1, PairedAssumption DEF Day, LanesInv
  <2>2. world \in WorldType /\ world.condition # Cancelled
    BY <1>1, <2>1 DEF LanesInv
  <2>3. \A arm \in Arms : LaneInv(lanes'[arm], day + 1)
    BY <1>1, DayMovesEveryLane DEF DayOutcome
  <2>4. lanes' = [arm \in Arms |-> lanes'[arm]]
    BY <1>1 DEF Day
  <2>5. \A arm \in Arms : LaneInv(lanes'[arm], day')
    BY <2>1, <2>3
  <2> QED BY <2>1, <2>2, <2>4, <2>5 DEF LanesInv, LaneInv, IsLane, Counted, Settled, One
<1>2. ASSUME LanesInv, UNCHANGED vars PROVE LanesInv'
  BY <1>2 DEF LanesInv, vars, LaneInv, IsLane, Counted, Settled, One
<1> QED BY <1>1, <1>2 DEF Next, Terminated

LEMMA LanesInvariant == Spec => []LanesInv
<1>1. LanesInv /\ [Next]_vars => LanesInv'
  BY LanesInvStep
<1>2. Init => LanesInv
  BY InitLanesInv
<1> QED BY <1>1, <1>2, PTL DEF Spec

\* An episode cancelled at the opening is never advanced, by any loop.
LEMMA CancelledLanes ==
  ASSUME LanesInv, world.condition = Cancelled, NEW arm \in Arms
  PROVE  LET l == lanes[arm]
         IN /\ OpeningOf(Cancelled, l.ep)
            /\ l.halted = FALSE
<1>1. world.latent \in LatentType
  BY DEF LanesInv, WorldType
<1>2. lanes[arm] = Lane(Opening(Cancelled, world.latent))
  BY DEF LanesInv
<1>3. OpeningOf(Cancelled, Opening(Cancelled, world.latent))
  BY <1>1, OpeningIsTyped
<1> QED BY <1>2, <1>3 DEF Lane

\* Every arm's lane is an episode state, and no arm sends more messages than
\* the world has draws for: at most the budget, the opening and the halt email.
THEOREM LanesAreTyped == Spec => []TypeOK
<1>1. LanesInv => TypeOK
  <2> SUFFICES ASSUME LanesInv PROVE TypeOK
    OBVIOUS
  <2>1. day \in 0..(WindowDays + 1)
    BY DEF LanesInv
  <2>2. ASSUME NEW arm \in Arms
        PROVE  /\ lanes[arm].ep \in EpisodeState
               /\ Len(Sent(arm)) <= MaxContacts + 2
    <3>1. MaxContacts \in Nat
      BY WorldAssumption
    <3>2. CASE world.condition = Cancelled
      <4>1. OpeningOf(Cancelled, lanes[arm].ep)
        BY <3>2, CancelledLanes
      <4> QED BY <3>1, <4>1 DEF OpeningOf, Sent
    <3>3. CASE world.condition # Cancelled
      <4>1. LaneInv(lanes[arm], day)
        BY <3>3 DEF LanesInv
      <4> DEFINE e == lanes[arm].ep
                 m == One(day > 0) + One(lanes[arm].halted)
      <4>2. /\ e \in EpisodeState
            /\ e.contacts <= MaxContacts
            /\ Len(e.history) = e.contacts + m
        BY <4>1 DEF LaneInv, Counted
      <4>3. m \in 0..2 /\ e.contacts \in Nat
        BY <4>2 DEF One, EpisodeState
      <4> HIDE DEF e, m
      <4>4. Len(e.history) <= MaxContacts + 2
        BY <3>1, <4>2, <4>3
      <4> QED BY <4>2, <4>4 DEF Sent, e
    <3> QED BY <3>2, <3>3
  <2> QED BY <2>1, <2>2 DEF TypeOK
<1> QED BY <1>1, LanesInvariant, PTL

\* The three columns of an episode's result can never contradict one another,
\* under any arm: a recovered invoice means an active subscription that never
\* halted, an active one without its invoice a card repaired after the halt,
\* and nothing is pending once the halt boundary has passed.
THEOREM ResultsCohere == Spec => []ResultsAreCoherent
<1>1. LanesInv => ResultsAreCoherent
  <2> SUFFICES ASSUME LanesInv, NEW arm \in Arms
               PROVE  LET lane == lanes[arm]
                      IN /\ lane.ep.invoice =>
                              lane.ep.sub = "active" /\ ~lane.halted
                         /\ lane.ep.sub = "active" /\ ~lane.ep.invoice =>
                              lane.halted /\ ~lane.ep.cardAtOpening /\ lane.ep.card
                         /\ day > HaltDay => lane.ep.sub # "pending"
    BY DEF ResultsAreCoherent
  <2>1. CASE world.condition = Cancelled
    <3>1. OpeningOf(Cancelled, lanes[arm].ep)
      BY <2>1, CancelledLanes
    <3> QED BY <3>1 DEF OpeningOf
  <2>2. CASE world.condition # Cancelled
    <3>1. /\ Settled(lanes[arm].ep, lanes[arm].halted)
          /\ day > HaltDay => lanes[arm].ep.sub # "pending"
      BY <2>2 DEF LanesInv, LaneInv
    <3> QED BY <3>1 DEF Settled
  <2> QED BY <2>1, <2>2
<1> QED BY <1>1, LanesInvariant, PTL

-----------------------------------------------------------------------------
(***************************************************************************)
(* The floor.                                                              *)
(***************************************************************************)
\* A retry that succeeds on one episode succeeds on every better one.
LEMMA RetryIsMonotone ==
  ASSUME NEW e \in EpisodeState, NEW f \in EpisodeState, NEW d \in Nat,
         Improves(f, e), RetrySucceeds(e, d)
  PROVE  RetrySucceeds(f, d)
<1>1. /\ d * TicksPerDay \in Nat
      /\ e.funds \in Nat /\ f.funds \in Nat /\ e.blocked \in Nat
  BY WorldAssumption DEF EpisodeState
<1> HIDE DEF EpisodeState
<1>2. f.funds <= d * TicksPerDay
  BY <1>1 DEF Improves, RetrySucceeds
<1> QED BY <1>1, <1>2 DEF Improves, RetrySucceeds

\* The day of the arm that sends nothing, until the halt.
LEMMA FloorDay ==
  ASSUME world \in WorldType, day \in Nat, NEW l, LaneInv(l, day)
  PROVE  LET opened == OpeningEmail(world, l.ep, day)
             n == LaneDay("A0", l)
         IN /\ opened \in EpisodeState
            /\ opened.invoice = l.ep.invoice
            /\ n.ep.invoice <=> \/ opened.invoice
                                \/ /\ day \in RetryDays /\ ~l.halted
                                   /\ RetrySucceeds(opened, day)
            /\ day < HaltDay => /\ n.ep.card = opened.card
                                /\ n.ep.funds = opened.funds
                                /\ n.ep.blocked = opened.blocked
                                /\ n.ep.mandate = opened.mandate
<1> DEFINE opened == OpeningEmail(world, l.ep, day)
           n == LaneDay("A0", l)
           r == AfterRetry(opened, day, l.halted)
<1>1. n = CloseDay(world, l, opened, day)
  BY DEF LaneDay, ScheduledArms, ScheduledDay, Scheduled, Contacted, NoContact
<1>2. /\ IsLane(l)
      /\ l.halted \in BOOLEAN
      /\ l.halted => day > HaltDay
      /\ Underway(opened, l.halted)
      /\ opened.invoice = l.ep.invoice
  BY OpeningKeepsLane DEF LaneInv
<1>3. n.ep.invoice <=> \/ opened.invoice
                       \/ /\ day \in RetryDays /\ ~l.halted
                          /\ RetrySucceeds(opened, day)
  <2> HIDE DEF opened
  <2> QED BY <1>1, <1>2, CloseKeepsLane
<1>4. ASSUME day < HaltDay
      PROVE  /\ n.ep.card = opened.card
             /\ n.ep.funds = opened.funds
             /\ n.ep.blocked = opened.blocked
             /\ n.ep.mandate = opened.mandate
  <2>1. day # HaltDay
    BY <1>4, WorldAssumption
  <2>2. n.ep = r
    BY <1>1, <1>2, <2>1 DEF CloseDay, HaltsNow, IsLane
  <2>3. r = opened \/ r = [opened EXCEPT !.invoice = TRUE, !.sub = "active"]
    BY DEF AfterRetry
  <2> HIDE DEF r, opened, n
  <2>4. opened \in EpisodeState
    BY <1>2 DEF Underway
  <2> QED BY <2>2, <2>3, <2>4 DEF EpisodeState
<1> QED BY <1>2, <1>3, <1>4 DEF Underway

LEMMA FloorStep == LanesInv /\ FloorInv /\ [Next]_vars => FloorInv'
<1>1. ASSUME LanesInv, FloorInv, Day PROVE FloorInv'
  <2>1. "A0" \in Arms
    BY DEF Arms, ScheduledArms
  <2>2. /\ world \in WorldType
        /\ world.condition # Cancelled
        /\ day \in Nat
        /\ HaltDay \in Nat
        /\ RetryDays \subseteq 0..HaltDay
    BY <1>1, <2>1, DayMovesEveryLane, WorldAssumption
  <2>3. ASSUME NEW arm \in Arms
        PROVE  Ahead(lanes'[arm], lanes'["A0"], day + 1)
    <3> DEFINE x  == lanes[arm]
               fl == lanes["A0"]
               n  == lanes'[arm]
               m  == lanes'["A0"]
               content == ContentOf(arm, x)
               xo == OpeningEmail(world, x.ep, day)
               c  == Contacted(world, xo, day, content)
               fo == OpeningEmail(world, fl.ep, day)
    <3>1. /\ LaneInv(x, day)
          /\ DayOutcome(x, n, content)
          /\ Ahead(x, fl, day)
      BY <1>1, <2>2, <2>3, DayMovesEveryLane DEF FloorInv
    <3>2. /\ fo \in EpisodeState
          /\ fo.invoice = fl.ep.invoice
          /\ m.ep.invoice <=> \/ fo.invoice
                              \/ /\ day \in RetryDays /\ ~fl.halted
                                 /\ RetrySucceeds(fo, day)
          /\ day < HaltDay => /\ m.ep.card = fo.card
                              /\ m.ep.funds = fo.funds
                              /\ m.ep.blocked = fo.blocked
                              /\ m.ep.mandate = fo.mandate
      <4>1. LaneInv(fl, day) /\ m = LaneDay("A0", fl)
        BY <1>1, <2>1, DayMovesEveryLane
      <4> QED BY <2>2, <4>1, FloorDay
    <3>3. xo \in EpisodeState /\ xo.invoice = x.ep.invoice
      BY <3>1 DEF DayOutcome, Underway
    <3>4. day <= HaltDay => Improves(xo, fo)
      <4>1. CASE day = 0
        <5>1. xo = fo
          BY <3>1, <4>1 DEF Ahead
        <5>2. fo.funds \in Nat
          BY <3>2 DEF EpisodeState
        <5> QED BY <5>1, <5>2 DEF Improves
      <4>2. CASE day # 0
        <5>1. xo = x.ep /\ fo = fl.ep
          BY <4>2 DEF OpeningEmail
        <5> QED BY <3>1, <5>1 DEF Ahead
      <4> QED BY <4>1, <4>2
    <3>5. /\ Improves(c, xo)
          /\ c \in EpisodeState
          /\ c.invoice = xo.invoice
          /\ LaneInv(n, day + 1)
          /\ Improves(n.ep, c)
          /\ n.ep.invoice <=> \/ c.invoice
                              \/ /\ day \in RetryDays /\ ~x.halted
                                 /\ RetrySucceeds(c, day)
      BY <3>1 DEF DayOutcome, Underway
    <3> HIDE DEF x, fl, n, m, xo, fo, c
    <3>6. Improves(n.ep, xo) /\ n.ep \in EpisodeState
      BY <3>3, <3>5, ImprovesIsTransitive DEF LaneInv
    <3>7. day + 1 <= HaltDay => Improves(n.ep, m.ep)
      <4> SUFFICES ASSUME day + 1 <= HaltDay PROVE Improves(n.ep, m.ep)
        OBVIOUS
      <4>1. day < HaltDay /\ day <= HaltDay
        BY <2>2
      <4>2. Improves(n.ep, fo)
        BY <3>2, <3>3, <3>4, <3>6, <4>1, ImprovesIsTransitive
      <4> QED BY <3>2, <4>1, <4>2 DEF Improves
    <3>8. m.ep.invoice => n.ep.invoice
      <4>1. CASE fo.invoice
        BY <3>1, <3>2, <3>3, <3>5, <4>1 DEF Ahead
      <4>2. CASE day \in RetryDays /\ ~fl.halted /\ RetrySucceeds(fo, day)
        <5>1. day <= HaltDay /\ ~(day > HaltDay)
          BY <2>2, <4>2
        <5>2. ~x.halted
          BY <3>1, <5>1 DEF LaneInv
        <5>3. Improves(c, fo)
          BY <3>2, <3>3, <3>4, <3>5, <5>1, ImprovesIsTransitive
        <5>4. RetrySucceeds(c, day)
          BY <2>2, <3>2, <3>5, <4>2, <5>3, RetryIsMonotone
        <5> QED BY <3>5, <4>2, <5>2, <5>4
      <4> QED BY <3>2, <4>1, <4>2
    <3>9. ~(day + 1 = 0)
      BY <2>2
    <3> QED BY <3>7, <3>8, <3>9 DEF Ahead, n, m
  <2>4. day' = day + 1
    BY <1>1 DEF Day
  <2>5. \A arm \in Arms : Ahead(lanes'[arm], lanes'["A0"], day')
    BY <2>3, <2>4
  <2> QED BY <2>5 DEF FloorInv, Ahead, Improves
<1>2. ASSUME FloorInv, UNCHANGED vars PROVE FloorInv'
  BY <1>2 DEF FloorInv, vars, Ahead, Improves
<1> QED BY <1>1, <1>2 DEF Next, Terminated

LEMMA FloorInvariant == Spec => []FloorInv
<1>1. Init => FloorInv
  <2> SUFFICES ASSUME Init, NEW arm \in Arms, world.condition # Cancelled
               PROVE  Ahead(lanes[arm], lanes["A0"], day)
    BY DEF FloorInv
  <2>1. "A0" \in Arms
    BY DEF Arms, ScheduledArms
  <2>2. lanes[arm] = lanes["A0"]
    BY <2>1 DEF Init
  <2>3. LaneInv(lanes[arm], day)
    BY InitLanesInv DEF LanesInv
  <2>4. lanes[arm].ep.funds \in Nat
    BY <2>3 DEF LaneInv, EpisodeState
  <2> QED BY <2>2, <2>4 DEF Ahead, Improves
<1> QED BY <1>1, FloorStep, LanesInvariant, PTL DEF Spec

\* A0 is the floor of the invoice metric episode by episode, for every budget,
\* schedule, window and world: no contact an arm sends ever costs an invoice.
THEOREM ArmsStandOnTheFloor == Spec => []NoArmBelowTheFloor
<1>1. LanesInv /\ FloorInv => NoArmBelowTheFloor
  <2> SUFFICES ASSUME LanesInv, FloorInv, Recovered("A0"), NEW arm \in Arms
               PROVE  Recovered(arm)
    BY DEF NoArmBelowTheFloor
  <2>1. "A0" \in Arms
    BY DEF Arms, ScheduledArms
  <2>2. CASE world.condition = Cancelled
    <3>1. OpeningOf(Cancelled, lanes["A0"].ep)
      BY <2>1, <2>2, CancelledLanes
    <3> QED BY <3>1 DEF OpeningOf, Recovered
  <2>3. CASE world.condition # Cancelled
    <3>1. Ahead(lanes[arm], lanes["A0"], day)
      BY <2>3 DEF FloorInv
    <3> QED BY <3>1 DEF Ahead, Recovered
  <2> QED BY <2>2, <2>3
<1> QED BY <1>1, FloorInvariant, LanesInvariant, PTL

-----------------------------------------------------------------------------
(***************************************************************************)
(* The strengthened schedule.                                              *)
(***************************************************************************)
\* Where the card is not broken, and on every day but the fifth, the two
\* schedules are one.
LEMMA SchedulesAgree ==
  ASSUME NEW c, NEW d, NEW state, c \notin CardBrokenKeys \/ d # 5
  PROVE  Scheduled("A2_STRENGTHENED", c, d, state)
           = Scheduled("A2_CORRECTED_V1", c, d, state)
<1>1. A2Strengthened(c, d, state) = A2Corrected(c, d, state)
  <2>1. CASE c \notin CardBrokenKeys
    BY <2>1 DEF A2Strengthened
  <2>2. CASE c \in CardBrokenKeys /\ d # 5
    <3>1. A2Corrected(c, d, state) = CardPromptOn({0, 3}, d)
      BY <2>2 DEF A2Corrected, CardBrokenKeys
    <3> QED BY <2>2, <3>1 DEF A2Strengthened, CardPromptOn
  <2> QED BY <2>1, <2>2
<1> QED BY <1>1 DEF Scheduled

\* The corrected schedule lets a lane be once the prompts of a broken card are
\* out and the halt is past.
LEMMA CorrectedRests ==
  ASSUME world \in WorldType, world.condition \in CardBrokenKeys, day \in Nat,
         day >= 5, day > HaltDay, NEW l, LaneInv(l, day)
  PROVE  LaneDay("A2_CORRECTED_V1", l).ep = l.ep
<1> DEFINE n == LaneDay("A2_CORRECTED_V1", l)
<1>1. day \notin {0, 3}
  OBVIOUS
<1>2. OpeningEmail(world, l.ep, day) = l.ep
  BY <1>1 DEF OpeningEmail
<1>3. Scheduled("A2_CORRECTED_V1", world.condition, day, l.ep.sub) = NoContact
  <2>1. A2Corrected(world.condition, day, l.ep.sub) = CardPromptOn({0, 3}, day)
    BY DEF A2Corrected, CardBrokenKeys
  <2> QED BY <1>1, <2>1 DEF Scheduled, CardPromptOn
<1>4. n = CloseDay(world, l, l.ep, day)
  BY <1>2, <1>3 DEF LaneDay, ScheduledArms, ScheduledDay, Contacted
<1>5. /\ IsLane(l)
      /\ l.halted \in BOOLEAN
      /\ l.halted => day > HaltDay
      /\ Underway(l.ep, l.halted)
  BY <1>2, OpeningKeepsLane DEF LaneInv
<1>6. n = [l EXCEPT !.ep = l.ep]
  BY <1>4, <1>5, CloseKeepsLane
<1> QED BY <1>5, <1>6 DEF IsLane

LEMMA StrengthStep ==
  ASSUME HaltDay < 5
  PROVE  LanesInv /\ StrengthInv /\ [Next]_vars => StrengthInv'
<1>1. ASSUME LanesInv, StrengthInv, Day PROVE StrengthInv'
  <2> DEFINE s == lanes["A2_STRENGTHENED"]
             p == lanes["A2_CORRECTED_V1"]
             t == lanes'["A2_STRENGTHENED"]
             q == lanes'["A2_CORRECTED_V1"]
  <2>1. {"A2_STRENGTHENED", "A2_CORRECTED_V1"} \subseteq Arms
    BY DEF Arms, ScheduledArms
  <2>2. /\ world \in WorldType /\ day \in Nat
        /\ LaneInv(s, day) /\ t = LaneDay("A2_STRENGTHENED", s)
        /\ LaneInv(p, day) /\ q = LaneDay("A2_CORRECTED_V1", p)
        /\ DayOutcome(s, t, ContentOf("A2_STRENGTHENED", s))
        /\ DayOutcome(p, q, ContentOf("A2_CORRECTED_V1", p))
    BY <1>1, <2>1, DayMovesEveryLane
  <2>3. AtLeastAsGood(s, p, day)
    BY <1>1 DEF StrengthInv
  <2>4. HaltDay \in Nat
    BY WorldAssumption
  <2> HIDE DEF s, p, t, q
  <2>5. AtLeastAsGood(t, q, day + 1)
    <3>1. CASE world.condition \notin CardBrokenKeys \/ day < 5
      <4>1. s = p
        BY <2>2, <2>3, <3>1 DEF AtLeastAsGood
      <4>2. \A state : Scheduled("A2_STRENGTHENED", world.condition, day, state)
                         = Scheduled("A2_CORRECTED_V1", world.condition, day, state)
        <5>1. world.condition \notin CardBrokenKeys \/ day # 5
          BY <2>2, <3>1
        <5> QED BY <5>1, SchedulesAgree
      <4>3. t = q
        BY <2>2, <4>1, <4>2 DEF LaneDay, ScheduledArms, ScheduledDay
      <4> QED BY <4>3 DEF AtLeastAsGood
    <3>2. CASE world.condition \in CardBrokenKeys /\ day >= 5
      <4>1. day > HaltDay /\ day \notin RetryDays /\ ~(day + 1 <= 5) /\ day # 0
        BY <2>2, <2>4, <3>2, WorldAssumption
      <4>2. OpeningEmail(world, s.ep, day) = s.ep
        BY <4>1 DEF OpeningEmail
      <4>3. OpeningEmail(world, p.ep, day) = p.ep
        BY <4>1 DEF OpeningEmail
      <4>4. /\ t.ep.invoice = s.ep.invoice
            /\ t.halted = s.halted
            /\ s.ep.sub = "active" => t.ep.sub = "active"
        BY <2>2, <4>1, <4>2 DEF DayOutcome
      <4>5. q.halted = p.halted
        BY <2>2, <4>1 DEF DayOutcome
      <4>6. q.ep = p.ep
        BY <2>2, <3>2, <4>1, CorrectedRests
      <4> QED BY <2>3, <3>2, <4>1, <4>4, <4>5, <4>6 DEF AtLeastAsGood
    <3> QED BY <2>2, <3>1, <3>2
  <2>6. day' = day + 1 /\ world' = world
    BY <1>1 DEF Day
  <2> QED BY <2>5, <2>6 DEF StrengthInv, AtLeastAsGood, t, q
<1>2. ASSUME StrengthInv, UNCHANGED vars PROVE StrengthInv'
  BY <1>2 DEF StrengthInv, vars, AtLeastAsGood
<1> QED BY <1>1, <1>2 DEF Next, Terminated

\* The third prompt of the strengthened schedule costs no invoice and no
\* subscription, for every budget, retry schedule and window in which that
\* prompt, on the fifth day, comes after the halt, as its docstring has it.
THEOREM StrengtheningCostsNothing ==
  ASSUME HaltDay < 5
  PROVE  Spec => []StrengtheningIsFree
<1>1. Init => StrengthInv
  <2> SUFFICES ASSUME Init PROVE StrengthInv
    OBVIOUS
  <2>1. lanes["A2_STRENGTHENED"] = lanes["A2_CORRECTED_V1"]
    BY DEF Init, Arms, ScheduledArms
  <2> QED BY <2>1 DEF StrengthInv, AtLeastAsGood
<1>2. StrengthInv => StrengtheningIsFree
  BY DEF StrengthInv, AtLeastAsGood, StrengtheningIsFree, Recovered, Rescued
<1> QED BY <1>1, <1>2, StrengthStep, LanesInvariant, PTL DEF Spec

-----------------------------------------------------------------------------
(***************************************************************************)
(* The rescue.  The first two draws of an episode are the ones the arm     *)
(* that sends nothing can be rescued by; every other arm puts them to the  *)
(* same use, the second in a card prompt if it comes before the halt.      *)
(***************************************************************************)
\* The draw repairs a broken card whatever the appeal of the message.
Repairs(k) == world.level[k] < 1 /\ world.completes[k]

CardLedger(e) ==
  /\ e.cardAtOpening = world.latent.card
  /\ ~world.latent.card =>
       \A k \in {0, 1} : k < Len(e.history) /\ Repairs(k) => e.card

Repairable(e) ==
  /\ CardLedger(e)
  /\ e.sub = "halted" => ~e.card \/ e.cardAtOpening

\* Nobody but the automatic emails has spoken to this customer.
LeftAlone(e) ==
  /\ e.contacts = 0
  /\ e.card /\ ~world.latent.card => Repairs(0) \/ Repairs(1)

\* A3-D opens with a card prompt where the card may be broken.
OpensWithCard(l, d) ==
  ~world.latent.card =>
    IF d = 0 THEN l.ep.sub = "pending" /\ ~l.stopped
    ELSE l.ep.contacts > 0 \/ MaxContacts = 0

RescueInv ==
  world.condition # Cancelled =>
    /\ world.latent \in LatentStates(world.condition)
    /\ \A arm \in Arms : Repairable(lanes[arm].ep)
    /\ LeftAlone(lanes["A0"].ep)
    /\ OpensWithCard(lanes["A3-D"], day)

LEMMA AgentSees ==
  ASSUME NEW l, NEW d
  PROVE  AgentView(l, d)
           = BuildView(world.condition, OpeningEmail(world, l.ep, d), d)
BY DEF AgentView, Runner!View, Runner!BuildView, BuildView

LEMMA GateIsTheRunners ==
  ASSUME NEW l, NEW e, NEW d, NEW p, NEW view
  PROVE  Runner(l, e, d)!Accepts(p, view) <=> Accepts(p, view)
<1>1. Runner(l, e, d)!Fired(p, view) = Fired(p, view)
  BY DEF Runner!Fired, Fired, Runner!Fires, Fires, Runner!Precedence,
         Precedence, Runner!BudgetSpent, BudgetSpent, Runner!DeclineCodes,
         DeclineCodes, Runner!CardBrokenKeys, CardBrokenKeys,
         Runner!ActionTypes, ActionTypes, Runner!SendHour, SendHour,
         Runner!QuietHours, QuietHours
<1> QED BY <1>1 DEF Runner!Accepts, Accepts

\* The runner sends what the policy proposes on a wake-up, nothing otherwise.
LEMMA RunnerSends ==
  ASSUME NEW l, NEW p,
         Accepts(p, AgentView(l, day)),
         p.action = "CONTACT" => p.remedy \in AgentRemedies
  PROVE  LET opened == OpeningEmail(world, l.ep, day)
         IN RunnerContent(p, l) =
              IF /\ Runner(l, opened, day)!TickType(opened) = "wakeup"
                 /\ p.action = "CONTACT"
              THEN p.remedy ELSE NoContact
<1> DEFINE opened == OpeningEmail(world, l.ep, day)
           view == AgentView(l, day)
           output == Runner(l, opened, day)!Output(p, "none")
           survivor == Runner(l, opened, day)!Survivor(output, view)
<1>1. Runner(l, opened, day)!Accepts(p, view)
  BY GateIsTheRunners
<1>2. survivor = p
  BY <1>1 DEF Runner!Survivor, Runner!Output
<1>3. Runner(l, opened, day)!Executed(p, view) = "CONTACT" <=> p.action = "CONTACT"
  BY <1>1 DEF Runner!Executed, Runner!AgentRemedies, AgentRemedies
<1> HIDE DEF survivor, view
<1>4. RunnerContent(p, l) =
        IF /\ Runner(l, opened, day)!TickType(opened) = "wakeup"
           /\ Runner(l, opened, day)!Executed(p, view) = "CONTACT"
        THEN p.remedy ELSE NoContact
  BY <1>2 DEF RunnerContent, survivor, view
<1> QED BY <1>3, <1>4

\* On the first day the runner always wakes the policy while budget is left.
LEMMA FirstDayWakes ==
  ASSUME NEW l, NEW e, ~l.stopped, e.sub = "pending",
         MaxContacts - e.contacts # 0, day = 0
  PROVE  Runner(l, e, day)!TickType(e) = "wakeup"
BY DEF Runner!TickType, Runner!EpisodeOver, Runner!TerminalStates,
       Runner!Budget, Runner!WakeupDays

\* What a lane driven by the table sends, at any threshold.
LEMMA TableSends ==
  ASSUME world \in WorldType, world.condition # Cancelled, NEW l, NEW w,
         NEW h \in BOOLEAN, Underway(OpeningEmail(world, l.ep, day), h)
  PROVE  LET opened == OpeningEmail(world, l.ep, day)
             view == AgentView(l, day)
             content == RunnerContent(Choice(view, w), l)
         IN opened.contacts < MaxContacts =>
              content = IF /\ Runner(l, opened, day)!TickType(opened) = "wakeup"
                           /\ Choice(view, w).action = "CONTACT"
                        THEN Choice(view, w).remedy ELSE NoContact
<1> DEFINE opened == OpeningEmail(world, l.ep, day)
           view == AgentView(l, day)
<1> SUFFICES ASSUME opened.contacts < MaxContacts
             PROVE  RunnerContent(Choice(view, w), l) =
                      IF /\ Runner(l, opened, day)!TickType(opened) = "wakeup"
                         /\ Choice(view, w).action = "CONTACT"
                      THEN Choice(view, w).remedy ELSE NoContact
  OBVIOUS
<1>1. view = BuildView(world.condition, opened, day)
  BY AgentSees
<1>2. /\ opened \in EpisodeState
      /\ opened.sub \in {"pending", "active", "halted"}
  BY DEF Underway, Settled
<1>3. opened.contacts \in Nat /\ MaxContacts \in Nat
  BY <1>2, WorldAssumption DEF EpisodeState
<1> HIDE DEF opened
<1>4. /\ view.decline = world.condition
      /\ view.state = opened.sub
      /\ view.budget = MaxContacts - opened.contacts
  BY <1>1 DEF BuildView
<1>5. /\ view.decline \in DeclineCodes
      /\ view.state \notin {"cancelled", "expired"}
      /\ view.budget \in Int /\ view.budget > 0
  BY <1>2, <1>3, <1>4 DEF WorldType, OpeningConditions
<1> HIDE DEF view
<1>6. Accepts(Choice(view, w), view)
  BY <1>5, ChoiceIsGateCompliant
<1>7. Choice(view, w).action = "CONTACT" => Choice(view, w).remedy \in AgentRemedies
  BY ChoiceIsTyped
<1> QED BY <1>6, <1>7, RunnerSends DEF view, opened

\* What A3-D's lane sends.
LEMMA AgentSends3D ==
  ASSUME world \in WorldType, world.condition # Cancelled, NEW l,
         NEW h \in BOOLEAN, Underway(OpeningEmail(world, l.ep, day), h)
  PROVE  LET opened == OpeningEmail(world, l.ep, day)
             view == AgentView(l, day)
             content == RunnerContent(A3D(view), l)
         IN opened.contacts < MaxContacts =>
              content = IF /\ Runner(l, opened, day)!TickType(opened) = "wakeup"
                           /\ A3D(view).action = "CONTACT"
                        THEN A3D(view).remedy ELSE NoContact
<1> DEFINE w == WithholdApplies(AgentView(l, day))
<1>1. A3D(AgentView(l, day)) = Choice(AgentView(l, day), w)
  BY A3DIsChoice
<1> HIDE DEF w
<1> QED BY <1>1, TableSends

LEMMA MessageCard ==
  ASSUME NEW e \in EpisodeState, NEW d \in Nat, NEW remedy, NEW draw \in Draws
  PROVE  SendMessage(e, d, remedy, draw).card
           <=> e.card \/ (draw.engaged /\ NamesCard(remedy) /\ draw.completes)
<1> DEFINE g == MessageEffect(e, d, remedy, draw)
           h == IF draw.engaged /\ NamesCard(remedy)
                THEN CardEffect(e, draw) ELSE e
           f == SendMessage(e, d, remedy, draw)
<1>1. draw.completes \in BOOLEAN /\ e.card \in BOOLEAN
  BY DrawsAreTyped DEF DrawsType, EpisodeState
<1>2. /\ h \in EpisodeState
      /\ h.card <=> e.card \/ (draw.engaged /\ NamesCard(remedy) /\ draw.completes)
  BY <1>1 DEF CardEffect, EpisodeState
<1>3. g \in EpisodeState /\ (g = h \/ g = DuesEffect(h, d, draw))
  BY EffectOnlyHelps DEF MessageEffect
<1> HIDE DEF h
<1>4. DuesEffect(h, d, draw).card = h.card
  BY <1>2 DEF DuesEffect, EpisodeState
<1>5. g.card = h.card
  BY <1>3, <1>4
<1> HIDE DEF g
<1>6. f.card = g.card
  BY <1>3 DEF SendMessage, EpisodeState, g
<1> QED BY <1>2, <1>5, <1>6

LEMMA MessageKeepsRepairable ==
  ASSUME world \in WorldType, NEW e \in EpisodeState, NEW f, NEW n, NEW remedy,
         MessageOutcome(e, f, n), e.contacts <= MaxContacts,
         Len(e.history) <= MaxContacts + 1, CardLedger(e),
         f.card <=> \/ e.card
                    \/ /\ DrawFor(world, e, remedy).engaged /\ NamesCard(remedy)
                       /\ DrawFor(world, e, remedy).completes,
         \/ NamesCard(remedy)
         \/ Len(e.history) > 1
         \/ world.latent.card
  PROVE  Repairable(f)
<1>1. f.cardAtOpening = world.latent.card
  BY DEF MessageOutcome, CardLedger
<1>2. f.sub = "halted" => ~f.card \/ f.cardAtOpening
  BY DEF MessageOutcome
<1>3. ASSUME ~world.latent.card, NEW k \in {0, 1}, k < Len(f.history), Repairs(k)
      PROVE  f.card
  <2>1. /\ Len(e.history) \in Nat
        /\ Len(f.history) = Len(e.history) + 1
        /\ e.contacts \in Nat /\ MaxContacts \in Nat
    BY LenProperties, WorldAssumption DEF EpisodeState, MessageOutcome
  <2>2. CASE k < Len(e.history)
    BY <1>3, <2>2 DEF CardLedger, MessageOutcome, Improves
  <2>3. CASE ~(k < Len(e.history))
    <3>1. k = Len(e.history) /\ k \in MessageIndexes
      BY <1>3, <2>1, <2>3 DEF MessageIndexes
    <3>2. NamesCard(remedy)
      <4>1. ~(k > 1)
        <5>1. k = 0 \/ k = 1
          BY <1>3
        <5> QED BY <5>1
      <4>2. ~(Len(e.history) > 1)
        BY <3>1, <4>1
      <4> QED BY <1>3, <4>2
    <3>3. Appeal(remedy, e) \in Nat /\ Appeal(remedy, e) >= 1
      BY <2>1 DEF Appeal
    <3>4. world.level[k] \in Nat /\ world.level[k] < 1 /\ world.completes[k]
      BY <1>3, <3>1 DEF Repairs, WorldType
    <3>5. world.level[k] < Appeal(remedy, e)
      BY <3>3, <3>4
    <3>6. /\ DrawFor(world, e, remedy).engaged
          /\ DrawFor(world, e, remedy).completes
      BY <3>1, <3>4, <3>5 DEF DrawFor
    <3> QED BY <3>2, <3>6
  <2> QED BY <2>2, <2>3
<1> QED BY <1>1, <1>2, <1>3 DEF Repairable, CardLedger

LEMMA EmailKeepsRepairable ==
  ASSUME world \in WorldType, NEW e \in EpisodeState, NEW d \in Nat,
         NEW m \in {0, 1}, Counted(e, m), CardLedger(e)
  PROVE  Repairable(SendMessage(e, d, AutoEmail, DrawFor(world, e, AutoEmail)))
<1> DEFINE draw == DrawFor(world, e, AutoEmail)
           f == SendMessage(e, d, AutoEmail, draw)
<1>1. /\ Len(e.history) <= MaxContacts + 1
      /\ e.topups <= Len(e.history)
      /\ e.contacts <= MaxContacts
  BY WorldAssumption DEF Counted, EpisodeState
<1>2. draw \in Draws
  BY <1>1, DrawIsTyped
<1>3. MessageOutcome(e, f, 0)
  BY <1>2, EmailOutcome
<1>4. f.card <=> e.card \/ (draw.engaged /\ NamesCard(AutoEmail) /\ draw.completes)
  BY <1>2, MessageCard
<1>5. NamesCard(AutoEmail)
  BY DEF NamesCard
<1> HIDE DEF f
<1> QED BY <1>1, <1>3, <1>4, <1>5, MessageKeepsRepairable DEF f

\* The email leaves a lane nobody contacted so, if it is one of the first two.
LEMMA EmailLeavesAlone ==
  ASSUME world \in WorldType, NEW e \in EpisodeState, NEW d \in Nat,
         NEW m \in {0, 1}, Counted(e, m), LeftAlone(e)
  PROVE  LeftAlone(SendMessage(e, d, AutoEmail, DrawFor(world, e, AutoEmail)))
<1> DEFINE draw == DrawFor(world, e, AutoEmail)
           f == SendMessage(e, d, AutoEmail, draw)
<1>1. /\ Len(e.history) <= MaxContacts + 1
      /\ e.topups <= Len(e.history)
  BY WorldAssumption DEF Counted, EpisodeState
<1>2. draw \in Draws
  BY <1>1, DrawIsTyped
<1>3. MessageOutcome(e, f, 0)
  BY <1>2, EmailOutcome
<1>4. f.card <=> e.card \/ (draw.engaged /\ NamesCard(AutoEmail) /\ draw.completes)
  BY <1>2, MessageCard
<1>5. Len(e.history) \in {0, 1}
  BY DEF Counted, LeftAlone
<1>6. draw.engaged /\ draw.completes => Repairs(Len(e.history))
  BY DEF DrawFor, Appeal, IsAgentContact, Repairs
<1>7. f.contacts = 0
  BY <1>3 DEF MessageOutcome, LeftAlone
<1> HIDE DEF f, draw
<1>8. f.card /\ ~world.latent.card => Repairs(0) \/ Repairs(1)
  BY <1>4, <1>5, <1>6 DEF LeftAlone
<1> QED BY <1>7, <1>8 DEF LeftAlone, f, draw

LEMMA CloseKeepsRepairable ==
  ASSUME world \in WorldType, day \in Nat, NEW k, IsLane(k),
         k.halted \in BOOLEAN, NEW c, Underway(c, k.halted)
  PROVE  LET n == CloseDay(world, k, c, day)
         IN /\ Repairable(c) => Repairable(n.ep)
            /\ LeftAlone(c) => LeftAlone(n.ep)
            /\ n.ep.contacts = c.contacts
<1> DEFINE h == k.halted
           r == AfterRetry(c, day, h)
           g == [r EXCEPT !.sub = "halted"]
           halts == HaltsNow(r, day, h)
           f == AfterHalt(r, day, DrawFor(world, r, AutoEmail))
           n == CloseDay(world, k, c, day)
<1>1. /\ Underway(r, h)
      /\ r = c \/ r = [c EXCEPT !.invoice = TRUE, !.sub = "active"]
      /\ c \in EpisodeState
  BY RetryKeepsLane DEF AfterRetry, Underway
<1>2. n.ep = IF halts THEN f ELSE r
  BY DEF CloseDay, IsLane
<1>3. DrawFor(world, r, AutoEmail) = DrawFor(world, g, AutoEmail)
  BY DEF DrawFor, Appeal, IsAgentContact
<1>4. f = SendMessage(g, day, AutoEmail, DrawFor(world, g, AutoEmail))
  BY <1>3 DEF AfterHalt
<1> HIDE DEF r
<1>5. /\ r \in EpisodeState
      /\ r.card = c.card /\ r.cardAtOpening = c.cardAtOpening
      /\ r.history = c.history /\ r.contacts = c.contacts
      /\ r.sub = c.sub \/ r.sub = "active"
  BY <1>1 DEF Underway, EpisodeState
<1>6. /\ Repairable(c) => Repairable(r)
      /\ LeftAlone(c) => LeftAlone(r)
  BY <1>5 DEF Repairable, CardLedger, LeftAlone
<1>7. CASE ~halts
  BY <1>2, <1>5, <1>6, <1>7
<1>8. CASE halts
  <2>1. /\ g \in EpisodeState
        /\ g.card = r.card /\ g.cardAtOpening = r.cardAtOpening
        /\ g.history = r.history /\ g.contacts = r.contacts
        /\ g.topups = r.topups
        /\ g.invoice = r.invoice
        /\ g.sub = "halted"
    BY <1>5 DEF EpisodeState, SubscriptionStates
  <2>2. Counted(g, 1)
    <3>1. h = FALSE
      BY <1>8 DEF HaltsNow
    <3>2. Counted(r, 1)
      BY <1>1, <3>1 DEF Underway, One
    <3> QED BY <2>1, <3>2 DEF Counted
  <2>3. ~r.invoice /\ ~h
    BY <1>8 DEF HaltsNow
  <2>4. r.sub = "pending"
    BY <1>1, <2>3 DEF Underway, Settled
  <2> HIDE DEF g, f, n, halts, h
  <2>5. LeftAlone(c) => LeftAlone(f)
    <3>1. LeftAlone(c) => LeftAlone(g)
      BY <1>6, <2>1 DEF LeftAlone
    <3> QED BY <1>4, <2>1, <2>2, <3>1, EmailLeavesAlone
  <2>6. f.contacts = g.contacts
    <3>1. /\ Len(g.history) <= MaxContacts + 1
          /\ g.topups <= Len(g.history)
      BY <2>1, <2>2, WorldAssumption DEF Counted, EpisodeState
    <3>2. DrawFor(world, g, AutoEmail) \in Draws
      BY <2>1, <3>1, DrawIsTyped
    <3>3. MessageOutcome(g, f, 0)
      BY <1>4, <2>1, <3>2, EmailOutcome
    <3> QED BY <2>1, <3>3 DEF MessageOutcome, EpisodeState
  <2>7. Repairable(c) => Repairable(f)
    <3>1. Repairable(c) => CardLedger(g)
      BY <1>6, <2>1 DEF Repairable, CardLedger
    <3> QED BY <1>4, <2>1, <2>2, <3>1, EmailKeepsRepairable
  <2> QED BY <1>2, <1>5, <1>8, <2>1, <2>5, <2>6, <2>7 DEF n
<1> QED BY <1>7, <1>8

\* Where the card is broken at the opening, no arm's first prompt is anything
\* but a card prompt.
LEMMA BrokenConditions ==
  ASSUME NEW c \in OpeningConditions, NEW latent \in LatentStates(c), ~latent.card
  PROVE  c \in CardBrokenKeys \cup {"ambiguous_decline"}
BY DEF LatentStates, Latent, OpeningConditions, DeclineCodes, CardBrokenKeys,
       Cancelled

LEMMA ScheduledCardPrompts ==
  ASSUME NEW arm \in ScheduledArms, NEW c \in CardBrokenKeys \cup {"ambiguous_decline"},
         NEW d, NEW state
  PROVE  Scheduled(arm, c, d, state) \in {"card_change", NoContact}
<1>1. A1(c, d, state) \in {"card_change", NoContact}
  BY DEF A1
<1>2. A2(c, d, state) \in {"card_change", NoContact}
  BY DEF A2, CardPromptOn, CardBrokenKeys
<1>3. A2Corrected(c, d, state) \in {"card_change", NoContact}
  BY <1>2 DEF A2Corrected, CardPromptOn, CardBrokenKeys
<1>4. A2Strengthened(c, d, state) \in {"card_change", NoContact}
  BY <1>3 DEF A2Strengthened, CardPromptOn
<1> QED BY <1>1, <1>2, <1>3, <1>4 DEF Scheduled, ScheduledArms

LEMMA FirstPromptNamesCard ==
  ASSUME world \in WorldType, world.condition # Cancelled, day \in Nat,
         world.latent \in LatentStates(world.condition), ~world.latent.card,
         NEW arm \in Arms, NEW l, LaneInv(l, day),
         arm = "A3-D" => OpensWithCard(l, day),
         Prompts(OpeningEmail(world, l.ep, day), ContentOf(arm, l)),
         ContentOf(arm, l) # NoContact
  PROVE  \/ ContentOf(arm, l) = "card_change"
         \/ Len(OpeningEmail(world, l.ep, day).history) > 1
<1> DEFINE opened  == OpeningEmail(world, l.ep, day)
           content == ContentOf(arm, l)
<1>1. world.condition \in CardBrokenKeys \cup {"ambiguous_decline"}
  BY BrokenConditions DEF WorldType
<1>2. CASE arm \in ScheduledArms
  <2>1. content = IF opened.contacts < MaxContacts
                  THEN Scheduled(arm, world.condition, day, opened.sub)
                  ELSE NoContact
    BY <1>2 DEF ContentOf, ScheduledArms
  <2> HIDE DEF opened
  <2> QED BY <1>1, <1>2, <2>1, ScheduledCardPrompts
<1>3. CASE arm = "A4"
  <2> DEFINE lever == A4Content(world.condition, world.latent)
  <2>1. content = IF A4Sends(lever, opened, day) THEN lever ELSE NoContact
    BY <1>3 DEF ContentOf, ScheduledArms
  <2>2. lever = "card_change"
    BY DEF A4Content
  <2> QED BY <2>1, <2>2
<1>4. CASE arm = "A3-D"
  <2> DEFINE view == AgentView(l, day)
  <2>1. content = RunnerContent(A3D(view), l)
    BY <1>4 DEF ContentOf, ScheduledArms
  <2>2. content \in AgentRemedies /\ opened.contacts < MaxContacts
    BY DEF Prompts
  <2>3. Underway(opened, l.halted) /\ l.halted \in BOOLEAN
    BY OpeningKeepsLane DEF LaneInv
  <2>4. A3D(view).action = "CONTACT" /\ content = A3D(view).remedy
    BY <2>1, <2>2, <2>3, AgentSends3D
  <2>5. view = BuildView(world.condition, opened, day)
    BY AgentSees
  <2>6. view.day = day /\ view.decline = world.condition
    BY <2>5 DEF BuildView
  <2> HIDE DEF view, content
  <2>7. CASE content = "topup_reminder"
    <3>1. day = 2
      BY <1>1, <2>4, <2>6, <2>7, ChoiceReminds, A3DIsChoice DEF CardBrokenKeys
    <3>2. opened = l.ep
      BY <3>1 DEF OpeningEmail
    <3>3. opened.contacts > 0
      <4>1. opened.contacts \in Nat /\ MaxContacts \in Nat
        BY <2>3, WorldAssumption DEF Underway, EpisodeState
      <4>2. MaxContacts # 0
        BY <2>2, <4>1
      <4> QED BY <1>4, <3>1, <3>2, <4>2 DEF OpensWithCard
    <3>4. /\ Counted(opened, 1 + One(l.halted))
          /\ One(l.halted) \in {0, 1}
          /\ opened.contacts \in Nat
      BY <2>3 DEF Underway, One, EpisodeState
    <3> HIDE DEF opened
    <3>5. Len(opened.history) > 1
      BY <3>3, <3>4 DEF Counted
    <3> QED BY <3>5 DEF opened
  <2>8. CASE content = "card_change"
    BY <2>8 DEF content
  <2> QED BY <2>2, <2>7, <2>8 DEF AgentRemedies
<1> QED BY <1>2, <1>3, <1>4 DEF Arms

\* What a day keeps of the first draws of any arm.
LEMMA DayKeepsRepairable ==
  ASSUME world \in WorldType, world.condition # Cancelled, day \in Nat,
         world.latent \in LatentStates(world.condition),
         NEW arm \in Arms, NEW l, LaneInv(l, day), Repairable(l.ep),
         arm = "A3-D" => OpensWithCard(l, day)
  PROVE  LET opened == OpeningEmail(world, l.ep, day)
             c == Contacted(world, opened, day, ContentOf(arm, l))
             n == LaneDay(arm, l)
         IN /\ Repairable(n.ep)
            /\ LeftAlone(c) => LeftAlone(n.ep)
            /\ n.ep.contacts = c.contacts
<1> DEFINE opened  == OpeningEmail(world, l.ep, day)
           content == ContentOf(arm, l)
           c == Contacted(world, opened, day, content)
           n == LaneDay(arm, l)
           draw == DrawFor(world, opened, content)
<1>1. /\ IsLane(l)
      /\ l.ep \in EpisodeState
      /\ l.halted \in BOOLEAN
      /\ Underway(opened, l.halted)
      /\ opened.contacts \in 0..MaxContacts
  BY OpeningKeepsLane DEF LaneInv
<1>2. OneDay(l, n, content)
  BY <1>1, LaneDayParts
<1>3. Prompts(opened, content)
  BY <1>2 DEF OneDay
<1>4. PICK k : /\ IsLane(k)
               /\ k.halted = l.halted
               /\ n = CloseDay(world, k, c, day)
  BY <1>2 DEF OneDay
<1>5. Repairable(opened)
  <2>1. CASE day = 0
    <3>1. Counted(l.ep, 0)
      <4>1. l.halted = FALSE
        BY <1>1, <2>1, WorldAssumption DEF LaneInv
      <4>2. Counted(l.ep, One(day > 0) + One(l.halted))
        BY DEF LaneInv
      <4>3. One(day > 0) + One(l.halted) = 0
        BY <2>1, <4>1 DEF One
      <4> QED BY <4>2, <4>3
    <3>2. opened = SendMessage(l.ep, day, AutoEmail, DrawFor(world, l.ep, AutoEmail))
      BY <2>1 DEF OpeningEmail
    <3> HIDE DEF opened
    <3> QED BY <1>1, <3>1, <3>2, EmailKeepsRepairable DEF Repairable
  <2>2. CASE day # 0
    BY <2>2 DEF OpeningEmail
  <2> QED BY <2>1, <2>2
<1>6. Underway(c, l.halted)
  <2> HIDE DEF opened, content
  <2> QED BY <1>1, <1>3, PromptKeepsLane
<1>7. Repairable(c)
  <2>1. CASE content = NoContact
    <3>1. c = opened
      BY <2>1 DEF Contacted
    <3> QED BY <1>5, <3>1
  <2>2. CASE content # NoContact
    <3>1. content \in AgentRemedies /\ opened.contacts < MaxContacts
      BY <1>3, <2>2 DEF Prompts
    <3>2. \/ content = "card_change"
          \/ Len(opened.history) > 1
          \/ world.latent.card
      BY <1>3, <2>2, FirstPromptNamesCard
    <3>3. c = SendContact(world.condition, opened, day, content, draw)
      BY <2>2 DEF Contacted
    <3> HIDE DEF opened, content
    <3>4. /\ opened \in EpisodeState
          /\ opened.contacts <= MaxContacts
          /\ Len(opened.history) <= MaxContacts + 1
          /\ opened.topups <= Len(opened.history)
      <4>1. /\ opened \in EpisodeState
            /\ Counted(opened, 1 + One(l.halted))
            /\ One(l.halted) \in {0, 1}
        BY <1>1 DEF Underway, One
      <4>2. opened.contacts \in Nat /\ MaxContacts \in Nat
        BY <4>1, WorldAssumption DEF EpisodeState
      <4> QED BY <3>1, <4>1, <4>2 DEF Counted
    <3>5. draw \in Draws
      BY <3>4, DrawIsTyped
    <3>6. MessageOutcome(opened, c, 1)
      BY <3>1, <3>3, <3>4, <3>5, PromptOutcome
    <3>7. c.card <=> opened.card \/ (draw.engaged /\ NamesCard(content) /\ draw.completes)
      <4> DEFINE g == SendMessage(opened, day, content, draw)
      <4>1. c.card = g.card
        <5>1. g \in EpisodeState
          BY <3>1, <3>4, <3>5, MessageChanges DEF Remedies
        <5> HIDE DEF g, c
        <5> QED BY <3>3, <5>1 DEF SendContact, EpisodeState, g
      <4>2. g.card <=> opened.card \/ (draw.engaged /\ NamesCard(content) /\ draw.completes)
        BY <3>4, <3>5, MessageCard
      <4> QED BY <4>1, <4>2
    <3> HIDE DEF c
    <3>8. NamesCard(content) \/ Len(opened.history) > 1 \/ world.latent.card
      BY <3>2 DEF NamesCard
    <3> QED BY <1>5, <3>4, <3>6, <3>7, <3>8, MessageKeepsRepairable DEF Repairable
  <2> QED BY <2>1, <2>2
<1> HIDE DEF c
<1>8. /\ Repairable(c) => Repairable(n.ep)
      /\ LeftAlone(c) => LeftAlone(n.ep)
      /\ n.ep.contacts = c.contacts
  <2>1. k.halted \in BOOLEAN /\ Underway(c, k.halted)
    BY <1>1, <1>4, <1>6
  <2> QED BY <1>4, <2>1, CloseKeepsRepairable
<1> QED BY <1>7, <1>8 DEF c

LEMMA NothingCountedYet ==
  ASSUME NEW l, LaneInv(l, 0)
  PROVE  Counted(l.ep, 0) /\ l.halted = FALSE
<1>1. l.halted = FALSE
  BY WorldAssumption DEF LaneInv
<1>2. Counted(l.ep, One(0 > 0) + One(l.halted))
  BY DEF LaneInv
<1>3. One(0 > 0) + One(l.halted) = 0
  BY <1>1 DEF One
<1> QED BY <1>1, <1>2, <1>3

LEMMA FloorStaysAlone ==
  ASSUME world \in WorldType, day \in Nat, NEW l, LaneInv(l, day), LeftAlone(l.ep)
  PROVE  LET opened == OpeningEmail(world, l.ep, day)
         IN LeftAlone(Contacted(world, opened, day, ContentOf("A0", l)))
<1> DEFINE opened == OpeningEmail(world, l.ep, day)
<1>1. ContentOf("A0", l) = NoContact
  BY DEF ContentOf, ScheduledArms, Scheduled
<1>2. Contacted(world, opened, day, ContentOf("A0", l)) = opened
  BY <1>1 DEF Contacted
<1>3. LeftAlone(opened)
  <2>1. CASE day = 0
    <3>1. Counted(l.ep, 0) /\ l.ep \in EpisodeState
      BY <2>1, NothingCountedYet DEF LaneInv
    <3>2. opened = SendMessage(l.ep, day, AutoEmail, DrawFor(world, l.ep, AutoEmail))
      BY <2>1 DEF OpeningEmail
    <3> HIDE DEF opened
    <3> QED BY <3>1, <3>2, EmailLeavesAlone
  <2>2. CASE day # 0
    BY <2>2 DEF OpeningEmail
  <2> QED BY <2>1, <2>2
<1> QED BY <1>2, <1>3

LEMMA AgentOpensWithCard ==
  ASSUME world \in WorldType, world.condition # Cancelled, day \in Nat,
         world.latent \in LatentStates(world.condition),
         NEW l, LaneInv(l, day), OpensWithCard(l, day), NEW n,
         DayOutcome(l, n, ContentOf("A3-D", l)),
         n.ep.contacts = Contacted(world, OpeningEmail(world, l.ep, day), day,
                                   ContentOf("A3-D", l)).contacts
  PROVE  OpensWithCard(n, day + 1)
<1> DEFINE opened  == OpeningEmail(world, l.ep, day)
           content == ContentOf("A3-D", l)
           view    == AgentView(l, day)
<1> SUFFICES ASSUME ~world.latent.card, MaxContacts # 0
             PROVE  n.ep.contacts > 0
  BY DEF OpensWithCard
<1>1. /\ Underway(opened, l.halted)
      /\ l.halted \in BOOLEAN
      /\ opened.invoice = l.ep.invoice
      /\ n.ep.contacts = IF content = NoContact THEN opened.contacts
                         ELSE opened.contacts + 1
  BY DEF DayOutcome, LaneInv
<1>2. opened.contacts \in Nat /\ MaxContacts \in Nat
  BY <1>1, WorldAssumption DEF Underway, EpisodeState
<1>3. CASE day # 0
  <2>1. opened = l.ep
    BY <1>3 DEF OpeningEmail
  <2>2. l.ep.contacts > 0
    BY <1>3 DEF OpensWithCard
  <2> HIDE DEF opened, content
  <2> QED BY <1>1, <1>2, <2>1, <2>2
<1>4. CASE day = 0
  <2>1. l.ep.sub = "pending" /\ ~l.stopped /\ l.halted = FALSE
    BY <1>4, NothingCountedYet DEF OpensWithCard
  <2>2. opened.sub = "pending"
    <3>1. ~l.ep.invoice
      BY <2>1 DEF LaneInv, Settled
    <3> HIDE DEF opened
    <3> QED BY <1>1, <2>1, <3>1 DEF Underway, Settled
  <2> SUFFICES ASSUME opened.contacts = 0 PROVE n.ep.contacts > 0
    <3> HIDE DEF opened, content
    <3> QED BY <1>1, <1>2
  <2>3. content = RunnerContent(A3D(view), l)
    BY DEF ContentOf, ScheduledArms
  <2>4. Runner(l, opened, day)!TickType(opened) = "wakeup"
    <3> HIDE DEF opened
    <3> QED BY <1>2, <1>4, <2>1, <2>2, FirstDayWakes
  <2>5. view = BuildView(world.condition, opened, day)
    BY AgentSees
  <2>6. /\ view.day = 0
        /\ view.state = "pending"
        /\ view.decline = world.condition
    BY <1>4, <2>2, <2>5 DEF BuildView
  <2>7. world.condition \in CardBrokenKeys \cup {"ambiguous_decline"}
    BY BrokenConditions DEF WorldType
  <2>8. A3D(view).action = "CONTACT" /\ A3D(view).remedy = "card_change"
    <3> HIDE DEF view
    <3> QED BY <2>6, <2>7, ChoiceOpens, A3DIsChoice
  <2>9. opened.contacts < MaxContacts
    BY <1>2
  <2>10. content = "card_change"
    BY <1>1, <2>3, <2>4, <2>8, <2>9, AgentSends3D
  <2> HIDE DEF opened, content
  <2> QED BY <1>1, <1>2, <2>10 DEF NoContact
<1> QED BY <1>3, <1>4

LEMMA RescueStep == LanesInv /\ RescueInv /\ [Next]_vars => RescueInv'
<1>1. ASSUME LanesInv, RescueInv, Day PROVE RescueInv'
  <2>1. "A0" \in Arms /\ "A3-D" \in Arms
    BY DEF Arms, ScheduledArms
  <2>2. /\ world \in WorldType
        /\ world.condition # Cancelled
        /\ day \in Nat
        /\ world' = world
        /\ day' = day + 1
    BY <1>1, <2>1, DayMovesEveryLane DEF Day
  <2>3. /\ world.latent \in LatentStates(world.condition)
        /\ \A arm \in Arms : Repairable(lanes[arm].ep)
        /\ LeftAlone(lanes["A0"].ep)
        /\ OpensWithCard(lanes["A3-D"], day)
    BY <1>1, <2>2 DEF RescueInv
  <2>4. ASSUME NEW arm \in Arms
        PROVE  /\ LaneInv(lanes[arm], day)
               /\ lanes'[arm] = LaneDay(arm, lanes[arm])
               /\ DayOutcome(lanes[arm], lanes'[arm], ContentOf(arm, lanes[arm]))
    BY <1>1, <2>4, DayMovesEveryLane
  <2>5. ASSUME NEW arm \in Arms
        PROVE  LET c == Contacted(world, OpeningEmail(world, lanes[arm].ep, day),
                                  day, ContentOf(arm, lanes[arm]))
               IN /\ Repairable(lanes'[arm].ep)
                  /\ LeftAlone(c) => LeftAlone(lanes'[arm].ep)
                  /\ lanes'[arm].ep.contacts = c.contacts
    BY <2>2, <2>3, <2>4, <2>5, DayKeepsRepairable
  <2>6. LeftAlone(lanes'["A0"].ep)
    <3>1. LaneInv(lanes["A0"], day)
      BY <2>1, <2>4
    <3>2. LeftAlone(Contacted(world, OpeningEmail(world, lanes["A0"].ep, day),
                              day, ContentOf("A0", lanes["A0"])))
      BY <2>2, <2>3, <3>1, FloorStaysAlone
    <3> QED BY <2>1, <2>5, <3>2
  <2>7. OpensWithCard(lanes'["A3-D"], day + 1)
    BY <2>1, <2>2, <2>3, <2>4, <2>5, AgentOpensWithCard
  <2> QED BY <2>2, <2>3, <2>5, <2>6, <2>7
          DEF RescueInv, Repairable, CardLedger, Repairs, LeftAlone, OpensWithCard
<1>2. ASSUME RescueInv, UNCHANGED vars PROVE RescueInv'
  BY <1>2 DEF RescueInv, vars, Repairable, CardLedger, Repairs, LeftAlone,
              OpensWithCard
<1> QED BY <1>1, <1>2 DEF Next, Terminated

LEMMA InitRescueInv == Init => RescueInv
<1> SUFFICES ASSUME Init, world.condition # Cancelled PROVE RescueInv
  BY DEF RescueInv
<1> DEFINE e == Opening(world.condition, world.latent)
<1>1. world.latent \in LatentStates(world.condition)
  <2>1. PICK c \in Conditions : \E latent \in LatentStates(c) :
          world \in [condition : {c}, latent : {latent},
                     level : LevelDraws(latent), completes : Completions(latent),
                     topup : TopUps(latent)]
    BY DEF Init, Worlds
  <2> QED BY <2>1
<1>2. world.latent \in LatentType
  BY InitLanesInv DEF LanesInv, WorldType
<1>3. OpeningOf(world.condition, e) /\ e.card = world.latent.card
      /\ e.cardAtOpening = world.latent.card
  BY <1>2, OpeningIsTyped DEF Opening
<1>4. ASSUME NEW arm \in Arms PROVE lanes[arm] = Lane(e)
  BY DEF Init
<1>5. "A0" \in Arms /\ "A3-D" \in Arms
  BY DEF Arms, ScheduledArms
<1>6. day = 0
  BY DEF Init
<1> HIDE DEF e
<1>7. Lane(e).ep = e /\ Lane(e).stopped = FALSE
  BY DEF Lane
<1>8. Repairable(e)
  BY <1>3 DEF Repairable, CardLedger, OpeningOf
<1>9. LeftAlone(e)
  BY <1>3 DEF LeftAlone, OpeningOf
<1>10. OpensWithCard(Lane(e), 0)
  BY <1>3, <1>7 DEF OpensWithCard, OpeningOf
<1> QED BY <1>1, <1>4, <1>5, <1>6, <1>7, <1>8, <1>9, <1>10 DEF RescueInv

\* A0 is the floor of the rescue metric too, episode by episode, for every
\* budget, schedule, window and world: a subscription the automatic emails alone
\* bring back is active under every arm once the halt boundary has passed.
THEOREM NoRescueIsLost == Spec => []NoArmLosesARescue
<1>1. LanesInv /\ FloorInv /\ RescueInv => NoArmLosesARescue
  <2> SUFFICES ASSUME LanesInv, FloorInv, RescueInv, day > HaltDay,
                      Rescued("A0"), NEW arm \in Arms
               PROVE  Rescued(arm)
    BY DEF NoArmLosesARescue
  <2> DEFINE e == lanes[arm].ep
             f == lanes["A0"].ep
  <2>1. "A0" \in Arms
    BY DEF Arms, ScheduledArms
  <2>2. CASE world.condition = Cancelled
    <3>1. OpeningOf(Cancelled, f)
      BY <2>1, <2>2, CancelledLanes
    <3> QED BY <3>1 DEF OpeningOf, Rescued
  <2>3. CASE world.condition # Cancelled
    <3>1. /\ LaneInv(lanes[arm], day)
          /\ LaneInv(lanes["A0"], day)
      BY <2>1, <2>3 DEF LanesInv
    <3>2. /\ Repairable(e)
          /\ Repairable(f)
          /\ LeftAlone(f)
      BY <2>1, <2>3 DEF RescueInv
    <3>3. f.invoice => e.invoice
      BY <2>3 DEF FloorInv, Ahead
    <3>4. CASE e.invoice
      BY <3>1, <3>4 DEF LaneInv, Settled, Rescued
    <3>5. CASE ~e.invoice
      <4>1. f.card /\ ~f.cardAtOpening
        BY <3>1, <3>3, <3>5 DEF LaneInv, Settled, Rescued
      <4>2. ~world.latent.card /\ (Repairs(0) \/ Repairs(1))
        BY <3>2, <4>1 DEF Repairable, CardLedger, LeftAlone
      <4>3. lanes[arm].halted /\ e.sub \in {"halted", "active"}
        BY <3>1, <3>5 DEF LaneInv, Settled
      <4>4. Len(e.history) > 1
        <5>1. /\ HaltDay \in Nat
              /\ day \in Int
              /\ e.contacts \in Nat
          BY <3>1, WorldAssumption, PairedAssumption
          DEF LaneInv, EpisodeState, LanesInv
        <5>2. day > 0
          BY <5>1
        <5>3. Len(e.history) = e.contacts + 2
          <6>1. One(day > 0) + One(lanes[arm].halted) = 2
            BY <4>3, <5>2 DEF One
          <6>2. Len(e.history)
                  = e.contacts + (One(day > 0) + One(lanes[arm].halted))
            BY <3>1 DEF LaneInv, Counted
          <6> QED BY <6>1, <6>2
        <5> HIDE DEF e
        <5> QED BY <5>1, <5>3
      <4>5. 0 < Len(e.history) /\ 1 < Len(e.history)
        <5>1. Len(e.history) \in Nat
          BY <3>1, LenProperties DEF LaneInv, EpisodeState
        <5> HIDE DEF e
        <5> QED BY <4>4, <5>1
      <4>6. e.card
        BY <3>2, <4>2, <4>5 DEF Repairable, CardLedger
      <4>7. ~(e.sub = "halted")
        BY <3>2, <4>2, <4>6 DEF Repairable, CardLedger
      <4> QED BY <4>3, <4>7 DEF Rescued
    <3> QED BY <3>4, <3>5
  <2> QED BY <2>2, <2>3
<1>2. Spec => []FloorInv
  BY FloorInvariant
<1>3. Spec => []RescueInv
  BY InitRescueInv, RescueStep, LanesInvariant, PTL DEF Spec
<1> QED BY <1>1, <1>2, <1>3, LanesInvariant, PTL

-----------------------------------------------------------------------------
(***************************************************************************)
(* The frontier.  A lane at any threshold is a lane of the runner, and on  *)
(* the days on which restraint decides its customer has been sent exactly  *)
(* two messages: the opening email and the agent's first.                  *)
(***************************************************************************)
Paced(l, d) ==
  world.condition \in Contactable =>
    /\ d = 0 => /\ l.ep.contacts = 0
                /\ l.ep.sub = "pending"
                /\ ~l.stopped
    /\ d > 0 => l.ep.contacts > 0 \/ MaxContacts = 0
    /\ d \in 1..2 => l.ep.contacts <= 1
    /\ d \in 1..3 /\ world.condition \in CardBrokenKeys => l.ep.contacts <= 1

FrontierInv ==
  world.condition # Cancelled =>
    \A t \in Grid : LaneInv(frontier[t], day) /\ Paced(frontier[t], day)

Regime(t) ==
  IF t <= BASELINE_THRESHOLD THEN BASELINE_THRESHOLD ELSE BASELINE_THRESHOLD + 1

\* The lane of the transcription at the baseline threshold is A3-D's.
ParityInv == frontier[BASELINE_THRESHOLD] = lanes["A3-D"]

RegimesInv == FrontierInv /\ ParityInv /\ GridHasTwoRegimes

\* The runner's day depends on the proposal's action and remedy alone, once the
\* gate accepts it, and on nothing where nobody is asked.
LEMMA SameDay ==
  ASSUME NEW p, NEW q, NEW l,
         LET opened == OpeningEmail(world, l.ep, day)
         IN Runner(l, opened, day)!TickType(opened) = "wakeup" =>
              /\ Accepts(p, AgentView(l, day))
              /\ Accepts(q, AgentView(l, day))
              /\ SameAct(p, q)
  PROVE  RunnerDay(p, l, day) = RunnerDay(q, l, day)
<1> DEFINE opened == OpeningEmail(world, l.ep, day)
           wakes  == Runner(l, opened, day)!TickType(opened) = "wakeup"
           view   == AgentView(l, day)
           survivor(x) == Runner(l, opened, day)!Survivor(
                            Runner(l, opened, day)!Output(x, "none"), view)
           executed(x) == IF wakes
                          THEN Runner(l, opened, day)!Executed(survivor(x), view)
                          ELSE "none"
           content(x) == IF executed(x) = "CONTACT" THEN survivor(x).remedy
                         ELSE NoContact
           rejected(x) == IF wakes
                          THEN l.rejectedBy \cup ({RuleFired(x, view)} \ {NoRule})
                          ELSE l.rejectedBy
           day1(e, r, c) ==
             CloseDay(world,
               [l EXCEPT !.stopped    = @ \/ e = "STOP",
                         !.lastWake   = IF wakes THEN Len(opened.history) ELSE @,
                         !.records    = @ + 1,
                         !.rejectedBy = r],
               Contacted(world, opened, day, c), day)
<1>1. ASSUME NEW x
      PROVE  RunnerDay(x, l, day) = day1(executed(x), rejected(x), content(x))
  BY DEF RunnerDay, Runner!Output
<1>2. ASSUME NEW x, Accepts(x, view)
      PROVE  survivor(x) = x /\ RuleFired(x, view) = NoRule
  <2>1. Runner(l, opened, day)!Accepts(x, view)
    BY <1>2, GateIsTheRunners
  <2> QED BY <1>2, <2>1 DEF Runner!Survivor, Runner!Output, RuleFired
<1>3. executed(p) = executed(q) /\ content(p) = content(q)
  <2>1. CASE wakes
    <3>1. /\ survivor(p) = p /\ survivor(q) = q
          /\ Accepts(p, view) /\ Accepts(q, view)
          /\ p.action = q.action /\ p.remedy = q.remedy
      BY <1>2, <2>1 DEF SameAct
    <3>2. Runner(l, opened, day)!Accepts(p, view)
          /\ Runner(l, opened, day)!Accepts(q, view)
      BY <3>1, GateIsTheRunners
    <3>3. Runner(l, opened, day)!Executed(p, view)
            = Runner(l, opened, day)!Executed(q, view)
      BY <3>1, <3>2 DEF Runner!Executed
    <3> QED BY <3>1, <3>3
  <2>2. CASE ~wakes
    BY <2>2
  <2> QED BY <2>1, <2>2
<1>4. rejected(p) = rejected(q)
  BY <1>2
<1> HIDE DEF executed, content, rejected, day1
<1> QED BY <1>1, <1>3, <1>4

\* Each of the sixteen rules of the script is, word by word, a rule of A3-D's
\* table under the script's withholding test, and stands at its number.
LEMMA RulesAreTheTable ==
  ASSUME NEW t, NEW view
  PROVE  LET rules == VariantRules(t, view)
             table == A3DTable(view, WithholdsFrom(t, view))
         IN /\ DOMAIN rules = 1..16
            /\ \A k \in 1..16 : rules[k] \in table /\ rules[k].proposal.rule = k
            /\ \A s \in table :
                 s.proposal.rule \in 1..16 /\ s = rules[s.proposal.rule]
<1> DEFINE rules == VariantRules(t, view)
           w     == WithholdsFrom(t, view)
           table == A3DTable(view, w)
           At(k) == /\ rules[k] \in table
                    /\ \A s \in table : s.proposal.rule = k => s = rules[k]
<1>1. FRONTIER_CARD_BROKEN = CARD_BROKEN
  BY DEF FRONTIER_CARD_BROKEN, CARD_BROKEN
<1>2. \A k \in 1..16 : At(k)
  <2>1. At(1)
    BY <1>1 DEF VariantRules, A3DTable, Rule, Proposal
  <2>2. At(2)
    BY <1>1 DEF VariantRules, A3DTable, Rule, Proposal
  <2>3. At(3)
    BY <1>1 DEF VariantRules, A3DTable, Rule, Proposal
  <2>4. At(4)
    BY <1>1 DEF VariantRules, A3DTable, Rule, Proposal
  <2>5. At(5)
    BY <1>1 DEF VariantRules, A3DTable, Rule, Proposal
  <2>6. At(6)
    BY <1>1 DEF VariantRules, A3DTable, Rule, Proposal
  <2>7. At(7)
    BY <1>1 DEF VariantRules, A3DTable, Rule, Proposal
  <2>8. At(8)
    BY <1>1 DEF VariantRules, A3DTable, Rule, Proposal
  <2>9. At(9)
    BY <1>1 DEF VariantRules, A3DTable, Rule, Proposal
  <2>10. At(10)
    BY <1>1 DEF VariantRules, A3DTable, Rule, Proposal
  <2>11. At(11)
    <3> DEFINE code   == view.decline
               mine   == /\ code \in FRONTIER_CARD_BROKEN
                            \/ code = "ambiguous_decline"
                         /\ VariantRescues(view)
               theirs == (code \in CARD_BROKEN \/ code = "ambiguous_decline")
                         /\ PostHaltRescueDue(view)
               Eleven(when) ==
                 Rule(11, when, "CONTACT", "card_change", "post_halt_rescue")
    <3>1. mine = theirs
      BY <1>1 DEF VariantRescues, PostHaltRescueDue
    <3>2. rules[11] = Eleven(mine)
      BY DEF VariantRules
    <3>3. Eleven(theirs) \in table
      BY DEF A3DTable
    <3>4. ASSUME NEW s \in table, s.proposal.rule = 11 PROVE s = Eleven(theirs)
      BY <3>4 DEF A3DTable, Rule, Proposal
    <3> HIDE DEF mine, theirs, rules, table
    <3> QED BY <3>1, <3>2, <3>3, <3>4
  <2>12. At(12)
    BY <1>1 DEF VariantRules, A3DTable, Rule, Proposal
  <2>13. At(13)
    BY <1>1 DEF VariantRules, A3DTable, Rule, Proposal
  <2>14. At(14)
    BY <1>1 DEF VariantRules, A3DTable, Rule, Proposal
  <2>15. At(15)
    BY <1>1 DEF VariantRules, A3DTable, Rule, Proposal
  <2>16. At(16)
    BY <1>1 DEF VariantRules, A3DTable, Rule, Proposal
  <2> HIDE DEF rules, table
  <2> QED BY <2>1, <2>2, <2>3, <2>4, <2>5, <2>6, <2>7, <2>8, <2>9, <2>10,
             <2>11, <2>12, <2>13, <2>14, <2>15, <2>16
<1>3. DOMAIN rules = 1..16
  BY DEF VariantRules
<1>4. \A k \in 1..16 : rules[k].proposal.rule = k
  BY DEF VariantRules, Rule, Proposal
<1>5. \A s \in table : s.proposal.rule \in 1..16
  BY DEF A3DTable, Rule, Proposal
<1> HIDE DEF rules, table
<1> QED BY <1>2, <1>3, <1>4, <1>5 DEF rules, table

\* So the first rule that returns is the least numbered one that applies.
LEMMA VariantIsChoice ==
  ASSUME NEW t, NEW view
  PROVE  Variant(t, view) = Choice(view, WithholdsFrom(t, view))
<1> DEFINE rules == VariantRules(t, view)
           w     == WithholdsFrom(t, view)
           table == A3DTable(view, w)
           First(k) == rules[k].when /\ \A j \in 1..(k - 1) : ~rules[j].when
<1>1. /\ DOMAIN rules = 1..16
      /\ \A k \in 1..16 : rules[k] \in table /\ rules[k].proposal.rule = k
      /\ \A s \in table :
           s.proposal.rule \in 1..16 /\ s = rules[s.proposal.rule]
  BY RulesAreTheTable
<1>2. PICK r \in table :
        /\ r.when
        /\ Choice(view, w) = r.proposal
        /\ \A s \in table : s.when => r.proposal.rule <= s.proposal.rule
  BY TableChooses
<1> DEFINE n == r.proposal.rule
<1> HIDE DEF rules, w, table
<1>3. n \in 1..16 /\ r = rules[n]
  BY <1>1, <1>2
<1>4. First(n)
  <2>1. ASSUME NEW j \in 1..(n - 1), rules[j].when PROVE FALSE
    <3>1. j \in 1..16 /\ j < n
      BY <1>3
    <3>2. n <= j
      BY <1>1, <1>2, <2>1, <3>1
    <3> QED BY <1>3, <3>1, <3>2
  <2> QED BY <1>2, <1>3, <2>1
<1>5. ASSUME NEW k \in 1..16, First(k) PROVE k = n
  <2>1. ~(n < k)
    BY <1>2, <1>3, <1>5
  <2>2. n <= k
    BY <1>1, <1>2, <1>5
  <2> QED BY <1>3, <2>1, <2>2
<1>6. (CHOOSE k \in DOMAIN rules : First(k)) = n
  BY <1>1, <1>3, <1>4, <1>5
<1>7. FirstReturn(rules) = rules[n].proposal
  BY <1>6 DEF FirstReturn
<1> QED BY <1>2, <1>3, <1>7 DEF Variant, rules, w

\* A day spends a contact exactly when it sends one.
LEMMA DaySpends ==
  ASSUME world \in WorldType, day \in Nat, NEW l, LaneInv(l, day),
         NEW n, NEW content, OneDay(l, n, content)
  PROVE  /\ OpeningEmail(world, l.ep, day).contacts = l.ep.contacts
         /\ n.ep.contacts = IF content = NoContact THEN l.ep.contacts
                            ELSE l.ep.contacts + 1
<1> DEFINE opened == OpeningEmail(world, l.ep, day)
           c == Contacted(world, opened, day, content)
<1>1. DayOutcome(l, n, content)
  BY DayKeepsLane
<1>2. PICK k : /\ IsLane(k)
               /\ k.halted = l.halted
               /\ n = CloseDay(world, k, c, day)
  BY DEF OneDay
<1>3. n.ep.contacts = c.contacts
  <2>1. Underway(c, k.halted) /\ k.halted \in BOOLEAN
    BY <1>1, <1>2 DEF DayOutcome, LaneInv
  <2> HIDE DEF c
  <2> QED BY <1>2, <2>1, CloseKeepsRepairable
<1>4. opened.contacts = l.ep.contacts
  <2>1. CASE day = 0
    <3>1. Counted(l.ep, 0) /\ l.ep \in EpisodeState
      BY <2>1, NothingCountedYet DEF LaneInv
    <3>2. l.ep.contacts \in Nat /\ MaxContacts \in Nat
      BY <3>1, WorldAssumption DEF EpisodeState
    <3>3. Len(l.ep.history) <= MaxContacts + 1 /\ l.ep.topups <= Len(l.ep.history)
      BY <3>1, <3>2 DEF Counted
    <3>4. DrawFor(world, l.ep, AutoEmail) \in Draws
      BY <3>1, <3>3, DrawIsTyped
    <3>5. MessageOutcome(l.ep, opened, 0)
      BY <2>1, <3>1, <3>4, EmailOutcome DEF OpeningEmail
    <3> HIDE DEF opened
    <3> QED BY <3>2, <3>5 DEF MessageOutcome
  <2>2. CASE day # 0
    BY <2>2 DEF OpeningEmail
  <2> QED BY <2>1, <2>2
<1> QED BY <1>1, <1>3, <1>4 DEF DayOutcome

LEMMA PacedDay ==
  ASSUME HaltDay >= 3, world \in WorldType, world.condition # Cancelled,
         day \in Nat, NEW l, LaneInv(l, day), Paced(l, day), NEW w
  PROVE  LET n == RunnerDay(Choice(AgentView(l, day), w), l, day)
         IN LaneInv(n, day + 1) /\ Paced(n, day + 1)
<1> DEFINE opened  == OpeningEmail(world, l.ep, day)
           view    == AgentView(l, day)
           p       == Choice(view, w)
           content == RunnerContent(p, l)
           n       == RunnerDay(p, l, day)
<1>1. IsLane(l) /\ opened.contacts \in 0..MaxContacts
  BY OpeningKeepsLane DEF LaneInv
<1>2. OneDay(l, n, content)
  BY <1>1, RunnerDayParts
<1>3. /\ LaneInv(n, day + 1)
      /\ Prompts(opened, content)
      /\ Underway(opened, l.halted)
      /\ opened.invoice = l.ep.invoice
  BY <1>2, DayKeepsLane DEF DayOutcome
<1>4. /\ opened.contacts = l.ep.contacts
      /\ n.ep.contacts = IF content = NoContact THEN l.ep.contacts
                         ELSE l.ep.contacts + 1
  BY <1>2, DaySpends
<1>5. /\ view.day = day
      /\ view.decline = world.condition
      /\ view.state = opened.sub
  BY AgentSees DEF BuildView
<1>6. l.halted \in BOOLEAN
  BY DEF LaneInv
<1>7. opened.contacts < MaxContacts =>
        content = IF /\ Runner(l, opened, day)!TickType(opened) = "wakeup"
                     /\ p.action = "CONTACT"
                  THEN p.remedy ELSE NoContact
  BY <1>3, <1>6, TableSends
<1>8. l.ep.contacts \in Nat /\ MaxContacts \in Nat
  BY WorldAssumption DEF LaneInv, EpisodeState
<1>9. content # NoContact => \/ day = 0
                             \/ day = 5
                             \/ Decisive(view)
  <2>1. SUFFICES ASSUME content # NoContact PROVE day = 0 \/ day = 5 \/ Decisive(view)
    OBVIOUS
  <2>2. opened.contacts < MaxContacts
    BY <1>3, <2>1 DEF Prompts
  <2>3. p.action = "CONTACT"
    BY <1>7, <2>1, <2>2
  <2> QED BY <1>5, <2>3, ChoiceTimes
<1>10. day = 0 /\ world.condition \in Contactable /\ MaxContacts # 0 =>
         content # NoContact
  <2> SUFFICES ASSUME day = 0, world.condition \in Contactable, MaxContacts # 0
               PROVE  content # NoContact
    OBVIOUS
  <2>1. l.ep.contacts = 0 /\ l.ep.sub = "pending" /\ ~l.stopped
    BY DEF Paced
  <2>2. opened.sub = "pending"
    <3>1. ~l.ep.invoice /\ l.halted = FALSE
      BY <2>1, NothingCountedYet DEF LaneInv, Settled
    <3> HIDE DEF opened
    <3> QED BY <1>3, <3>1 DEF Underway, Settled
  <2>3. opened.contacts < MaxContacts
    BY <1>4, <1>8, <2>1
  <2>4. Runner(l, opened, day)!TickType(opened) = "wakeup"
    <3>1. MaxContacts - opened.contacts # 0
      BY <1>4, <1>8, <2>1
    <3> HIDE DEF opened
    <3> QED BY <2>1, <2>2, <3>1, FirstDayWakes
  <2>5. p.action = "CONTACT" /\ p.remedy \in AgentRemedies
    <3> HIDE DEF view
    <3>1. p.action = "CONTACT"
      BY <1>5, <2>2, ChoiceOpens, ChoiceOpensDues DEF Contactable
    <3> QED BY <3>1, ChoiceIsTyped
  <2> HIDE DEF opened, p, content
  <2> QED BY <1>7, <2>3, <2>4, <2>5 DEF AgentRemedies, NoContact
<1> HIDE DEF opened, content, n
<1>11. Paced(n, day + 1)
  <2> SUFFICES ASSUME world.condition \in Contactable
               PROVE  /\ n.ep.contacts > 0 \/ MaxContacts = 0
                      /\ day + 1 \in 1..2 => n.ep.contacts <= 1
                      /\ day + 1 \in 1..3 /\ world.condition \in CardBrokenKeys =>
                           n.ep.contacts <= 1
    BY DEF Paced
  <2>1. /\ day = 0 => l.ep.contacts = 0
        /\ day > 0 => l.ep.contacts > 0 \/ MaxContacts = 0
        /\ day \in 1..2 => l.ep.contacts <= 1
        /\ day \in 1..3 /\ world.condition \in CardBrokenKeys =>
             l.ep.contacts <= 1
    BY DEF Paced
  <2>2. n.ep.contacts > 0 \/ MaxContacts = 0
    BY <1>4, <1>8, <1>10, <2>1
  <2>3. content = NoContact \/ day # 1
    BY <1>5, <1>9 DEF Decisive
  <2>4. content = NoContact \/ day # 2 \/ world.condition \notin CardBrokenKeys
    BY <1>5, <1>9 DEF Decisive, CardBrokenKeys
  <2>5. day + 1 \in 1..2 => n.ep.contacts <= 1
    <3>1. day + 1 \in 1..2 => day = 0 \/ day = 1
      OBVIOUS
    <3> QED BY <1>4, <1>8, <2>1, <2>3, <3>1
  <2>6. ASSUME day + 1 \in 1..3, world.condition \in CardBrokenKeys
        PROVE  n.ep.contacts <= 1
    <3>1. day = 0 \/ day = 1 \/ day = 2
      BY <2>6
    <3>2. day \in {1, 2} => l.ep.contacts <= 1
      BY <2>1, <2>6
    <3> QED BY <1>4, <1>8, <2>1, <2>3, <2>4, <2>6, <3>1, <3>2
  <2> QED BY <2>2, <2>5, <2>6
<1> QED BY <1>3, <1>11 DEF n

\* Where restraint decides, exactly two messages have been sent.
LEMMA TwoMessages ==
  ASSUME HaltDay >= 3, world \in WorldType, day \in Nat,
         NEW l, LaneInv(l, day), Paced(l, day), Decisive(AgentView(l, day)),
         LET opened == OpeningEmail(world, l.ep, day)
         IN Runner(l, opened, day)!TickType(opened) = "wakeup"
  PROVE  Len(AgentView(l, day).history) = 2
<1> DEFINE opened == OpeningEmail(world, l.ep, day)
           view   == AgentView(l, day)
<1>1. /\ view.day = day
      /\ view.decline = world.condition
      /\ view.history = opened.history
  BY AgentSees DEF BuildView
<1>2. \/ day = 2 /\ world.condition \in {"insufficient_funds", "ambiguous_decline"}
      \/ day = 3 /\ world.condition \in CardBrokenKeys
  BY <1>1 DEF Decisive
<1>3. opened = l.ep
  BY <1>2 DEF OpeningEmail
<1>4. MaxContacts - l.ep.contacts # 0
  BY <1>3 DEF Runner!TickType, Runner!Budget
<1>5. l.halted = FALSE
  <2>1. ~(day > HaltDay)
    BY <1>2, WorldAssumption
  <2> QED BY <2>1 DEF LaneInv
<1>6. /\ l.ep.contacts \in Nat /\ MaxContacts \in Nat
      /\ l.ep.contacts <= MaxContacts
      /\ Len(l.ep.history) = l.ep.contacts + (One(day > 0) + One(l.halted))
  BY WorldAssumption DEF LaneInv, EpisodeState, Counted
<1>7. One(day > 0) + One(l.halted) = 1
  BY <1>2, <1>5 DEF One
<1>8. l.ep.contacts > 0 \/ MaxContacts = 0
  BY <1>2 DEF Paced, Contactable
<1>9. l.ep.contacts <= 1
  BY <1>2 DEF Paced, Contactable
<1>10. l.ep.contacts = 1
  BY <1>4, <1>6, <1>8, <1>9
<1> QED BY <1>1, <1>3, <1>6, <1>7, <1>10

\* The runner asks about a live subscription with budget left, so whatever the
\* threshold the gate takes the answer.
LEMMA AnswersAreAccepted ==
  ASSUME world \in WorldType, world.condition # Cancelled, day \in Nat,
         NEW l, LaneInv(l, day), NEW w,
         LET opened == OpeningEmail(world, l.ep, day)
         IN Runner(l, opened, day)!TickType(opened) = "wakeup"
  PROVE  Accepts(Choice(AgentView(l, day), w), AgentView(l, day))
<1> DEFINE opened == OpeningEmail(world, l.ep, day)
           view   == AgentView(l, day)
<1>1. /\ view.decline = world.condition
      /\ view.state = opened.sub
      /\ view.budget = MaxContacts - opened.contacts
  BY AgentSees DEF BuildView
<1>2. Underway(opened, l.halted) /\ opened.contacts \in 0..MaxContacts
  BY OpeningKeepsLane
<1>3. MaxContacts - opened.contacts # 0
  BY DEF Runner!TickType, Runner!Budget
<1>4. view.decline \in DeclineCodes
  BY <1>1 DEF WorldType, OpeningConditions
<1>5. view.state \notin {"cancelled", "expired"}
  BY <1>1, <1>2 DEF Underway, Settled
<1>6. view.budget \in Int /\ view.budget > 0
  BY <1>1, <1>2, <1>3, WorldAssumption
<1> HIDE DEF view
<1>7. Accepts(Choice(view, w), view)
  BY <1>4, <1>5, <1>6, ChoiceIsGateCompliant
<1> QED BY <1>7 DEF view

\* So two thresholds that agree on a history of two are one.
LEMMA ThresholdsAgree ==
  ASSUME HaltDay >= 3, world \in WorldType, world.condition # Cancelled,
         day \in Nat, NEW l, LaneInv(l, day), Paced(l, day),
         NEW t \in Nat, NEW u \in Nat, t <= 2 <=> u <= 2
  PROVE  VariantDay(t, l) = VariantDay(u, l)
<1> DEFINE opened == OpeningEmail(world, l.ep, day)
           view   == AgentView(l, day)
           w      == WithholdsFrom(t, view)
           v      == WithholdsFrom(u, view)
<1>1. ASSUME Runner(l, opened, day)!TickType(opened) = "wakeup"
      PROVE  /\ Accepts(Choice(view, w), view)
             /\ Accepts(Choice(view, v), view)
             /\ SameAct(Choice(view, w), Choice(view, v))
  <2>1. /\ Accepts(Choice(view, w), view)
        /\ Accepts(Choice(view, v), view)
    <3> HIDE DEF w, v
    <3> QED BY <1>1, AnswersAreAccepted
  <2>2. SameAct(Choice(view, w), Choice(view, v))
    <3>1. CASE Decisive(view)
      <4>1. Len(view.history) = 2
        BY <1>1, <3>1, TwoMessages
      <4>2. Len(view.history) >= t <=> Len(view.history) >= u
        <5> HIDE DEF view
        <5> QED BY <4>1
      <4>3. w = v
        BY <4>2 DEF WithholdsFrom
      <4> QED BY <4>3 DEF SameAct
    <3>2. CASE ~Decisive(view)
      <4> HIDE DEF view, w, v
      <4> QED BY <3>2, RestraintIsLocal
    <3> QED BY <3>1, <3>2
  <2> QED BY <2>1, <2>2
<1>2. RunnerDay(Choice(view, w), l, day) = RunnerDay(Choice(view, v), l, day)
  <2> HIDE DEF w, v
  <2> QED BY <1>1, SameDay
<1> QED BY <1>2, VariantIsChoice DEF VariantDay

\* Where the two withholding tests agree the two texts do, on every view.
LEMMA TextsAgree ==
  ASSUME NEW t, NEW view, WithholdsFrom(t, view) = WithholdApplies(view)
  PROVE  Variant(t, view) = A3D(view)
BY VariantIsChoice, A3DIsChoice

LEMMA BaselineWithholds ==
  ASSUME NEW view
  PROVE  WithholdsFrom(BASELINE_THRESHOLD, view) = WithholdApplies(view)
BY DEF WithholdsFrom, WithholdApplies, BASELINE_THRESHOLD

\* At the baseline threshold the transcribed table is A3-D's.
LEMMA BaselineDay ==
  ASSUME NEW l
  PROVE  VariantDay(BASELINE_THRESHOLD, l) = LaneDay("A3-D", l)
<1>1. ASSUME NEW view PROVE Variant(BASELINE_THRESHOLD, view) = A3D(view)
  BY TextsAgree, BaselineWithholds
<1> QED BY <1>1 DEF VariantDay, LaneDay, ScheduledArms

LEMMA ParityStep == ParityInv /\ [DiagNext]_diagVars => ParityInv'
<1>1. ASSUME ParityInv, DiagDay PROVE ParityInv'
  <2>1. "A3-D" \in Arms /\ BASELINE_THRESHOLD \in Grid
    BY GridAssumption DEF Arms, ScheduledArms
  <2>2. lanes'["A3-D"] = LaneDay("A3-D", lanes["A3-D"])
    BY <1>1, <2>1 DEF DiagDay, Day
  <2>3. frontier'[BASELINE_THRESHOLD]
          = VariantDay(BASELINE_THRESHOLD, frontier[BASELINE_THRESHOLD])
    BY <1>1, <2>1 DEF DiagDay
  <2> QED BY <1>1, <2>2, <2>3, BaselineDay DEF ParityInv
<1>2. ASSUME ParityInv, UNCHANGED diagVars PROVE ParityInv'
  BY <1>2 DEF ParityInv, diagVars
<1>3. ASSUME DiagTerminated PROVE UNCHANGED diagVars
  BY <1>3 DEF DiagTerminated, Terminated, vars, diagVars
<1> QED BY <1>1, <1>2, <1>3 DEF DiagNext

LEMMA InitParityInv == DiagInit => ParityInv
<1>1. "A3-D" \in Arms /\ BASELINE_THRESHOLD \in Grid
  BY GridAssumption DEF Arms, ScheduledArms
<1> QED BY <1>1 DEF DiagInit, Init, ParityInv

\* The frontier script's own sixteen rules say what A3-D's say, in every sweep,
\* on every schedule and over every set of draws: the same proposal, reason and
\* rule wherever the withholding tests agree, and at the baseline threshold the
\* same episode.
THEOREM TranscriptionIsFaithful == DiagSpec => []TranscriptionIsA3D
<1>1. ParityInv => TranscriptionIsA3D
  BY TextsAgree DEF ParityInv, TranscriptionIsA3D
<1> QED BY <1>1, InitParityInv, ParityStep, PTL DEF DiagSpec

LEMMA RegimesStep ==
  ASSUME HaltDay >= 3
  PROVE  LanesInv /\ RegimesInv /\ [DiagNext]_diagVars => RegimesInv'
<1>1. /\ Grid \subseteq Nat
      /\ BASELINE_THRESHOLD \in Grid /\ BASELINE_THRESHOLD + 1 \in Grid
      /\ BASELINE_THRESHOLD = 2
      /\ \A t \in Grid : Regime(t) \in Grid
  BY GridAssumption DEF Regime, BASELINE_THRESHOLD
<1>2. ASSUME LanesInv, RegimesInv, DiagDay PROVE RegimesInv'
  <2>1. "A3-D" \in Arms
    BY DEF Arms, ScheduledArms
  <2>2. /\ world \in WorldType
        /\ world.condition # Cancelled
        /\ day \in Nat
        /\ world' = world
        /\ day' = day + 1
        /\ lanes'["A3-D"] = LaneDay("A3-D", lanes["A3-D"])
        /\ \A t \in Grid : frontier'[t] = VariantDay(t, frontier[t])
    BY <1>2, <2>1, DayMovesEveryLane DEF DiagDay, Day
  <2>3. ASSUME NEW t \in Grid
        PROVE  /\ LaneInv(frontier[t], day)
               /\ Paced(frontier[t], day)
               /\ frontier[t] = frontier[Regime(t)]
    BY <1>2, <2>2 DEF RegimesInv, FrontierInv, GridHasTwoRegimes, Regime
  <2>4. ASSUME NEW t \in Grid
        PROVE  LaneInv(frontier'[t], day + 1) /\ Paced(frontier'[t], day + 1)
    <3> DEFINE w == WithholdsFrom(t, AgentView(frontier[t], day))
    <3>1. frontier'[t]
            = RunnerDay(Choice(AgentView(frontier[t], day), w), frontier[t], day)
      BY <2>2, VariantIsChoice DEF VariantDay
    <3> HIDE DEF w
    <3> QED BY <2>2, <2>3, <3>1, PacedDay
  <2>5. FrontierInv'
    BY <2>2, <2>4 DEF FrontierInv, LaneInv, IsLane, Counted, Settled, One, Paced
  <2>6. ParityInv'
    BY <1>2, ParityStep DEF RegimesInv, DiagNext
  <2>7. ASSUME NEW t \in Grid PROVE frontier'[t] = frontier'[Regime(t)]
    <3>1. t \in Nat /\ Regime(t) \in Nat /\ Regime(t) \in Grid
          /\ (t <= 2 <=> Regime(t) <= 2)
      BY <1>1 DEF Regime
    <3>2. VariantDay(t, frontier[t]) = VariantDay(Regime(t), frontier[t])
      BY <2>2, <2>3, <3>1, ThresholdsAgree
    <3> QED BY <2>2, <2>3, <3>1, <3>2
  <2> QED BY <2>5, <2>6, <2>7 DEF RegimesInv, GridHasTwoRegimes, Regime
<1>3. ASSUME RegimesInv, UNCHANGED diagVars PROVE RegimesInv'
  BY <1>3 DEF RegimesInv, FrontierInv, ParityInv, GridHasTwoRegimes, diagVars,
              LaneInv, IsLane, Counted, Settled, One, Paced
<1>4. ASSUME DiagTerminated PROVE UNCHANGED diagVars
  BY <1>4 DEF DiagTerminated, Terminated, vars, diagVars
<1> QED BY <1>2, <1>3, <1>4 DEF DiagNext

LEMMA InitRegimesInv == DiagInit => RegimesInv
<1> SUFFICES ASSUME DiagInit PROVE RegimesInv
  OBVIOUS
<1> DEFINE l == Lane(Opening(world.condition, world.latent))
<1>1. "A3-D" \in Arms
  BY DEF Arms, ScheduledArms
<1>2. /\ BASELINE_THRESHOLD \in Grid /\ BASELINE_THRESHOLD + 1 \in Grid
  BY GridAssumption DEF BASELINE_THRESHOLD
<1>3. lanes["A3-D"] = l /\ \A t \in Grid : frontier[t] = l
  BY <1>1 DEF DiagInit, Init
<1>4. GridHasTwoRegimes
  BY <1>2, <1>3 DEF GridHasTwoRegimes
<1>5. world.condition # Cancelled => LaneInv(l, day) /\ Paced(l, day)
  <2> SUFFICES ASSUME world.condition # Cancelled
               PROVE  LaneInv(l, day) /\ Paced(l, day)
    OBVIOUS
  <2>1. LanesInv
    BY InitLanesInv DEF DiagInit
  <2>2. LaneInv(l, day)
    BY <1>1, <1>3, <2>1 DEF LanesInv
  <2>3. OpeningOf(world.condition, l.ep)
    BY <2>1, OpeningIsTyped DEF LanesInv, WorldType, Lane
  <2>4. l.stopped = FALSE
    BY DEF Lane
  <2>5. day = 0
    BY DEF DiagInit, Init
  <2> HIDE DEF l
  <2> QED BY <2>2, <2>3, <2>4, <2>5 DEF Paced, OpeningOf
<1> QED BY <1>3, <1>4, <1>5, InitParityInv DEF RegimesInv, FrontierInv

\* The diagnosis runs beside the arms and changes nothing about them: what holds
\* of the paired arms holds of the diagnosed ones.
LEMMA DiagnosisOnlyWatches == DiagSpec => Spec
<1>1. DiagInit => Init
  BY DEF DiagInit
<1>2. [DiagNext]_diagVars => [Next]_vars
  BY DEF DiagNext, DiagDay, DiagTerminated, Next, vars, diagVars
<1> QED BY <1>1, <1>2, PTL DEF DiagSpec, Spec

LEMMA RegimesInvariant ==
  ASSUME HaltDay >= 3
  PROVE  DiagSpec => []RegimesInv
<1>1. LanesInv /\ RegimesInv /\ [DiagNext]_diagVars => RegimesInv'
  BY RegimesStep
<1>2. DiagSpec => []LanesInv
  BY DiagnosisOnlyWatches, LanesInvariant, PTL
<1> QED BY <1>1, <1>2, InitRegimesInv, PTL DEF DiagSpec

\* However many thresholds are swept, on every schedule that halts no earlier
\* than day 3 there are two behaviours, one up to the baseline and one above it.
\* With an earlier halt its email is a third message before the last decision,
\* and a third regime.
THEOREM SweepHasTwoRegimes ==
  ASSUME HaltDay >= 3
  PROVE  DiagSpec => []GridHasTwoRegimes
<1>1. RegimesInv => GridHasTwoRegimes
  BY DEF RegimesInv
<1> QED BY <1>1, RegimesInvariant, PTL

-----------------------------------------------------------------------------
(***************************************************************************)
(* The verdict of the stress suite.  What an arm sends fits the condition  *)
(* and is what its contact counter counts; A3-D's ledger has its record of *)
(* every day and no rejection.                                             *)
(***************************************************************************)
SendsOf(e) == {k \in DOMAIN e.history : IsAgentContact(e.history[k].remedy)}

\* The strawman aside, nobody writes to a risk-flagged customer or names the
\* card for a balance problem; over a transaction limit the first A2 does.
Fits(arm, remedy) ==
  arm # "A1" =>
    /\ world.condition # "payment_risk_check_failed"
    /\ remedy = "card_change" =>
         /\ world.condition # "insufficient_funds"
         /\ arm # "A2" => world.condition # "transaction_limit_exceeded"

Fitting(arm, e) ==
  /\ IsFiniteSet(SendsOf(e)) /\ Cardinality(SendsOf(e)) = e.contacts
  /\ \A k \in SendsOf(e) : Fits(arm, e.history[k].remedy)
  /\ e.wrongCard => arm = "A1"

Audited(l, d) == l.rejectedBy = {} /\ l.records = d

VerdictInv ==
  /\ \A arm \in Arms : Fitting(arm, lanes[arm].ep)
  /\ Audited(lanes["A3-D"], IF world.condition = Cancelled THEN 0 ELSE day)

\* One message more, the last.
Appended(f, e, d, remedy) ==
  \E engaged \in BOOLEAN :
    f.history = Append(e.history, [day |-> d, remedy |-> remedy,
                                   engaged |-> engaged])

OneMore(f, e, remedy, n) ==
  /\ SendsOf(f) = SendsOf(e) \cup (IF IsAgentContact(remedy) THEN {n} ELSE {})
  /\ n \notin SendsOf(e)
  /\ f.history[n].remedy = remedy
  /\ \A k \in SendsOf(e) : f.history[k] = e.history[k]

LEMMA MessageAppends ==
  ASSUME NEW e \in EpisodeState, NEW f, NEW d, NEW remedy,
         Appended(f, e, d, remedy)
  PROVE  OneMore(f, e, remedy, Len(e.history) + 1)
<1>0. PICK engaged \in BOOLEAN :
        f.history = Append(e.history, [day |-> d, remedy |-> remedy,
                                       engaged |-> engaged])
  BY DEF Appended
<1> DEFINE n == Len(e.history) + 1
           record == [day |-> d, remedy |-> remedy, engaged |-> engaged]
<1>1. e.history \in Seq(ContactRecord)
  BY DEF EpisodeState
<1>2. /\ DOMAIN f.history = 1..n
      /\ DOMAIN e.history = 1..Len(e.history)
      /\ \A k \in 1..Len(e.history) : f.history[k] = e.history[k]
      /\ f.history[n] = record
      /\ Len(e.history) \in Nat
  BY <1>0, <1>1, LenProperties
<1>3. f.history[n].remedy = remedy
  BY <1>2
<1>4. \A k \in SendsOf(e) : f.history[k] = e.history[k]
  BY <1>2 DEF SendsOf
<1>5. n \notin SendsOf(e) /\ 1..n = 1..Len(e.history) \cup {n}
  BY <1>2 DEF SendsOf
<1>6. SendsOf(f) = SendsOf(e) \cup (IF IsAgentContact(remedy) THEN {n} ELSE {})
  BY <1>2, <1>3, <1>5 DEF SendsOf
<1> QED BY <1>3, <1>4, <1>5, <1>6 DEF OneMore

LEMMA EmailFits ==
  ASSUME NEW arm, NEW e \in EpisodeState, NEW d \in Nat, NEW draw \in Draws,
         Fitting(arm, e)
  PROVE  Fitting(arm, SendMessage(e, d, AutoEmail, draw))
<1> DEFINE f == SendMessage(e, d, AutoEmail, draw)
<1>1. AutoEmail \in Remedies /\ ~IsAgentContact(AutoEmail)
  BY DEF Remedies, IsAgentContact
<1>0. e.contacts \in Nat
  BY DEF EpisodeState
<1>2. /\ f.wrongCard = e.wrongCard
      /\ f.contacts = e.contacts + (IF IsAgentContact(AutoEmail) THEN 1 ELSE 0)
      /\ Appended(f, e, d, AutoEmail)
  BY <1>1, MessageChanges, SMTT(40) DEF Appended
<1> HIDE DEF f
<1>3. Appended(f, e, d, AutoEmail)
  BY <1>2
<1>4. /\ SendsOf(f) = SendsOf(e)
      /\ \A k \in SendsOf(e) : f.history[k] = e.history[k]
  BY <1>1, <1>3, MessageAppends DEF OneMore
<1>5. f.contacts = e.contacts
  BY <1>0, <1>1, <1>2
<1>6. Fitting(arm, f)
  BY <1>2, <1>4, <1>5 DEF Fitting
<1> QED BY <1>6 DEF f

LEMMA PromptFits ==
  ASSUME NEW arm, NEW e \in EpisodeState, NEW d \in Nat, NEW draw \in Draws,
         NEW remedy \in AgentRemedies, Fitting(arm, e), Fits(arm, remedy)
  PROVE  Fitting(arm, SendContact(world.condition, e, d, remedy, draw))
<1> DEFINE f == SendContact(world.condition, e, d, remedy, draw)
           n == Len(e.history) + 1
<1>1. ContactOutcome(world.condition, e, d, remedy, f)
  BY ContactEffect
<1>2. IsAgentContact(remedy)
  BY DEF IsAgentContact, AgentRemedies, AutoEmail
<1> HIDE DEF f
<1>3. Appended(f, e, d, remedy)
  BY <1>1 DEF ContactOutcome, Appended
<1>4. /\ SendsOf(f) = SendsOf(e) \cup {n}
      /\ n \notin SendsOf(e)
      /\ f.history[n].remedy = remedy
      /\ \A k \in SendsOf(e) : f.history[k] = e.history[k]
  BY <1>2, <1>3, MessageAppends DEF OneMore
<1>5. IsFiniteSet(SendsOf(f)) /\ Cardinality(SendsOf(f)) = f.contacts
  <2>1. IsFiniteSet(SendsOf(e)) /\ Cardinality(SendsOf(e)) = e.contacts
    BY DEF Fitting
  <2>2. /\ IsFiniteSet(SendsOf(e) \cup {n})
        /\ Cardinality(SendsOf(e) \cup {n}) = Cardinality(SendsOf(e)) + 1
    BY <1>4, <2>1, FS_AddElement
  <2> QED BY <1>1, <1>4, <2>1, <2>2 DEF ContactOutcome
<1>6. \A k \in SendsOf(f) : Fits(arm, f.history[k].remedy)
  <2>1. \A k \in SendsOf(e) : Fits(arm, e.history[k].remedy)
    BY DEF Fitting
  <2> HIDE DEF n
  <2> QED BY <1>4, <2>1
<1>7. f.wrongCard => arm = "A1"
  <2>1. e.wrongCard => arm = "A1"
    BY DEF Fitting
  <2>2. f.wrongCard = (e.wrongCard \/ (remedy = "card_change"
                          /\ world.condition = "insufficient_funds"))
    BY <1>1 DEF ContactOutcome
  <2> QED BY <2>1, <2>2 DEF Fits
<1>8. Fitting(arm, f)
  BY <1>5, <1>6, <1>7 DEF Fitting
<1> QED BY <1>8 DEF f

\* The close of a day contacts nobody: the retry sends nothing, the halt an email.
LEMMA CloseFits ==
  ASSUME world \in WorldType, day \in Nat, NEW arm, NEW k, IsLane(k),
         k.halted \in BOOLEAN, NEW c, Underway(c, k.halted), Fitting(arm, c)
  PROVE  Fitting(arm, CloseDay(world, k, c, day).ep)
<1> DEFINE h == k.halted
           r == AfterRetry(c, day, h)
           g == [r EXCEPT !.sub = "halted"]
           halts == HaltsNow(r, day, h)
           draw == DrawFor(world, g, AutoEmail)
           f == AfterHalt(r, day, DrawFor(world, r, AutoEmail))
           n == CloseDay(world, k, c, day)
<1>1. /\ Underway(r, h)
      /\ r = c \/ r = [c EXCEPT !.invoice = TRUE, !.sub = "active"]
      /\ c \in EpisodeState
  BY RetryKeepsLane DEF AfterRetry, Underway
<1>2. n.ep = IF halts THEN f ELSE r
  BY DEF CloseDay, IsLane
<1>3. DrawFor(world, r, AutoEmail) = DrawFor(world, g, AutoEmail)
  BY DEF DrawFor, Appeal, IsAgentContact
<1>4. f = SendMessage(g, day, AutoEmail, draw)
  BY <1>3 DEF AfterHalt
<1> HIDE DEF r
<1>5. /\ r \in EpisodeState
      /\ r.wrongCard = c.wrongCard
      /\ r.history = c.history /\ r.contacts = c.contacts
  BY <1>1 DEF Underway, EpisodeState
<1>6. Fitting(arm, r)
  BY <1>5 DEF Fitting, SendsOf
<1>7. CASE ~halts
  BY <1>2, <1>6, <1>7
<1>8. CASE halts
  <2>1. /\ g \in EpisodeState
        /\ g.wrongCard = r.wrongCard
        /\ g.history = r.history /\ g.contacts = r.contacts
        /\ g.topups = r.topups
    BY <1>5 DEF EpisodeState, SubscriptionStates
  <2>2. Counted(r, 1)
    <3>1. h = FALSE
      BY <1>8 DEF HaltsNow
    <3> QED BY <1>1, <3>1 DEF Underway, One
  <2> HIDE DEF g, f, n, halts, h
  <2>3. Fitting(arm, g)
    BY <1>6, <2>1 DEF Fitting, SendsOf
  <2>4. /\ Len(g.history) <= MaxContacts + 1
        /\ g.topups <= Len(g.history)
    BY <2>1, <2>2, WorldAssumption DEF Counted, EpisodeState
  <2>5. draw \in Draws
    BY <2>1, <2>4, DrawIsTyped
  <2> HIDE DEF draw
  <2>6. Fitting(arm, f)
    BY <1>4, <2>1, <2>3, <2>5, EmailFits
  <2> QED BY <1>2, <1>8, <2>6 DEF n
<1> QED BY <1>7, <1>8

LEMMA DayFits ==
  ASSUME world \in WorldType, day \in Nat, NEW arm, NEW l, LaneInv(l, day),
         Fitting(arm, l.ep), NEW n, NEW content, OneDay(l, n, content),
         content # NoContact => Fits(arm, content)
  PROVE  Fitting(arm, n.ep)
<1> DEFINE opened == OpeningEmail(world, l.ep, day)
           c == Contacted(world, opened, day, content)
           draw == DrawFor(world, opened, content)
<1>1. /\ l.ep \in EpisodeState
      /\ l.halted \in BOOLEAN
      /\ Underway(opened, l.halted)
  BY OpeningKeepsLane DEF LaneInv
<1>2. Prompts(opened, content)
  BY DEF OneDay
<1>3. PICK k : /\ IsLane(k)
               /\ k.halted = l.halted
               /\ n = CloseDay(world, k, c, day)
  BY DEF OneDay
<1>4. Fitting(arm, opened)
  <2>1. CASE day = 0
    <3> DEFINE email == DrawFor(world, l.ep, AutoEmail)
    <3>1. Counted(l.ep, 0)
      BY <2>1, NothingCountedYet
    <3>2. /\ Len(l.ep.history) <= MaxContacts + 1
          /\ l.ep.topups <= Len(l.ep.history)
      BY <1>1, <3>1, WorldAssumption DEF Counted, EpisodeState
    <3>3. email \in Draws
      BY <1>1, <3>2, DrawIsTyped
    <3>4. opened = SendMessage(l.ep, day, AutoEmail, email)
      BY <2>1 DEF OpeningEmail
    <3> HIDE DEF opened, email
    <3> QED BY <1>1, <3>3, <3>4, EmailFits
  <2>2. CASE day # 0
    BY <2>2 DEF OpeningEmail
  <2> QED BY <2>1, <2>2
<1> HIDE DEF opened
<1>5. Underway(c, l.halted)
  BY <1>1, <1>2, PromptKeepsLane
<1>6. Fitting(arm, c)
  <2>1. CASE content = NoContact
    BY <1>4, <2>1 DEF Contacted
  <2>2. CASE content # NoContact
    <3>1. content \in AgentRemedies /\ opened.contacts < MaxContacts
      BY <1>2, <2>2 DEF Prompts
    <3>2. c = SendContact(world.condition, opened, day, content, draw)
      BY <2>2 DEF Contacted
    <3>3. /\ opened \in EpisodeState
          /\ Counted(opened, 1 + One(l.halted))
          /\ One(l.halted) \in {0, 1}
      BY <1>1 DEF Underway, One
    <3>4. /\ Len(opened.history) <= MaxContacts + 1
          /\ opened.topups <= Len(opened.history)
      BY <3>1, <3>3, WorldAssumption DEF Counted, EpisodeState
    <3>5. draw \in Draws
      BY <3>3, <3>4, DrawIsTyped
    <3> HIDE DEF draw, c
    <3> QED BY <1>4, <2>2, <3>1, <3>2, <3>3, <3>5, PromptFits
  <2> QED BY <2>1, <2>2
<1> HIDE DEF c
<1> QED BY <1>1, <1>3, <1>5, <1>6, CloseFits

LEMMA ScheduledFits ==
  ASSUME NEW arm \in ScheduledArms \ {"A1"}, NEW c \in OpeningConditions,
         NEW d, NEW state, Scheduled(arm, c, d, state) # NoContact
  PROVE  /\ c # "payment_risk_check_failed"
         /\ Scheduled(arm, c, d, state) = "card_change" =>
              /\ c # "insufficient_funds"
              /\ arm # "A2" => c # "transaction_limit_exceeded"
<1>1. /\ A2("payment_risk_check_failed", d, state) = NoContact
      /\ A2("insufficient_funds", d, state) # "card_change"
  BY DEF A2, CardPromptOn, CardBrokenKeys, NoContact
<1>2. /\ A2Corrected("payment_risk_check_failed", d, state) = NoContact
      /\ A2Corrected("insufficient_funds", d, state) # "card_change"
      /\ A2Corrected("transaction_limit_exceeded", d, state) # "card_change"
  BY <1>1 DEF A2Corrected, CardBrokenKeys, NoContact
<1>3. /\ A2Strengthened("payment_risk_check_failed", d, state) = NoContact
      /\ A2Strengthened("insufficient_funds", d, state) # "card_change"
      /\ A2Strengthened("transaction_limit_exceeded", d, state) # "card_change"
  BY <1>2 DEF A2Strengthened, CardBrokenKeys
<1>4. \/ Scheduled(arm, c, d, state) = NoContact
      \/ arm = "A2" /\ Scheduled(arm, c, d, state) = A2(c, d, state)
      \/ Scheduled(arm, c, d, state) = A2Corrected(c, d, state)
      \/ Scheduled(arm, c, d, state) = A2Strengthened(c, d, state)
  BY DEF Scheduled, ScheduledArms
<1> QED BY <1>1, <1>2, <1>3, <1>4

\* The oracle's lever follows the latent state: no condition that opens with a
\* working card is sent a card prompt.
LEMMA LeverFits ==
  ASSUME NEW c \in OpeningConditions, NEW latent \in LatentStates(c),
         A4Content(c, latent) # NoContact
  PROVE  /\ c # "payment_risk_check_failed"
         /\ A4Content(c, latent) = "card_change" =>
              c \notin {"insufficient_funds", "transaction_limit_exceeded"}
<1>1. ~latent.card => c \in CardBrokenKeys \cup {"ambiguous_decline"}
  BY BrokenConditions
<1>2. latent.card => /\ A4Content(c, latent) = "topup_reminder"
                     /\ c \in {"insufficient_funds", "ambiguous_decline"}
  BY DEF A4Content
<1> QED BY <1>1, <1>2 DEF CardBrokenKeys

LEMMA ContentFits ==
  ASSUME world \in WorldType, world.condition # Cancelled, day \in Nat,
         world.latent \in LatentStates(world.condition),
         NEW arm \in Arms, NEW l, LaneInv(l, day),
         Prompts(OpeningEmail(world, l.ep, day), ContentOf(arm, l)),
         ContentOf(arm, l) # NoContact
  PROVE  Fits(arm, ContentOf(arm, l))
<1> DEFINE opened  == OpeningEmail(world, l.ep, day)
           content == ContentOf(arm, l)
<1>1. world.condition \in OpeningConditions
  BY DEF WorldType
<1>2. CASE arm \in ScheduledArms
  <2>1. content = IF opened.contacts < MaxContacts
                  THEN Scheduled(arm, world.condition, day, opened.sub)
                  ELSE NoContact
    BY <1>2 DEF ContentOf, ScheduledArms
  <2> HIDE DEF opened
  <2>2. content = Scheduled(arm, world.condition, day, opened.sub)
    BY <2>1
  <2> HIDE DEF content
  <2>3. Fits(arm, content)
    BY <1>1, <1>2, <2>2, ScheduledFits DEF Fits, content
  <2> QED BY <2>3 DEF content
<1>3. CASE arm = "A4"
  <2> DEFINE lever == A4Content(world.condition, world.latent)
  <2>1. content = IF A4Sends(lever, opened, day) THEN lever ELSE NoContact
    BY <1>3 DEF ContentOf, ScheduledArms
  <2>2. content = lever /\ lever # NoContact
    BY <2>1
  <2> HIDE DEF lever
  <2>3. Fits(arm, lever)
    BY <1>1, <2>2, LeverFits DEF Fits, lever
  <2> QED BY <2>2, <2>3
<1>4. CASE arm = "A3-D"
  <2> DEFINE view == AgentView(l, day)
             w == WithholdApplies(view)
  <2>1. content = RunnerContent(A3D(view), l)
    BY <1>4 DEF ContentOf, ScheduledArms
  <2>2. content \in AgentRemedies /\ opened.contacts < MaxContacts
    BY DEF Prompts
  <2>3. Underway(opened, l.halted) /\ l.halted \in BOOLEAN
    BY OpeningKeepsLane DEF LaneInv
  <2>4. A3D(view).action = "CONTACT" /\ content = A3D(view).remedy
    BY <2>1, <2>2, <2>3, AgentSends3D
  <2>5. view.decline = world.condition
    BY AgentSees DEF BuildView
  <2> HIDE DEF view, w, content
  <2>6. A3D(view) = Choice(view, w)
    BY A3DIsChoice DEF w
  <2>7. PICK r \in A3DTable(view, w) : r.when /\ Choice(view, w) = r.proposal
    BY TableChooses
  <2>8. \/ /\ content = "topup_reminder"
           /\ world.condition \in {"insufficient_funds", "ambiguous_decline"}
        \/ /\ content = "card_change"
           /\ world.condition \in CardBrokenKeys \cup {"ambiguous_decline"}
    BY <2>4, <2>5, <2>6, <2>7, ContactsMatch
  <2>9. Fits(arm, content)
    BY <2>8 DEF Fits, CardBrokenKeys
  <2> QED BY <2>9 DEF content
<1> QED BY <1>2, <1>3, <1>4 DEF Arms

\* A3-D's ledger gains a record a day and never a rejection.
LEMMA DayIsAudited ==
  ASSUME world \in WorldType, world.condition # Cancelled, day \in Nat,
         NEW l, LaneInv(l, day), Audited(l, day)
  PROVE  Audited(RunnerDay(A3D(AgentView(l, day)), l, day), day + 1)
<1> DEFINE opened   == OpeningEmail(world, l.ep, day)
           wakes    == Runner(l, opened, day)!TickType(opened) = "wakeup"
           view     == AgentView(l, day)
           p        == A3D(view)
           output   == Runner(l, opened, day)!Output(p, "none")
           survivor == Runner(l, opened, day)!Survivor(output, view)
           executed == IF wakes
                       THEN Runner(l, opened, day)!Executed(survivor, view)
                       ELSE "none"
           content  == IF executed = "CONTACT" THEN survivor.remedy
                       ELSE NoContact
           v1 == l.stopped \/ executed = "STOP"
           v2 == IF wakes THEN Len(opened.history) ELSE l.lastWake
           v3 == l.records + 1
           v4 == IF wakes
                 THEN l.rejectedBy
                   \cup ({RuleFired(output.proposal, view)} \ {NoRule})
                 ELSE l.rejectedBy
           k == [l EXCEPT !.stopped = v1, !.lastWake = v2, !.records = v3,
                          !.rejectedBy = v4]
           c == Contacted(world, opened, day, content)
<1>1. IsLane(l)
  BY DEF LaneInv
<1>2. RunnerDay(p, l, day) = CloseDay(world, k, c, day)
  <2>1. k = [l EXCEPT
               !.stopped    = @ \/ executed = "STOP",
               !.lastWake   = IF wakes THEN Len(opened.history) ELSE @,
               !.records    = @ + 1,
               !.rejectedBy = IF wakes
                 THEN @ \cup ({RuleFired(output.proposal, view)} \ {NoRule})
                 ELSE @]
    BY <1>1 DEF IsLane
  <2> HIDE DEF k
  <2> QED BY <2>1 DEF RunnerDay
<1>3. v4 = {}
  <2>1. l.rejectedBy = {}
    BY DEF Audited
  <2>2. wakes => Accepts(p, view)
    <3> DEFINE w == WithholdApplies(view)
    <3>1. p = Choice(view, w)
      BY A3DIsChoice
    <3> HIDE DEF w, p
    <3> QED BY <3>1, AnswersAreAccepted
  <2>3. output.proposal = p
    BY DEF Runner!Output
  <2>4. wakes => RuleFired(output.proposal, view) = NoRule
    BY <2>2, <2>3 DEF RuleFired
  <2> QED BY <2>1, <2>4
<1>4. v3 = day + 1
  BY DEF Audited
<1> HIDE DEF v1, v2, v3, v4, c, wakes
<1>5. IsLane(k) /\ k.rejectedBy = v4 /\ k.records = v3
  <2> HIDE DEF k
  <2>1. k = [l EXCEPT !.stopped = v1, !.lastWake = v2, !.records = v3,
                      !.rejectedBy = v4]
    BY DEF k
  <2>2. IsLane(k)
    BY <1>1, <2>1 DEF IsLane
  <2>3. k.rejectedBy = v4
    BY <1>1, <2>1 DEF IsLane
  <2>4. k.records = v3
    BY <1>1, <2>1 DEF IsLane
  <2> QED BY <2>2, <2>3, <2>4
<1> HIDE DEF k
<1>6. Audited(CloseDay(world, k, c, day), day + 1)
  BY <1>3, <1>4, <1>5 DEF CloseDay, IsLane, Audited
<1> QED BY <1>2, <1>6 DEF p, view

LEMMA VerdictStep == LanesInv /\ RescueInv /\ VerdictInv /\ [Next]_vars => VerdictInv'
<1>1. ASSUME LanesInv, RescueInv, VerdictInv, Day PROVE VerdictInv'
  <2>1. "A3-D" \in Arms
    BY DEF Arms, ScheduledArms
  <2>2. /\ world \in WorldType
        /\ world.condition # Cancelled
        /\ day \in Nat
        /\ world' = world
        /\ day' = day + 1
    BY <1>1, <2>1, DayMovesEveryLane DEF Day
  <2>3. world.latent \in LatentStates(world.condition)
    BY <1>1, <2>2 DEF RescueInv
  <2>4. ASSUME NEW arm \in Arms PROVE Fitting(arm, lanes'[arm].ep)
    <3> DEFINE l == lanes[arm]
               n == LaneDay(arm, l)
               content == ContentOf(arm, l)
    <3>1. LaneInv(l, day) /\ lanes'[arm] = n
      BY <1>1, DayMovesEveryLane
    <3>2. Fitting(arm, l.ep)
      BY <1>1 DEF VerdictInv
    <3>3. OneDay(l, n, content)
      BY <2>2, <3>1, OpeningKeepsLane, LaneDayParts DEF LaneInv
    <3>4. content # NoContact => Fits(arm, content)
      BY <2>2, <2>3, <3>1, <3>3, ContentFits DEF OneDay
    <3>5. Fitting(arm, n.ep)
      <4> HIDE DEF l, n, content
      <4> QED BY <2>2, <3>1, <3>2, <3>3, <3>4, DayFits
    <3> QED BY <3>1, <3>5
  <2>5. Audited(lanes'["A3-D"], day + 1)
    <3> DEFINE l == lanes["A3-D"]
    <3>1. LaneInv(l, day) /\ lanes'["A3-D"] = LaneDay("A3-D", l)
      BY <1>1, <2>1, DayMovesEveryLane
    <3>2. LaneDay("A3-D", l) = RunnerDay(A3D(AgentView(l, day)), l, day)
      BY DEF LaneDay, ScheduledArms
    <3>3. Audited(l, day)
      BY <1>1, <2>2 DEF VerdictInv
    <3> HIDE DEF l
    <3> QED BY <2>2, <3>1, <3>2, <3>3, DayIsAudited
  <2> QED BY <2>2, <2>4, <2>5 DEF VerdictInv, Fitting, SendsOf, Fits, Audited
<1>2. ASSUME VerdictInv, UNCHANGED vars PROVE VerdictInv'
  BY <1>2 DEF VerdictInv, vars, Fitting, SendsOf, Fits, Audited
<1> QED BY <1>1, <1>2 DEF Next, Terminated

LEMMA NothingSent ==
  ASSUME NEW c, NEW arm, NEW e, OpeningOf(c, e), e.wrongCard = FALSE
  PROVE  Fitting(arm, e) /\ SendsOf(e) = {}
<1>1. SendsOf(e) = {}
  <2>1. DOMAIN e.history = {}
    BY DEF OpeningOf
  <2> QED BY <2>1 DEF SendsOf
<1>2. IsFiniteSet({}) /\ Cardinality({}) = 0
  BY FS_EmptySet
<1> QED BY <1>1, <1>2 DEF OpeningOf, Fitting

LEMMA InitVerdictInv == Init => VerdictInv
<1> SUFFICES ASSUME Init PROVE VerdictInv
  OBVIOUS
<1> DEFINE e == Opening(world.condition, world.latent)
<1>1. world.latent \in LatentType
  BY InitLanesInv DEF LanesInv, WorldType
<1>2. OpeningOf(world.condition, e) /\ e.wrongCard = FALSE
  BY <1>1, OpeningIsTyped DEF Opening
<1>3. ASSUME NEW arm \in Arms PROVE lanes[arm] = Lane(e)
  BY DEF Init
<1>4. "A3-D" \in Arms
  BY DEF Arms, ScheduledArms
<1>5. world.condition # Cancelled => day = 0
  BY DEF Init
<1> HIDE DEF e
<1>6. /\ Lane(e).ep = e
      /\ Audited(Lane(e), 0)
  BY DEF Lane, Audited
<1>7. ASSUME NEW arm \in Arms PROVE Fitting(arm, lanes[arm].ep)
  BY <1>2, <1>3, <1>6, <1>7, NothingSent
<1> QED BY <1>3, <1>4, <1>5, <1>6, <1>7 DEF VerdictInv

LEMMA RescueInvariant == Spec => []RescueInv
BY InitRescueInv, RescueStep, LanesInvariant, PTL DEF Spec

LEMMA VerdictInvariant == Spec => []VerdictInv
BY InitVerdictInv, VerdictStep, LanesInvariant, RescueInvariant, PTL DEF Spec

\* What the verdict reads off an arm, once the window is over.
LEMMA NoViolation ==
  ASSUME LanesInv, VerdictInv, Ended, NEW arm \in StressArms
  PROVE  ArmViolations(arm) = {}
<1> DEFINE measured == SafetyInvariants(arm)
           l == lanes[arm]
<1>1. arm \in Arms
  BY DEF StressArms, Arms, ScheduledArms
<1>2. /\ l.ep.wrongCard \in BOOLEAN
      /\ l.ep.contacts \in Nat
      /\ l.ep.contacts <= MaxContacts
  <2>1. CASE world.condition = Cancelled
    <3>1. OpeningOf(Cancelled, l.ep)
      BY <1>1, <2>1, CancelledLanes
    <3> HIDE DEF l
    <3> QED BY <3>1, WorldAssumption DEF OpeningOf, EpisodeState
  <2>2. CASE world.condition # Cancelled
    BY <1>1, <2>2 DEF LanesInv, LaneInv, Counted, EpisodeState
  <2> QED BY <2>1, <2>2
<1>3. l.ep.wrongCard => arm = "A1"
  BY <1>1 DEF VerdictInv, Fitting
<1>4. HasLedger(arm) =>
        /\ l.rejectedBy = {}
        /\ l.records = IF world.condition = Cancelled THEN 0 ELSE day
  BY DEF HasLedger, VerdictInv, Audited
<1>5. world.condition # Cancelled => day = WindowDays + 1
  BY PairedAssumption DEF LanesInv, Ended
<1>6. HasLedger(arm) => AuditCovers(arm)
  BY <1>4, <1>5 DEF AuditCovers
<1>7. ~(l.ep.contacts > MaxContacts)
  BY <1>2, WorldAssumption
<1>8. ASSUME NEW key \in DOMAIN measured \ Exempt(arm)
      PROVE  measured[key] = 0
  <2>1. key \in IF HasLedger(arm) THEN ZeroToleranceKeys
                ELSE {"card_change_for_insufficient_funds"}
    BY DEF SafetyInvariants
  <2>2. CASE key = "card_change_for_insufficient_funds"
    <3>1. arm # "A1"
      BY <1>8, <2>2 DEF Exempt
    <3>2. measured[key] = IF l.ep.wrongCard THEN 1 ELSE 0
      BY <2>1, <2>2 DEF SafetyInvariants
    <3> QED BY <1>2, <1>3, <3>1, <3>2
  <2>3. CASE key = "gate_rejections_total"
    <3>1. HasLedger(arm)
      BY <2>1, <2>3
    <3>2. measured[key] = Cardinality(l.rejectedBy)
      BY <2>1, <2>3 DEF SafetyInvariants
    <3> QED BY <1>4, <3>1, <3>2, FS_EmptySet
  <2>4. CASE key \notin {"card_change_for_insufficient_funds",
                         "gate_rejections_total"}
    <3>1. HasLedger(arm)
      BY <2>1, <2>4
    <3>2. measured[key] = IF key \in l.rejectedBy THEN 1 ELSE 0
      BY <2>1, <2>4 DEF SafetyInvariants
    <3> QED BY <1>4, <3>1, <3>2
  <2> QED BY <2>2, <2>3, <2>4
<1> HIDE DEF measured
<1>9. {key \in DOMAIN measured \ Exempt(arm) : measured[key] > 0} = {}
  BY <1>8
<1> QED BY <1>6, <1>7, <1>9 DEF ArmViolations, measured

\* Nothing an arm sends breaks a safety row, measured or not.
LEMMA SendsKeepTheRows ==
  ASSUME LanesInv, VerdictInv, NEW arm \in Arms \ {"A1"}
  PROVE  /\ Cardinality(AgentSends(arm)) <= MaxContacts
         /\ world.condition \in {"payment_risk_check_failed", Cancelled} =>
              AgentSends(arm) = {}
         /\ arm # "A2" /\ world.condition \in {"insufficient_funds",
                                               "transaction_limit_exceeded"} =>
              \A k \in AgentSends(arm) : Sent(arm)[k].remedy # "card_change"
<1> DEFINE e == lanes[arm].ep
<1>1. AgentSends(arm) = SendsOf(e) /\ Sent(arm) = e.history
  BY DEF AgentSends, Sent, SendsOf
<1>2. /\ Cardinality(SendsOf(e)) = e.contacts
      /\ \A k \in SendsOf(e) : Fits(arm, e.history[k].remedy)
  BY DEF VerdictInv, Fitting
<1>3. CASE world.condition = Cancelled
  <2>1. OpeningOf(Cancelled, e)
    BY <1>3, CancelledLanes
  <2>2. SendsOf(e) = {}
    BY <2>1 DEF OpeningOf, SendsOf
  <2>3. Cardinality(SendsOf(e)) <= MaxContacts
    BY <2>2, FS_EmptySet, WorldAssumption
  <2> HIDE DEF e
  <2> QED BY <1>1, <2>2, <2>3
<1>4. CASE world.condition # Cancelled
  <2>1. e.contacts <= MaxContacts
    BY <1>4 DEF LanesInv, LaneInv, Counted
  <2> HIDE DEF e
  <2> QED BY <1>1, <1>2, <1>4, <2>1 DEF Fits
<1> QED BY <1>3, <1>4

\* No arm of the stress suite, at any budget, window, schedule and world, is ever
\* found in violation; and what no key of the verdict measures for an arm
\* without a ledger holds of the messages it sent: the strawman aside, none
\* over budget, none to a risk-flagged or cancelled customer, no card prompt for
\* a balance problem.
THEOREM StressVerdictHolds == DiagSpec => []StressVerdictIsSound
<1>1. LanesInv /\ VerdictInv => StressVerdictIsSound
  BY NoViolation, SendsKeepTheRows DEF StressVerdictIsSound
<1> QED BY <1>1, DiagnosisOnlyWatches, LanesInvariant, VerdictInvariant, PTL

-----------------------------------------------------------------------------
(***************************************************************************)
(* The ceiling.  Until the halt a draw is met by the message of its index, *)
(* whatever arm sends it and whenever: the oracle, which sends its lever   *)
(* from the first day on, has then met every draw another arm has met, and *)
(* no later.                                                               *)
(***************************************************************************)
\* The draw engages the message of its index.
Hits(k) == world.level[k] < (IF k = 0 THEN 1 ELSE 2 + MaxContacts - k)

Heard(n)      == {k \in 0..(n - 1) : Hits(k)}
RepairedBy(n) == \E k \in 0..(n - 1) : Hits(k) /\ world.completes[k]

\* What an episode owes to the draws of its messages.
Traced(e) ==
  /\ e.blocked = world.latent.blocked
  /\ e.mandate = world.latent.mandate
  /\ e.funds <= world.latent.funds
  /\ world.latent.card => e.card
  /\ e.topups <= Cardinality(Heard(Len(e.history)))
  /\ e.card => world.latent.card \/ RepairedBy(Len(e.history))

\* No draw was wasted on a message that does not name the dues, the card.
Served(e, d) ==
  /\ e.topups = Cardinality(Heard(Len(e.history)))
  /\ \A j \in 0..(e.topups - 1) :
       world.topup[j] > 0 => e.funds <= d * TicksPerDay + world.topup[j]

Mended(e) == RepairedBy(Len(e.history)) => e.card

\* What happened to the funds on day d: nothing, or a top-up drawn by then.
Takes(e, f, d) ==
  /\ e.topups <= f.topups
  /\ f.funds <= e.funds
  /\ \/ f.funds = e.funds
     \/ \E j \in 0..(f.topups - 1) : /\ world.topup[j] > 0
                                     /\ f.funds = d * TicksPerDay + world.topup[j]

LEMMA HeardGrows ==
  ASSUME NEW n \in Nat
  PROVE  /\ IsFiniteSet(Heard(n)) /\ Cardinality(Heard(n)) \in Nat
         /\ Cardinality(Heard(n + 1)) = Cardinality(Heard(n)) + One(Hits(n))
         /\ \A m \in 0..n : Cardinality(Heard(m)) <= Cardinality(Heard(n))
         /\ RepairedBy(n + 1) <=> RepairedBy(n) \/ (Hits(n) /\ world.completes[n])
         /\ \A m \in 0..n : RepairedBy(m) => RepairedBy(n)
<1>1. IsFiniteSet(Heard(n)) /\ Cardinality(Heard(n)) \in Nat
  <2>1. IsFiniteSet(0..(n - 1))
    BY FS_Interval
  <2>2. Heard(n) \in SUBSET (0..(n - 1))
    BY DEF Heard
  <2> QED BY <2>1, <2>2, FS_Subset, FS_CardinalityType
<1>2. 0..(n + 1 - 1) = 0..(n - 1) \cup {n} /\ n \notin 0..(n - 1)
  OBVIOUS
<1>3. Heard(n + 1) = IF Hits(n) THEN Heard(n) \cup {n} ELSE Heard(n)
  BY <1>2 DEF Heard
<1>4. n \notin Heard(n)
  BY <1>2 DEF Heard
<1>5. Cardinality(Heard(n + 1)) = Cardinality(Heard(n)) + One(Hits(n))
  <2>1. CASE Hits(n)
    BY <1>1, <1>3, <1>4, <2>1, FS_AddElement DEF One
  <2>2. CASE ~Hits(n)
    BY <1>1, <1>3, <2>2 DEF One
  <2> QED BY <2>1, <2>2
<1>6. ASSUME NEW m \in 0..n
      PROVE  Cardinality(Heard(m)) <= Cardinality(Heard(n))
  <2>1. Heard(m) \in SUBSET Heard(n)
    BY DEF Heard
  <2> QED BY <1>1, <2>1, FS_Subset
<1>7. RepairedBy(n + 1) <=> RepairedBy(n) \/ (Hits(n) /\ world.completes[n])
  BY <1>2 DEF RepairedBy
<1>8. \A m \in 0..n : RepairedBy(m) => RepairedBy(n)
  BY DEF RepairedBy
<1> QED BY <1>1, <1>5, <1>6, <1>7, <1>8

LEMMA MessageDues ==
  ASSUME NEW e \in EpisodeState, NEW d \in Nat, d <= HaltDay, NEW remedy,
         NEW draw \in Draws
  PROVE  LET f     == SendMessage(e, d, remedy, draw)
             dues  == draw.engaged /\ NamesDues(remedy)
             lands == d * TicksPerDay + draw.topup
         IN /\ f.topups = e.topups + One(dues)
            /\ f.funds = IF dues /\ draw.topup > 0 /\ lands < e.funds
                         THEN lands ELSE e.funds
<1> DEFINE g == MessageEffect(e, d, remedy, draw)
           h == IF draw.engaged /\ NamesCard(remedy)
                THEN CardEffect(e, draw) ELSE e
           f == SendMessage(e, d, remedy, draw)
           dues  == draw.engaged /\ NamesDues(remedy)
           lands == d * TicksPerDay + draw.topup
           sooner == draw.topup > 0 /\ lands < e.funds
<1>1. h \in EpisodeState /\ h.topups = e.topups /\ h.funds = e.funds
  BY DrawsAreTyped DEF CardEffect, EpisodeState, DrawsType
<1>2. g \in EpisodeState
  BY EffectOnlyHelps
<1>3. g = IF dues THEN DuesEffect(h, d, draw) ELSE h
  BY DEF MessageEffect
<1>4. ~(d > HaltDay)
  BY WorldAssumption
<1> HIDE DEF h
<1>5. /\ DuesEffect(h, d, draw).topups = e.topups + 1
      /\ DuesEffect(h, d, draw).funds = IF sooner THEN lands ELSE e.funds
  BY <1>1, <1>4 DEF DuesEffect, EpisodeState
<1> HIDE DEF g
<1>6. f.topups = g.topups /\ f.funds = g.funds
  BY <1>2 DEF SendMessage, EpisodeState, g
<1>7. e.topups \in Nat
  BY DEF EpisodeState
<1> HIDE DEF f, lands, sooner
<1>8. /\ f.topups = e.topups + One(dues)
      /\ f.funds = IF dues /\ sooner THEN lands ELSE e.funds
  <2>1. CASE dues
    BY <1>3, <1>5, <1>6, <2>1 DEF One
  <2>2. CASE ~dues
    BY <1>1, <1>3, <1>6, <1>7, <2>2 DEF One
  <2> QED BY <2>1, <2>2
<1> QED BY <1>8 DEF f, lands, sooner

\* A message of day d, in terms of the draws of its index.
Delivered(e, f, d, remedy) ==
  LET k     == Len(e.history)
      dues  == Hits(k) /\ NamesDues(remedy)
      topup == world.topup[e.topups]
      lands == d * TicksPerDay + topup
  IN /\ f \in EpisodeState
     /\ Len(f.history) = k + 1
     /\ f.contacts = e.contacts + One(IsAgentContact(remedy))
     /\ f.invoice = e.invoice
     /\ f.blocked = e.blocked /\ f.mandate = e.mandate
     /\ f.card <=> e.card \/ (Hits(k) /\ NamesCard(remedy) /\ world.completes[k])
     /\ f.topups = e.topups + One(dues)
     /\ f.funds = IF dues /\ topup > 0 /\ lands < e.funds THEN lands ELSE e.funds

\* A day before the halt has a draw for the next top-up.
LEMMA TopupsInRange ==
  ASSUME NEW ep \in EpisodeState, NEW emails \in {0, 1}, Counted(ep, emails)
  PROVE  ep.topups \in MessageIndexes
<1>1. ep.topups \in Nat /\ ep.contacts \in Nat /\ MaxContacts \in Nat
  BY WorldAssumption DEF EpisodeState
<1>2. /\ ep.topups <= Len(ep.history)
      /\ Len(ep.history) = ep.contacts + emails
      /\ ep.contacts <= MaxContacts
  BY DEF Counted
<1>3. ep.topups <= MaxContacts + 1
  BY <1>1, <1>2
<1> QED BY <1>1, <1>3 DEF MessageIndexes

LEMMA EmailDelivered ==
  ASSUME world \in WorldType, NEW e \in EpisodeState, NEW d \in Nat,
         d <= HaltDay, Counted(e, 0), e.contacts = 0
  PROVE  Delivered(e, SendMessage(e, d, AutoEmail, DrawFor(world, e, AutoEmail)),
                   d, AutoEmail)
<1> DEFINE draw == DrawFor(world, e, AutoEmail)
           f == SendMessage(e, d, AutoEmail, draw)
<1>1. Len(e.history) = 0 /\ e.topups = 0
  BY LenProperties DEF Counted, EpisodeState
<1>2. draw \in Draws
  BY <1>1, DrawIsTyped, WorldAssumption
<1>3. MessageOutcome(e, f, 0)
  BY <1>2, EmailOutcome
<1>4. f.card <=> e.card \/ (draw.engaged /\ NamesCard(AutoEmail) /\ draw.completes)
  BY <1>2, MessageCard
<1>5. /\ draw.engaged = Hits(Len(e.history))
      /\ draw.completes = world.completes[Len(e.history)]
      /\ draw.topup = world.topup[e.topups]
  BY <1>1 DEF DrawFor, Appeal, IsAgentContact, Hits
<1>6. /\ f.topups = e.topups + One(draw.engaged /\ NamesDues(AutoEmail))
      /\ f.funds = IF /\ draw.engaged /\ NamesDues(AutoEmail) /\ draw.topup > 0
                      /\ d * TicksPerDay + draw.topup < e.funds
                   THEN d * TicksPerDay + draw.topup ELSE e.funds
  BY <1>2, MessageDues
<1>7. One(IsAgentContact(AutoEmail)) = 0
  BY DEF One, IsAgentContact
<1> HIDE DEF f, draw
<1>8. Delivered(e, f, d, AutoEmail)
  BY <1>3, <1>4, <1>5, <1>6, <1>7 DEF Delivered, MessageOutcome, Improves
<1> QED BY <1>8 DEF f, draw

LEMMA ContactDelivered ==
  ASSUME world \in WorldType, NEW c, NEW e \in EpisodeState, NEW d \in Nat,
         d <= HaltDay, Counted(e, 1), e.contacts < MaxContacts,
         NEW remedy \in AgentRemedies
  PROVE  Delivered(e, SendContact(c, e, d, remedy, DrawFor(world, e, remedy)),
                   d, remedy)
<1> DEFINE draw == DrawFor(world, e, remedy)
           g == SendMessage(e, d, remedy, draw)
           f == SendContact(c, e, d, remedy, draw)
<1>1. /\ Len(e.history) = e.contacts + 1
      /\ e.topups <= Len(e.history)
      /\ e.contacts \in Nat /\ MaxContacts \in Nat
      /\ Len(e.history) <= MaxContacts + 1
  BY WorldAssumption DEF Counted, EpisodeState
<1>2. draw \in Draws
  BY <1>1, DrawIsTyped
<1>3. MessageOutcome(e, f, 1)
  BY <1>2, PromptOutcome
<1>4. IsAgentContact(remedy) /\ remedy \in Remedies
  BY DEF IsAgentContact, AgentRemedies, Remedies, AutoEmail
<1>5. g \in EpisodeState
  BY <1>2, <1>4, MessageChanges
<1>6. g.card <=> e.card \/ (draw.engaged /\ NamesCard(remedy) /\ draw.completes)
  BY <1>2, MessageCard
<1>7. /\ draw.engaged = Hits(Len(e.history))
      /\ draw.completes = world.completes[Len(e.history)]
      /\ draw.topup = world.topup[e.topups]
  <2>1. Appeal(remedy, e) = 1 + MaxContacts - e.contacts
    BY <1>4 DEF Appeal
  <2>2. Appeal(remedy, e) = 2 + MaxContacts - Len(e.history)
    BY <1>1, <2>1
  <2>3. Len(e.history) # 0
    BY <1>1
  <2> QED BY <2>2, <2>3 DEF DrawFor, Hits
<1>8. /\ g.topups = e.topups + One(draw.engaged /\ NamesDues(remedy))
      /\ g.funds = IF /\ draw.engaged /\ NamesDues(remedy) /\ draw.topup > 0
                      /\ d * TicksPerDay + draw.topup < e.funds
                   THEN d * TicksPerDay + draw.topup ELSE e.funds
  BY <1>2, MessageDues
<1>9. One(IsAgentContact(remedy)) = 1
  BY <1>4 DEF One
<1> HIDE DEF g, draw
<1>10. f.card = g.card /\ f.topups = g.topups /\ f.funds = g.funds
  BY <1>5 DEF SendContact, EpisodeState, g
<1> HIDE DEF f
<1>11. Delivered(e, f, d, remedy)
  BY <1>3, <1>6, <1>7, <1>8, <1>9, <1>10 DEF Delivered, MessageOutcome, Improves
<1> QED BY <1>11 DEF f, draw

\* Wherever the draws of an episode's messages stand, one message more.
LEMMA DeliveryTraced ==
  ASSUME world \in WorldType, NEW e \in EpisodeState, NEW f, NEW d \in Nat,
         NEW remedy \in Remedies, Delivered(e, f, d, remedy),
         e.topups \in MessageIndexes
  PROVE  /\ Traced(e) => Traced(f)
         /\ Takes(e, f, d)
         /\ NamesDues(remedy) /\ Served(e, d) => Served(f, d)
         /\ NamesCard(remedy) /\ Mended(e) => Mended(f)
<1> DEFINE k     == Len(e.history)
           dues  == Hits(k) /\ NamesDues(remedy)
           topup == world.topup[e.topups]
           lands == d * TicksPerDay + topup
           heard == Cardinality(Heard(k))
           later == Cardinality(Heard(k + 1))
<1>1. /\ f \in EpisodeState
      /\ Len(f.history) = k + 1
      /\ f.blocked = e.blocked /\ f.mandate = e.mandate
      /\ f.card <=> e.card \/ (Hits(k) /\ NamesCard(remedy) /\ world.completes[k])
      /\ f.topups = e.topups + One(dues)
      /\ f.funds = IF dues /\ topup > 0 /\ lands < e.funds THEN lands ELSE e.funds
  BY DEF Delivered
<1>2. /\ k \in Nat /\ e.topups \in Nat /\ e.funds \in Nat /\ f.topups \in Nat
      /\ f.funds \in Nat
  BY <1>1, LenProperties DEF EpisodeState
<1>3. \A j \in MessageIndexes : world.topup[j] \in Nat
  <2>1. world.topup \in [MessageIndexes -> {0} \cup AccelDelays]
    BY DEF WorldType
  <2>2. {0} \cup AccelDelays \subseteq Nat
    BY WorldAssumption
  <2> QED BY <2>1, <2>2
<1>4. lands \in Nat
  BY <1>3, WorldAssumption
<1>5. /\ heard \in Nat
      /\ later = heard + One(Hits(k))
      /\ RepairedBy(k + 1) <=> RepairedBy(k) \/ (Hits(k) /\ world.completes[k])
  BY <1>2, HeardGrows
<1>6. One(Hits(k)) \in {0, 1} /\ One(dues) \in {0, 1} /\ One(dues) <= One(Hits(k))
  BY DEF One
<1>7. f.funds <= e.funds /\ e.topups <= f.topups
  <2> HIDE DEF lands, topup, dues
  <2> QED BY <1>1, <1>2, <1>4, <1>6
<1>8. Traced(e) => Traced(f)
  <2> SUFFICES ASSUME Traced(e) PROVE Traced(f)
    OBVIOUS
  <2>1. e.topups <= heard /\ e.funds <= world.latent.funds
    BY DEF Traced
  <2>2. f.topups <= later
    BY <1>1, <1>2, <1>5, <1>6, <2>1
  <2>3. world.latent.funds \in Nat
    BY DEF WorldType, LatentType
  <2>4. f.funds <= world.latent.funds
    BY <1>2, <1>7, <2>1, <2>3
  <2>5. f.card => world.latent.card \/ RepairedBy(k + 1)
    BY <1>1, <1>5 DEF Traced
  <2> HIDE DEF dues, lands, topup
  <2> QED BY <1>1, <2>2, <2>4, <2>5 DEF Traced
<1>9. dues => f.topups = e.topups + 1 /\ e.topups \in 0..(f.topups - 1)
  BY <1>1, <1>2 DEF One
<1>10. Takes(e, f, d)
  <2>1. CASE f.funds = e.funds
    BY <1>7, <2>1 DEF Takes
  <2>2. CASE f.funds # e.funds
    <3>1. dues /\ topup > 0 /\ f.funds = lands
      BY <1>1, <2>2
    <3> QED BY <1>7, <1>9, <3>1 DEF Takes
  <2> QED BY <2>1, <2>2
<1>11. ASSUME NamesDues(remedy), Served(e, d) PROVE Served(f, d)
  <2>1. e.topups = heard
    BY <1>11 DEF Served
  <2>2. One(dues) = One(Hits(k))
    BY <1>11 DEF One
  <2>3. f.topups = later
    BY <1>1, <1>5, <2>1, <2>2
  <2>4. ASSUME NEW j \in 0..(f.topups - 1), world.topup[j] > 0
        PROVE  f.funds <= d * TicksPerDay + world.topup[j]
    <3>1. CASE j \in 0..(e.topups - 1)
      <4>1. e.funds <= d * TicksPerDay + world.topup[j]
        BY <1>11, <2>4, <3>1 DEF Served
      <4>2. j \in MessageIndexes
        BY <1>2, <3>1, WorldAssumption DEF MessageIndexes
      <4>3. world.topup[j] \in Nat
        BY <1>3, <4>2
      <4>4. d * TicksPerDay + world.topup[j] \in Nat
        BY <4>3, WorldAssumption
      <4> QED BY <1>2, <1>7, <4>1, <4>4
    <3>2. CASE j \notin 0..(e.topups - 1)
      <4>1. dues /\ j = e.topups
        <5>1. f.topups = e.topups + One(dues)
          BY <1>1
        <5>2. One(dues) = 1
          BY <1>2, <1>6, <2>4, <3>2, <5>1
        <5>3. j = e.topups
          BY <1>2, <2>4, <3>2, <5>1, <5>2
        <5> QED BY <5>2, <5>3 DEF One
      <4>2. f.funds <= lands
        <5>1. topup > 0
          BY <2>4, <4>1
        <5>2. f.funds = IF lands < e.funds THEN lands ELSE e.funds
          BY <1>1, <4>1, <5>1
        <5> HIDE DEF lands
        <5> QED BY <1>2, <1>4, <5>2
      <4> QED BY <4>1, <4>2
    <3> QED BY <3>1, <3>2
  <2> QED BY <1>1, <2>3, <2>4 DEF Served
<1>12. NamesCard(remedy) /\ Mended(e) => Mended(f)
  BY <1>1, <1>5 DEF Mended
<1> QED BY <1>8, <1>10, <1>11, <1>12

\* A day until the halt, for the draws: c is the episode before the close.
TracedDay(l, n, content) ==
  LET c == Contacted(world, OpeningEmail(world, l.ep, day), day, content)
  IN /\ c \in EpisodeState
     /\ Len(c.history) = c.contacts + 1
     /\ c.contacts <= MaxContacts
     /\ c.contacts = l.ep.contacts + One(content # NoContact)
     /\ c.invoice = l.ep.invoice
     /\ l.ep.card => c.card
     /\ Traced(l.ep) => Traced(c)
     /\ Takes(l.ep, c, day)
     /\ content # "card_change" /\ Served(l.ep, day) => Served(c, day)
     /\ content # "topup_reminder" /\ Mended(l.ep) => Mended(c)
     /\ n.ep.invoice <=> c.invoice \/ (day \in RetryDays /\ RetrySucceeds(c, day))
     /\ day < HaltDay =>
          /\ n.ep.card = c.card /\ n.ep.funds = c.funds
          /\ n.ep.blocked = c.blocked /\ n.ep.mandate = c.mandate
          /\ n.ep.topups = c.topups /\ n.ep.contacts = c.contacts
          /\ n.ep.history = c.history

LEMMA TakesCompose ==
  ASSUME NEW e \in EpisodeState, NEW f \in EpisodeState, NEW g \in EpisodeState,
         NEW d, Takes(e, f, d), Takes(f, g, d)
  PROVE  Takes(e, g, d)
<1>1. /\ e.topups \in Nat /\ f.topups \in Nat /\ g.topups \in Nat
      /\ e.funds \in Nat /\ f.funds \in Nat /\ g.funds \in Nat
      /\ e.topups <= f.topups /\ f.topups <= g.topups
      /\ f.funds <= e.funds /\ g.funds <= f.funds
  BY DEF EpisodeState, Takes
<1>2. /\ e.topups <= g.topups /\ g.funds <= e.funds
      /\ 0..(f.topups - 1) \subseteq 0..(g.topups - 1)
  BY <1>1
<1> QED BY <1>2 DEF Takes

LEMMA NothingTaken ==
  ASSUME NEW e \in EpisodeState, NEW d
  PROVE  Takes(e, e, d)
<1>1. e.topups \in Nat /\ e.funds \in Nat
  BY DEF EpisodeState
<1> QED BY <1>1 DEF Takes

LEMMA DayTraced ==
  ASSUME world \in WorldType, day \in Nat, day <= HaltDay,
         NEW l, LaneInv(l, day), day = 0 => l.ep.contacts = 0,
         NEW n, NEW content, OneDay(l, n, content)
  PROVE  TracedDay(l, n, content)
<1> DEFINE e == l.ep
           opened == OpeningEmail(world, e, day)
           c == Contacted(world, opened, day, content)
<1>1. /\ e \in EpisodeState
      /\ l.halted = FALSE
      /\ ~(day > HaltDay)
  BY WorldAssumption DEF LaneInv
<1>2. DayOutcome(l, n, content)
  BY DayKeepsLane
<1>3. /\ Prompts(opened, content)
      /\ Underway(opened, FALSE)
      /\ Underway(c, FALSE)
      /\ Improves(c, opened)
      /\ opened.invoice = e.invoice
      /\ c.invoice = opened.invoice
      /\ n.ep.invoice <=> \/ c.invoice
                          \/ day \in RetryDays /\ RetrySucceeds(c, day)
  BY <1>1, <1>2 DEF DayOutcome
<1>4. 1 + One(FALSE) = 1
  BY DEF One
<1>5. /\ opened \in EpisodeState /\ Counted(opened, 1)
      /\ c \in EpisodeState /\ Counted(c, 1)
  BY <1>3, <1>4 DEF Underway
<1>6. /\ Traced(e) => Traced(opened)
      /\ Takes(e, opened, day)
      /\ Served(e, day) => Served(opened, day)
      /\ Mended(e) => Mended(opened)
      /\ opened.contacts = e.contacts
      /\ e.card => opened.card
  <2>1. CASE day = 0
    <3>1. Counted(e, 0) /\ e.contacts = 0
      BY <2>1, NothingCountedYet
    <3>2. opened = SendMessage(e, day, AutoEmail, DrawFor(world, e, AutoEmail))
      BY <2>1 DEF OpeningEmail
    <3> HIDE DEF opened, e
    <3>3. Delivered(e, opened, day, AutoEmail)
      BY <1>1, <3>1, <3>2, EmailDelivered
    <3>4. e.topups \in MessageIndexes
      BY <1>1, <3>1, TopupsInRange
    <3>5. AutoEmail \in Remedies /\ NamesDues(AutoEmail) /\ NamesCard(AutoEmail)
      BY DEF Remedies, NamesDues, NamesCard
    <3>6. opened.contacts = e.contacts + One(IsAgentContact(AutoEmail))
      BY <3>3 DEF Delivered
    <3>7. One(IsAgentContact(AutoEmail)) = 0
      BY DEF One, IsAgentContact
    <3>8. opened.contacts = e.contacts
      BY <1>1, <3>6, <3>7 DEF EpisodeState
    <3>9. e.card => opened.card
      BY <3>3 DEF Delivered
    <3> QED BY <1>1, <3>3, <3>4, <3>5, <3>8, <3>9, DeliveryTraced
  <2>2. CASE day # 0
    BY <1>1, <2>2, NothingTaken DEF OpeningEmail
  <2> QED BY <2>1, <2>2
<1> HIDE DEF e, opened
<1>7. /\ Traced(opened) => Traced(c)
      /\ Takes(opened, c, day)
      /\ content # "card_change" /\ Served(opened, day) => Served(c, day)
      /\ content # "topup_reminder" /\ Mended(opened) => Mended(c)
      /\ c.contacts = opened.contacts + One(content # NoContact)
      /\ opened.card => c.card
  <2>1. CASE content = NoContact
    <3>1. c = opened
      BY <2>1 DEF Contacted
    <3>2. One(content # NoContact) = 0 /\ opened.contacts \in Nat
      BY <1>5, <2>1 DEF One, EpisodeState
    <3> QED BY <1>5, <3>1, <3>2, NothingTaken
  <2>2. CASE content # NoContact
    <3>1. content \in AgentRemedies /\ opened.contacts < MaxContacts
      BY <1>3, <2>2 DEF Prompts
    <3>2. c = SendContact(world.condition, opened, day, content,
                          DrawFor(world, opened, content))
      BY <2>2 DEF Contacted
    <3> HIDE DEF c
    <3>3. Delivered(opened, c, day, content)
      BY <1>5, <3>1, <3>2, ContactDelivered
    <3>4. opened.topups \in MessageIndexes
      BY <1>5, TopupsInRange
    <3>5. /\ content \in Remedies /\ IsAgentContact(content)
          /\ content # "card_change" => NamesDues(content)
          /\ content # "topup_reminder" => NamesCard(content)
      BY <3>1 DEF AgentRemedies, Remedies, IsAgentContact, NamesDues, NamesCard,
                  AutoEmail
    <3>6. One(IsAgentContact(content)) = 1 /\ One(content # NoContact) = 1
      BY <2>2, <3>5 DEF One
    <3>7. /\ c.contacts = opened.contacts + One(content # NoContact)
          /\ opened.card => c.card
      BY <3>3, <3>6 DEF Delivered
    <3> QED BY <1>5, <3>3, <3>4, <3>5, <3>7, DeliveryTraced
  <2> QED BY <2>1, <2>2
<1>8. ASSUME day < HaltDay
      PROVE  /\ n.ep.card = c.card /\ n.ep.funds = c.funds
             /\ n.ep.blocked = c.blocked /\ n.ep.mandate = c.mandate
             /\ n.ep.topups = c.topups /\ n.ep.contacts = c.contacts
             /\ n.ep.history = c.history
  <2> DEFINE r == AfterRetry(c, day, FALSE)
  <2>1. PICK k : /\ IsLane(k)
                 /\ k.halted = FALSE
                 /\ n = CloseDay(world, k, c, day)
    BY <1>1 DEF OneDay, e, opened
  <2>2. n.ep = r
    <3> HIDE DEF r, c
    <3>1. day # HaltDay
      BY <1>8, WorldAssumption
    <3>2. ~HaltsNow(r, day, FALSE)
      BY <3>1 DEF HaltsNow
    <3> QED BY <2>1, <3>2 DEF CloseDay, IsLane, r
  <2>3. r = c \/ r = [c EXCEPT !.invoice = TRUE, !.sub = "active"]
    BY DEF AfterRetry
  <2> HIDE DEF r, c
  <2> QED BY <1>5, <2>2, <2>3 DEF EpisodeState
<1> HIDE DEF c
<1>9. Takes(e, c, day)
  BY <1>1, <1>5, <1>6, <1>7, TakesCompose DEF e
<1>10. Len(c.history) = c.contacts + 1 /\ c.contacts <= MaxContacts
  BY <1>5 DEF Counted
<1>11. c.contacts = e.contacts + One(content # NoContact)
  BY <1>6, <1>7
<1> QED BY <1>3, <1>5, <1>6, <1>7, <1>8, <1>9, <1>10, <1>11
        DEF TracedDay, c, e, opened

-----------------------------------------------------------------------------
(***************************************************************************)
(* When an arm may contact: on three days at most, the oracle on the first *)
(* three, so nobody's k-th contact comes before the oracle's.              *)
(***************************************************************************)
Slots(arm, c) ==
  IF arm \in {"A0", "A4"} THEN <<0, 1, 2>>
  ELSE IF c \in CardBrokenKeys THEN <<0, 3, 5>>
  ELSE IF arm = "A1" THEN <<0, 3, 4>>
  ELSE IF arm = "A3-D" THEN <<0, 2, 5>>
  ELSE IF c = "ambiguous_decline" THEN <<0, 7, 8>>
  ELSE <<1, 5, 6>>

Elapsed(s, d) == One(d > s[1]) + One(d > s[2]) + One(d > s[3])

Quota(d) == Elapsed(<<0, 1, 2>>, d)

Sparing(arm, e, d) == e.contacts <= Elapsed(Slots(arm, world.condition), d)

LEMMA SlotsAreSpread ==
  ASSUME NEW arm, NEW c
  PROVE  LET s == Slots(arm, c)
         IN /\ s[1] \in Nat /\ s[2] \in Nat /\ s[3] \in Nat
            /\ s[1] < s[2] /\ s[2] < s[3]
BY DEF Slots

LEMMA SlotsPass ==
  ASSUME NEW arm, NEW c, NEW d \in Nat
  PROVE  LET s == Slots(arm, c)
         IN /\ Elapsed(s, d) \in Nat
            /\ Elapsed(s, d) <= Quota(d)
            /\ Elapsed(s, 0) = 0
            /\ Elapsed(s, d + 1)
                 = Elapsed(s, d) + One(d \in {s[1], s[2], s[3]})
<1> DEFINE s == Slots(arm, c)
           x == s[1]
           y == s[2]
           z == s[3]
<1>1. x \in Nat /\ y \in Nat /\ z \in Nat /\ x < y /\ y < z
  BY SlotsAreSpread
<1>2. Elapsed(s, d) = One(d > x) + One(d > y) + One(d > z)
  BY DEF Elapsed
<1>3. Elapsed(s, d + 1) = One(d + 1 > x) + One(d + 1 > y) + One(d + 1 > z)
  BY DEF Elapsed
<1>4. Elapsed(s, 0) = One(0 > x) + One(0 > y) + One(0 > z)
  BY DEF Elapsed
<1>5. Quota(d) = One(d > 0) + One(d > 1) + One(d > 2)
  BY DEF Quota, Elapsed
<1> HIDE DEF s, x, y, z
<1>6. Elapsed(s, 0) = 0
  BY <1>1, <1>4 DEF One
<1>7. Elapsed(s, d) \in Nat
  BY <1>2 DEF One
<1>8. /\ One(d > x) <= One(d > 0)
      /\ One(d > y) <= One(d > 1)
      /\ One(d > z) <= One(d > 2)
  BY <1>1 DEF One
<1>9. Elapsed(s, d) <= Quota(d)
  BY <1>2, <1>5, <1>8 DEF One
<1>10. Elapsed(s, d + 1) = Elapsed(s, d) + One(d \in {x, y, z})
  <2>1. CASE d \notin {x, y, z}
    BY <1>1, <1>2, <1>3, <2>1 DEF One
  <2>2. CASE d = x
    BY <1>1, <1>2, <1>3, <2>2 DEF One
  <2>3. CASE d = y
    BY <1>1, <1>2, <1>3, <2>3 DEF One
  <2>4. CASE d = z
    BY <1>1, <1>2, <1>3, <2>4 DEF One
  <2> QED BY <2>1, <2>2, <2>3, <2>4
<1> QED BY <1>6, <1>7, <1>9, <1>10 DEF s, x, y, z

LEMMA ScheduledSlots ==
  ASSUME NEW arm \in ScheduledArms, NEW c \in OpeningConditions, NEW d \in Nat,
         NEW state, Scheduled(arm, c, d, state) # NoContact
  PROVE  LET s == Slots(arm, c) IN d \in {s[1], s[2], s[3]}
<1>1. A1(c, d, state) # NoContact => d \in {0, 3}
  BY DEF A1
<1>2. ASSUME A2(c, d, state) # NoContact
      PROVE  /\ c \in CardBrokenKeys => d \in {0, 5}
             /\ c = "ambiguous_decline" => d \in {0, 7}
             /\ c \notin CardBrokenKeys \cup {"ambiguous_decline"} => d \in {1, 5}
  BY <1>2 DEF A2, CardPromptOn, OpeningConditions, DeclineCodes, CardBrokenKeys
<1>3. ASSUME A2Corrected(c, d, state) # NoContact
      PROVE  /\ c \in CardBrokenKeys => d \in {0, 3}
             /\ c = "ambiguous_decline" => d \in {0, 7}
             /\ c \notin CardBrokenKeys \cup {"ambiguous_decline"} => d \in {1, 5}
  BY <1>2, <1>3 DEF A2Corrected, CardPromptOn, CardBrokenKeys
<1>4. ASSUME A2Strengthened(c, d, state) # NoContact
      PROVE  /\ c \in CardBrokenKeys => d \in {0, 3, 5}
             /\ c = "ambiguous_decline" => d \in {0, 7}
             /\ c \notin CardBrokenKeys \cup {"ambiguous_decline"} => d \in {1, 5}
  BY <1>3, <1>4 DEF A2Strengthened, CardPromptOn, CardBrokenKeys
<1>5. arm # "A0"
  BY DEF Scheduled
<1>6. CASE arm = "A1"
  BY <1>1, <1>6 DEF Scheduled, Slots
<1>7. CASE arm = "A2"
  BY <1>2, <1>7 DEF Scheduled, Slots
<1>8. CASE arm = "A2_CORRECTED_V1"
  BY <1>3, <1>8 DEF Scheduled, Slots
<1>9. CASE arm = "A2_STRENGTHENED"
  BY <1>4, <1>9 DEF Scheduled, Slots
<1> QED BY <1>5, <1>6, <1>7, <1>8, <1>9 DEF ScheduledArms

LEMMA ContentSlots ==
  ASSUME world \in WorldType, world.condition # Cancelled, day \in Nat,
         NEW arm \in Arms, NEW l, LaneInv(l, day),
         Prompts(OpeningEmail(world, l.ep, day), ContentOf(arm, l)),
         ContentOf(arm, l) # NoContact
  PROVE  LET s == Slots(arm, world.condition) IN day \in {s[1], s[2], s[3]}
<1> DEFINE opened  == OpeningEmail(world, l.ep, day)
           content == ContentOf(arm, l)
<1>1. world.condition \in OpeningConditions
  BY DEF WorldType
<1>2. CASE arm \in ScheduledArms
  <2>1. content = IF opened.contacts < MaxContacts
                  THEN Scheduled(arm, world.condition, day, opened.sub)
                  ELSE NoContact
    BY <1>2 DEF ContentOf, ScheduledArms
  <2> HIDE DEF opened
  <2>2. Scheduled(arm, world.condition, day, opened.sub) # NoContact
    BY <2>1
  <2> QED BY <1>1, <1>2, <2>2, ScheduledSlots
<1>3. CASE arm = "A4"
  <2> DEFINE lever == A4Content(world.condition, world.latent)
  <2>1. content = IF A4Sends(lever, opened, day) THEN lever ELSE NoContact
    BY <1>3 DEF ContentOf, ScheduledArms
  <2>2. day \in {0, 1, 2}
    BY <2>1 DEF A4Sends
  <2> QED BY <1>3, <2>2 DEF Slots
<1>4. CASE arm = "A3-D"
  <2> DEFINE view == AgentView(l, day)
             w == WithholdApplies(view)
  <2>1. content = RunnerContent(A3D(view), l)
    BY <1>4 DEF ContentOf, ScheduledArms
  <2>2. content \in AgentRemedies /\ opened.contacts < MaxContacts
    BY DEF Prompts
  <2>3. Underway(opened, l.halted) /\ l.halted \in BOOLEAN
    BY OpeningKeepsLane DEF LaneInv
  <2>4. A3D(view).action = "CONTACT"
    BY <2>1, <2>2, <2>3, AgentSends3D
  <2>5. view.decline = world.condition /\ view.day = day
    BY AgentSees DEF BuildView
  <2> HIDE DEF view, w, content
  <2>6. A3D(view) = Choice(view, w)
    BY A3DIsChoice DEF w
  <2>7. \/ day = 0
        \/ Decisive(view)
        \/ day = 5
    BY <2>4, <2>5, <2>6, ChoiceTimes
  <2> QED BY <1>4, <2>5, <2>7 DEF Decisive, Slots, CardBrokenKeys
<1> QED BY <1>2, <1>3, <1>4 DEF Arms

-----------------------------------------------------------------------------
(***************************************************************************)
(* The oracle against every arm: its episode is one the halt-day retry     *)
(* will recover as soon as another arm's invoice is recovered.             *)
(***************************************************************************)
Lever == A4Content(world.condition, world.latent)

HaltTime == HaltDay * TicksPerDay

\* The retry of the halt day recovers this episode, if no earlier one does.
Sure(o) ==
  \/ o.invoice
  \/ o.card /\ o.funds <= HaltTime /\ o.blocked <= HaltTime /\ o.mandate

\* The oracle has sent all the messages another arm can have sent, unless it is
\* done.
Spent(o, d) ==
  \/ o.invoice
  \/ Lever = NoContact
  \/ Lever = "card_change" /\ o.card
  \/ o.contacts >= Quota(d)
  \/ o.contacts >= MaxContacts

OracleInv(o, d) ==
  /\ Lever = "topup_reminder" => Served(o, d)
  /\ Lever = "card_change" => Mended(o)
  /\ Spent(o, d)

Under(x, o) ==
  /\ Lever = "topup_reminder" => o.invoice \/ o.funds <= x.funds
  /\ x.invoice => Sure(o)

Capped(arm, x, o, d) ==
  IF d <= HaltDay
  THEN Sparing(arm, x, d) /\ Traced(x) /\ Under(x, o)
  ELSE x.invoice => o.invoice

CeilingInv ==
  world.condition # Cancelled =>
    /\ day <= HaltDay => OracleInv(lanes["A4"].ep, day)
    /\ \A arm \in Arms : Capped(arm, lanes[arm].ep, lanes["A4"].ep, day)

LEMMA LatentCases ==
  ASSUME NEW c \in OpeningConditions, c # Cancelled, NEW latent \in LatentStates(c)
  PROVE  /\ latent.mandate
         /\ ~latent.card => latent.funds = 0 /\ latent.blocked = 0
         /\ latent.funds # 0 =>
              /\ c \in {"insufficient_funds", "ambiguous_decline"}
              /\ latent.blocked = 0
BY DEF LatentStates, Latent, OpeningConditions, DeclineCodes, CardBrokenKeys,
       Cancelled

\* What each of the three levers says of the latent state.
LEMMA LeverCases ==
  ASSUME world \in WorldType, world.condition # Cancelled,
         world.latent \in LatentStates(world.condition)
  PROVE  \/ /\ Lever = NoContact
            /\ world.latent.card /\ world.latent.funds <= HaltTime
         \/ /\ Lever = "card_change"
            /\ ~world.latent.card
            /\ world.latent.funds = 0 /\ world.latent.blocked = 0
         \/ /\ Lever = "topup_reminder"
            /\ world.latent.card /\ world.latent.blocked = 0
<1> DEFINE c == world.condition
           a == world.latent
<1>1. /\ c \in OpeningConditions
      /\ a.funds \in Nat /\ a.card \in BOOLEAN
  BY DEF WorldType, LatentType
<1>2. HaltTime \in Nat
  BY WorldAssumption DEF HaltTime
<1>3. /\ ~a.card => a.funds = 0 /\ a.blocked = 0
      /\ a.funds # 0 => /\ c \in {"insufficient_funds", "ambiguous_decline"}
                        /\ a.blocked = 0
  BY <1>1, LatentCases
<1>4. Lever = IF ~a.card THEN "card_change"
              ELSE IF /\ ~(a.funds <= HaltTime /\ a.blocked <= HaltTime)
                      /\ c \in {"insufficient_funds", "ambiguous_decline"}
                      /\ a.funds > HaltTime
                   THEN "topup_reminder" ELSE NoContact
  BY DEF Lever, A4Content, HaltTime
<1> HIDE DEF a, c
<1>5. CASE ~a.card
  BY <1>3, <1>4, <1>5 DEF a
<1>6. CASE a.card /\ a.funds > HaltTime
  <2>1. a.funds # 0 /\ ~(a.funds <= HaltTime)
    BY <1>1, <1>2, <1>6
  <2>2. Lever = "topup_reminder" /\ a.blocked = 0
    BY <1>3, <1>4, <1>6, <2>1
  <2> QED BY <1>6, <2>2 DEF a
<1>7. CASE a.card /\ ~(a.funds > HaltTime)
  <2>1. a.funds <= HaltTime
    BY <1>1, <1>2, <1>7
  <2>2. Lever = NoContact
    BY <1>4, <1>7
  <2> QED BY <1>7, <2>1, <2>2 DEF a
<1> QED BY <1>1, <1>5, <1>6, <1>7

\* The oracle's day keeps its episode in step with the draws.
LEMMA OracleDay ==
  ASSUME world \in WorldType, day \in Nat, day <= HaltDay,
         NEW l, LaneInv(l, day), OracleInv(l.ep, day),
         DayOutcome(l, LaneDay("A4", l), ContentOf("A4", l)),
         TracedDay(l, LaneDay("A4", l), ContentOf("A4", l))
  PROVE  OracleInv(Contacted(world, OpeningEmail(world, l.ep, day), day,
                             ContentOf("A4", l)), day + 1)
<1> DEFINE e == l.ep
           opened  == OpeningEmail(world, e, day)
           content == ContentOf("A4", l)
           c == Contacted(world, opened, day, content)
<1>1. content = IF A4Sends(Lever, opened, day) THEN Lever ELSE NoContact
  BY DEF ContentOf, ScheduledArms, Lever
<1>2. /\ c \in EpisodeState
      /\ opened.invoice = e.invoice /\ c.invoice = e.invoice
      /\ opened.card => c.card
  BY DEF DayOutcome, Underway, Improves
<1>3. /\ c.contacts = e.contacts + One(content # NoContact)
      /\ content # "card_change" /\ Served(e, day) => Served(c, day)
      /\ content # "topup_reminder" /\ Mended(e) => Mended(c)
      /\ e.card => c.card
  BY DEF TracedDay
<1>4. e.contacts \in Nat /\ MaxContacts \in Nat /\ e.contacts <= MaxContacts
  BY WorldAssumption DEF LaneInv, Counted, EpisodeState
<1>5. opened.contacts = e.contacts
  <2>1. c.contacts = IF content = NoContact THEN opened.contacts
                     ELSE opened.contacts + 1
    BY DEF DayOutcome
  <2>2. opened.contacts \in Nat
    BY DEF DayOutcome, Underway, EpisodeState
  <2> HIDE DEF c, opened, content, e
  <2> QED BY <1>3, <1>4, <2>1, <2>2 DEF One
<1> HIDE DEF c, opened, content
<1>6. Lever = "topup_reminder" => Served(c, day + 1)
  <2> SUFFICES ASSUME Lever = "topup_reminder" PROVE Served(c, day + 1)
    OBVIOUS
  <2>1. Served(c, day)
    BY <1>1, <1>3 DEF OracleInv, NoContact
  <2>2. ASSUME NEW j \in 0..(c.topups - 1), world.topup[j] > 0
        PROVE  c.funds <= (day + 1) * TicksPerDay + world.topup[j]
    <3>1. c.topups \in Nat /\ c.funds \in Nat
      BY <1>2 DEF EpisodeState
    <3>2. c.topups <= MaxContacts + 1
      <4>1. c.topups <= Len(c.history)
        BY DEF DayOutcome, Underway, Counted, c, opened, content
      <4>2. /\ Len(c.history) = c.contacts + 1
            /\ c.contacts <= MaxContacts
        BY DEF TracedDay, c, opened, content
      <4>3. c.contacts \in Nat
        BY <1>2 DEF EpisodeState
      <4> QED BY <1>4, <3>1, <4>1, <4>2, <4>3
    <3>3. j \in MessageIndexes
      BY <1>4, <2>2, <3>1, <3>2 DEF MessageIndexes
    <3>4. world.topup \in [MessageIndexes -> {0} \cup AccelDelays]
      BY DEF WorldType
    <3>5. world.topup[j] \in Nat
      <4>1. world.topup[j] \in {0} \cup AccelDelays
        BY <3>3, <3>4
      <4>2. {0} \cup AccelDelays \subseteq Nat
        BY WorldAssumption
      <4> QED BY <4>1, <4>2
    <3>6. c.funds <= day * TicksPerDay + world.topup[j]
      BY <2>1, <2>2 DEF Served
    <3>7. /\ day * TicksPerDay \in Nat
          /\ (day + 1) * TicksPerDay \in Nat
          /\ day * TicksPerDay <= (day + 1) * TicksPerDay
      BY WorldAssumption
    <3> QED BY <3>1, <3>5, <3>6, <3>7
  <2> QED BY <2>1, <2>2 DEF Served
<1>7. Lever = "card_change" => Mended(c)
  BY <1>1, <1>3 DEF OracleInv, NoContact
<1>8. Spent(c, day + 1)
  <2>1. Spent(e, day)
    BY DEF OracleInv
  <2>2. /\ Quota(day) \in Nat
        /\ Quota(day + 1) = Quota(day) + One(day \in {0, 1, 2})
    <3>1. Slots("A4", world.condition) = <<0, 1, 2>>
      BY DEF Slots
    <3> QED BY <3>1, SlotsPass DEF Quota
  <2>3. CASE content # NoContact
    <3>1. c.contacts = e.contacts + 1
      BY <1>3, <2>3 DEF One
    <3>2. One(day \in {0, 1, 2}) \in {0, 1}
      BY DEF One
    <3>3. /\ Lever # NoContact
          /\ ~e.invoice
          /\ Lever = "card_change" => ~opened.card
          /\ e.contacts < MaxContacts
      BY <1>1, <1>2, <1>5, <2>3 DEF A4Sends
    <3>4. e.contacts >= Quota(day) \/ (Lever = "card_change" /\ e.card)
      BY <1>4, <2>1, <3>3 DEF Spent
    <3>5. CASE e.contacts >= Quota(day)
      <4>1. c.contacts >= Quota(day + 1)
        BY <1>4, <2>2, <3>1, <3>2, <3>5
      <4> QED BY <4>1 DEF Spent
    <3>6. CASE Lever = "card_change" /\ e.card
      BY <1>3, <3>6 DEF Spent
    <3> QED BY <3>4, <3>5, <3>6
  <2>4. CASE content = NoContact
    <3>1. c.contacts = e.contacts
      BY <1>3, <1>4, <2>4 DEF One
    <3>2. CASE day \in {0, 1, 2}
      <4>1. Lever = NoContact \/ ~A4Sends(Lever, opened, day)
        BY <1>1, <2>4
      <4>2. \/ Lever = NoContact
            \/ ~(e.contacts < MaxContacts)
            \/ e.invoice
            \/ Lever = "card_change" /\ opened.card
        BY <1>2, <1>5, <3>2, <4>1 DEF A4Sends
      <4>3. ~(e.contacts < MaxContacts) => c.contacts >= MaxContacts
        BY <1>4, <3>1
      <4> QED BY <1>2, <4>2, <4>3 DEF Spent
    <3>3. CASE day \notin {0, 1, 2}
      <4>1. Quota(day + 1) = Quota(day)
        BY <2>2, <3>3 DEF One
      <4> QED BY <1>2, <1>3, <2>1, <3>1, <4>1 DEF Spent
    <3> QED BY <3>2, <3>3
  <2> QED BY <2>3, <2>4
<1> QED BY <1>6, <1>7, <1>8 DEF OracleInv, c, opened, content, e

\* When an arm's retry succeeds on day d, the oracle's of the halt day would.
LEMMA SureByRetry ==
  ASSUME world \in WorldType, world.condition # Cancelled,
         world.latent \in LatentStates(world.condition),
         NEW x \in EpisodeState, NEW o \in EpisodeState,
         NEW d \in Nat, d <= HaltDay,
         Traced(x), Traced(o), Mended(o) \/ Lever # "card_change",
         Lever = "topup_reminder" => o.invoice \/ o.funds <= x.funds,
         \/ Len(x.history) <= Len(o.history)
         \/ o.invoice
         \/ Lever = NoContact
         \/ Lever = "card_change" /\ o.card,
         RetrySucceeds(x, d)
  PROVE  Sure(o)
<1> DEFINE a == world.latent
           m == Len(x.history)
           n == Len(o.history)
<1>1. /\ HaltTime \in Nat /\ d * TicksPerDay \in Nat
      /\ d * TicksPerDay <= HaltTime
  BY WorldAssumption DEF HaltTime
<1>2. /\ x.funds \in Nat /\ o.funds \in Nat /\ x.blocked \in Nat
      /\ m \in Nat /\ n \in Nat
  BY LenProperties DEF EpisodeState
<1>3. /\ x.card /\ x.mandate
      /\ x.funds <= d * TicksPerDay /\ x.blocked <= d * TicksPerDay
  BY <1>1, <1>2 DEF RetrySucceeds
<1>4. x.funds <= HaltTime /\ x.blocked <= HaltTime
  BY <1>1, <1>2, <1>3
<1>5. o.mandate /\ o.blocked <= HaltTime
  BY <1>3, <1>4 DEF Traced
<1>6. o.funds <= a.funds /\ a.funds \in Nat
  BY DEF Traced, WorldType, LatentType
<1> HIDE DEF EpisodeState
<1>7. CASE Lever = NoContact /\ a.card /\ a.funds <= HaltTime
  <2>1. o.funds <= HaltTime
    BY <1>1, <1>2, <1>6, <1>7
  <2>2. o.card
    BY <1>7 DEF Traced
  <2> QED BY <1>5, <2>1, <2>2 DEF Sure
<1>8. CASE Lever = "card_change" /\ ~a.card /\ a.funds = 0
  <2>1. o.funds <= HaltTime
    BY <1>1, <1>2, <1>6, <1>8
  <2>2. o.invoice \/ o.card
    <3>1. CASE o.invoice \/ (Lever = "card_change" /\ o.card)
      BY <3>1
    <3>2. CASE m <= n
      <4>1. RepairedBy(m)
        BY <1>3, <1>8 DEF Traced
      <4>2. m \in 0..n
        BY <1>2, <3>2
      <4>3. RepairedBy(n)
        BY <1>2, <4>1, <4>2, HeardGrows
      <4> QED BY <1>8, <4>3 DEF Mended
    <3> QED BY <1>8, <3>1, <3>2 DEF NoContact
  <2> QED BY <1>5, <2>1, <2>2 DEF Sure
<1>9. CASE Lever = "topup_reminder" /\ a.card
  <2>1. o.invoice \/ o.funds <= HaltTime
    BY <1>1, <1>2, <1>4, <1>9
  <2>2. o.card
    BY <1>9 DEF Traced
  <2> QED BY <1>5, <2>1, <2>2 DEF Sure
<1> QED BY <1>7, <1>8, <1>9, LeverCases

\* Nothing the oracle does afterwards takes away what is sure.
LEMMA StaysSure ==
  ASSUME world \in WorldType, NEW e \in EpisodeState, NEW o \in EpisodeState,
         Sure(e), Traced(e), Traced(o), e.invoice => o.invoice,
         e.card => o.card, o.funds <= e.funds
  PROVE  Sure(o)
<1>1. HaltTime \in Nat /\ e.funds \in Nat /\ o.funds \in Nat
  BY WorldAssumption DEF HaltTime, EpisodeState
<1>2. e.funds <= HaltTime => o.funds <= HaltTime
  BY <1>1
<1>3. o.blocked = e.blocked /\ o.mandate = e.mandate
  BY DEF Traced
<1> QED BY <1>2, <1>3 DEF Sure

\* The top-ups of another arm have all been drawn by the oracle, and no later.
LEMMA FundsUnder ==
  ASSUME world \in WorldType, day \in Nat,
         NEW e \in EpisodeState, NEW x \in EpisodeState,
         NEW f \in EpisodeState, NEW o \in EpisodeState,
         e.funds <= f.funds, o.funds <= e.funds, Takes(f, x, day),
         Traced(x), Served(o, day), Len(x.history) <= Len(o.history),
         x.topups <= MaxContacts + 1
  PROVE  o.funds <= x.funds
<1>1. /\ e.funds \in Nat /\ f.funds \in Nat /\ o.funds \in Nat /\ x.funds \in Nat
      /\ x.topups \in Nat /\ o.topups \in Nat
      /\ Len(x.history) \in Nat /\ Len(o.history) \in Nat
  BY LenProperties DEF EpisodeState
<1> HIDE DEF EpisodeState
<1>2. CASE x.funds = f.funds
  BY <1>1, <1>2
<1>3. CASE \E j \in 0..(x.topups - 1) : /\ world.topup[j] > 0
                                        /\ x.funds = day * TicksPerDay + world.topup[j]
  <2>1. PICK j \in 0..(x.topups - 1) :
          /\ world.topup[j] > 0
          /\ x.funds = day * TicksPerDay + world.topup[j]
    BY <1>3
  <2>2. x.topups <= o.topups
    <3> DEFINE p == Cardinality(Heard(Len(x.history)))
               q == Cardinality(Heard(Len(o.history)))
    <3>1. p \in Nat /\ q \in Nat
      BY <1>1, HeardGrows
    <3>2. Len(x.history) \in 0..Len(o.history)
      BY <1>1
    <3>3. p <= q
      BY <1>1, <3>2, HeardGrows
    <3>4. x.topups <= p /\ o.topups = q
      BY DEF Traced, Served
    <3> HIDE DEF p, q
    <3> QED BY <1>1, <3>1, <3>3, <3>4
  <2>3. j \in 0..(o.topups - 1)
    BY <1>1, <2>1, <2>2
  <2>4. o.funds <= day * TicksPerDay + world.topup[j]
    BY <2>1, <2>3 DEF Served
  <2> QED BY <2>1, <2>4
<1> QED BY <1>2, <1>3 DEF Takes

\* One day of the oracle and of another arm, until the halt.
LEMMA CappedDay ==
  ASSUME HaltDay \in RetryDays,
         world \in WorldType, world.condition # Cancelled,
         world.latent \in LatentStates(world.condition),
         day \in Nat, day <= HaltDay,
         NEW arm \in Arms, NEW x, LaneInv(x, day), NEW z,
         OneDay(x, z, ContentOf(arm, x)),
         NEW a, LaneInv(a, day), OneDay(a, LaneDay("A4", a), ContentOf("A4", a)),
         OracleInv(a.ep, day),
         Capped(arm, x.ep, a.ep, day), Capped("A4", a.ep, a.ep, day)
  PROVE  LET o == LaneDay("A4", a)
         IN /\ Capped(arm, z.ep, o.ep, day + 1)
            /\ day + 1 <= HaltDay => OracleInv(o.ep, day + 1)
<1> DEFINE o  == LaneDay("A4", a)
           cx == Contacted(world, OpeningEmail(world, x.ep, day), day,
                           ContentOf(arm, x))
           co == Contacted(world, OpeningEmail(world, a.ep, day), day,
                           ContentOf("A4", a))
           content == ContentOf(arm, x)
<1>1. /\ Sparing(arm, x.ep, day) /\ Traced(x.ep) /\ Under(x.ep, a.ep)
      /\ Sparing("A4", a.ep, day) /\ Traced(a.ep)
  BY DEF Capped
<1>2. x.ep \in EpisodeState /\ a.ep \in EpisodeState
  BY DEF LaneInv
<1>3. day = 0 => x.ep.contacts = 0 /\ a.ep.contacts = 0
  <2> SUFFICES ASSUME day = 0 PROVE x.ep.contacts = 0 /\ a.ep.contacts = 0
    OBVIOUS
  <2>1. x.ep.contacts <= 0
    BY <1>1, SlotsPass DEF Sparing
  <2>2. a.ep.contacts <= 0
    BY <1>1, SlotsPass DEF Sparing
  <2>3. x.ep.contacts \in Nat /\ a.ep.contacts \in Nat
    BY <1>2 DEF EpisodeState
  <2> QED BY <2>1, <2>2, <2>3
<1>4. TracedDay(x, z, content)
  BY <1>3, DayTraced
<1>5. TracedDay(a, o, ContentOf("A4", a))
  BY <1>3, DayTraced
<1>6. DayOutcome(x, z, content) /\ DayOutcome(a, o, ContentOf("A4", a))
  BY DayKeepsLane
<1>7. OracleInv(co, day + 1)
  BY <1>5, <1>6, OracleDay
<1>8. /\ cx \in EpisodeState /\ co \in EpisodeState
      /\ Len(cx.history) = cx.contacts + 1 /\ Len(co.history) = co.contacts + 1
      /\ cx.contacts <= MaxContacts
      /\ cx.contacts = x.ep.contacts + One(content # NoContact)
      /\ cx.invoice = x.ep.invoice /\ co.invoice = a.ep.invoice
      /\ a.ep.card => co.card
      /\ Traced(cx) /\ Traced(co)
      /\ Takes(x.ep, cx, day) /\ Takes(a.ep, co, day)
      /\ z.ep.invoice <=> cx.invoice \/ (day \in RetryDays /\ RetrySucceeds(cx, day))
      /\ o.ep.invoice <=> co.invoice \/ (day \in RetryDays /\ RetrySucceeds(co, day))
  BY <1>1, <1>4, <1>5 DEF TracedDay
<1>9. ASSUME day < HaltDay
      PROVE  /\ z.ep.funds = cx.funds /\ z.ep.contacts = cx.contacts
             /\ z.ep.card = cx.card
             /\ z.ep.blocked = cx.blocked /\ z.ep.mandate = cx.mandate
             /\ z.ep.topups = cx.topups /\ z.ep.history = cx.history
             /\ o.ep.card = co.card /\ o.ep.funds = co.funds
             /\ o.ep.blocked = co.blocked /\ o.ep.mandate = co.mandate
             /\ o.ep.topups = co.topups /\ o.ep.contacts = co.contacts
             /\ o.ep.history = co.history
  BY <1>4, <1>5, <1>9 DEF TracedDay
<1>10. content # NoContact =>
         LET s == Slots(arm, world.condition) IN day \in {s[1], s[2], s[3]}
  BY <1>6, ContentSlots DEF DayOutcome
<1>11. cx.topups <= MaxContacts + 1
  <2>1. cx.topups <= Len(cx.history)
    BY <1>6 DEF DayOutcome, Underway, Counted
  <2>2. cx.topups \in Nat /\ cx.contacts \in Nat /\ MaxContacts \in Nat
    BY <1>8, WorldAssumption DEF EpisodeState
  <2> HIDE DEF cx
  <2> QED BY <1>8, <2>1, <2>2
<1> HIDE DEF o, cx, co, content
<1>12. Sparing(arm, cx, day + 1)
  <2> DEFINE s == Slots(arm, world.condition)
             p == Elapsed(s, day)
             q == Elapsed(s, day + 1)
             hit == day \in {s[1], s[2], s[3]}
  <2>1. p \in Nat /\ q = p + One(hit)
    BY SlotsPass
  <2>2. x.ep.contacts <= p /\ x.ep.contacts \in Nat
    BY <1>1, <1>2 DEF Sparing, EpisodeState
  <2>3. One(content # NoContact) <= One(hit)
    BY <1>10 DEF One
  <2>4. One(content # NoContact) \in Nat /\ One(hit) \in Nat
    BY DEF One
  <2> HIDE DEF p, q, hit
  <2>5. cx.contacts <= q
    BY <1>8, <2>1, <2>2, <2>3, <2>4
  <2> QED BY <2>5 DEF Sparing, q, s
<1>13. \/ Len(cx.history) <= Len(co.history)
       \/ co.invoice
       \/ Lever = NoContact
       \/ Lever = "card_change" /\ co.card
  <2>1. Spent(co, day + 1)
    BY <1>7 DEF OracleInv
  <2>2. cx.contacts \in Nat /\ co.contacts \in Nat /\ MaxContacts \in Nat
    BY <1>8, WorldAssumption DEF EpisodeState
  <2>3. /\ cx.contacts <= Quota(day + 1)
        /\ Quota(day + 1) \in Nat
    <3> DEFINE q == Elapsed(Slots(arm, world.condition), day + 1)
               t == Elapsed(Slots("A4", world.condition), day + 1)
    <3>1. q \in Nat /\ q <= Quota(day + 1)
      BY SlotsPass
    <3>2. t \in Nat /\ t = Quota(day + 1)
      BY SlotsPass DEF Slots, Quota
    <3>3. cx.contacts <= q
      BY <1>12 DEF Sparing
    <3> HIDE DEF q, t
    <3> QED BY <2>2, <3>1, <3>2, <3>3
  <2>4. co.contacts >= Quota(day + 1) \/ co.contacts >= MaxContacts
          => Len(cx.history) <= Len(co.history)
    BY <1>8, <2>2, <2>3
  <2> QED BY <2>1, <2>4 DEF Spent
<1>14. Lever = "topup_reminder" => co.invoice \/ co.funds <= cx.funds
  <2> SUFFICES ASSUME Lever = "topup_reminder", ~co.invoice
               PROVE  co.funds <= cx.funds
    OBVIOUS
  <2>1. Len(cx.history) <= Len(co.history)
    BY <1>13 DEF NoContact
  <2>2. a.ep.funds <= x.ep.funds /\ co.funds <= a.ep.funds
    BY <1>1, <1>8 DEF Under, Takes
  <2>3. ContentOf("A4", a) # "card_change"
    BY DEF ContentOf, ScheduledArms, Lever, NoContact
  <2>4. Served(a.ep, day)
    BY DEF OracleInv
  <2>5. Served(co, day)
    BY <1>5, <2>3, <2>4 DEF TracedDay, co
  <2> QED BY <1>2, <1>8, <1>11, <2>1, <2>2, <2>5, FundsUnder
<1>15. x.ep.invoice => Sure(co)
  BY <1>1, <1>2, <1>8, StaysSure DEF Under, Takes
<1>16. day \in RetryDays /\ RetrySucceeds(cx, day) => Sure(co)
  <2>1. Mended(co) \/ Lever # "card_change"
    BY <1>7 DEF OracleInv
  <2> QED BY <1>8, <1>13, <1>14, <2>1, SureByRetry
<1>17. z.ep.invoice => Sure(co)
  BY <1>8, <1>15, <1>16
<1>18. HaltDay \in Nat
  BY WorldAssumption
<1>19. CASE day < HaltDay
  <2>1. day + 1 <= HaltDay
    BY <1>18, <1>19
  <2>2. co.invoice => o.ep.invoice
    BY <1>8
  <2>3. OracleInv(o.ep, day + 1)
    BY <1>7, <1>9, <1>19, <2>2 DEF OracleInv, Served, Mended, Spent
  <2>4. Sparing(arm, z.ep, day + 1)
    BY <1>9, <1>12, <1>19 DEF Sparing
  <2>5. Traced(z.ep)
    BY <1>8, <1>9, <1>19 DEF Traced
  <2>6. Under(z.ep, o.ep)
    BY <1>9, <1>14, <1>17, <1>19, <2>2 DEF Under, Sure
  <2> QED BY <2>1, <2>3, <2>4, <2>5, <2>6 DEF Capped, o
<1>20. CASE ~(day < HaltDay)
  <2>1. day = HaltDay /\ ~(day + 1 <= HaltDay)
    BY <1>18, <1>20
  <2>2. Sure(co) => o.ep.invoice
    <3>1. ~co.invoice /\ Sure(co) => RetrySucceeds(co, day)
      <4>1. HaltTime = day * TicksPerDay /\ HaltTime \in Nat
        BY <2>1, WorldAssumption DEF HaltTime
      <4>2. co.funds \in Nat /\ co.blocked \in Nat
        BY <1>8 DEF EpisodeState
      <4> QED BY <4>1, <4>2 DEF Sure, RetrySucceeds
    <3> QED BY <1>8, <2>1, <3>1
  <2> QED BY <1>17, <2>1, <2>2 DEF Capped, o
<1> QED BY <1>19, <1>20 DEF o

LEMMA CeilingStep ==
  ASSUME HaltDay \in RetryDays
  PROVE  LanesInv /\ RescueInv /\ CeilingInv /\ [Next]_vars => CeilingInv'
<1>1. ASSUME LanesInv, RescueInv, CeilingInv, Day PROVE CeilingInv'
  <2> DEFINE a == lanes["A4"]
             o == lanes'["A4"]
  <2>1. "A4" \in Arms
    BY DEF Arms
  <2>2. /\ world \in WorldType
        /\ world.condition # Cancelled
        /\ day \in Nat
        /\ world' = world
        /\ day' = day + 1
        /\ LaneInv(a, day)
        /\ o = LaneDay("A4", a)
    BY <1>1, <2>1, DayMovesEveryLane DEF Day
  <2>3. world.latent \in LatentStates(world.condition)
    BY <1>1, <2>2 DEF RescueInv
  <2>4. /\ day <= HaltDay => OracleInv(a.ep, day)
        /\ \A arm \in Arms : Capped(arm, lanes[arm].ep, a.ep, day)
    BY <1>1, <2>2 DEF CeilingInv
  <2>5. /\ OneDay(a, o, ContentOf("A4", a))
        /\ DayOutcome(a, o, ContentOf("A4", a))
    BY <1>1, <2>1, <2>2, DayMovesEveryLane, OpeningKeepsLane, LaneDayParts
    DEF LaneInv
  <2>6. /\ HaltDay \in Nat
        /\ day + 1 <= HaltDay => day <= HaltDay
    BY <2>2, WorldAssumption
  <2>7. ASSUME NEW arm \in Arms
        PROVE  /\ Capped(arm, lanes'[arm].ep, o.ep, day + 1)
               /\ day + 1 <= HaltDay => OracleInv(o.ep, day + 1)
    <3> DEFINE x == lanes[arm]
               z == lanes'[arm]
    <3>1. LaneInv(x, day) /\ z = LaneDay(arm, x)
      BY <1>1, DayMovesEveryLane
    <3>2. /\ OneDay(x, z, ContentOf(arm, x))
          /\ DayOutcome(x, z, ContentOf(arm, x))
      BY <1>1, <2>2, <3>1, DayMovesEveryLane, OpeningKeepsLane, LaneDayParts
      DEF LaneInv
    <3>3. CASE day <= HaltDay
      <4>1. /\ Capped(arm, x.ep, a.ep, day)
            /\ Capped("A4", a.ep, a.ep, day)
            /\ OracleInv(a.ep, day)
        BY <2>1, <2>4, <3>3
      <4>2. OneDay(a, LaneDay("A4", a), ContentOf("A4", a))
        BY <2>2, <2>5
      <4> HIDE DEF a, x, z, o
      <4>3. /\ Capped(arm, z.ep, LaneDay("A4", a).ep, day + 1)
            /\ day + 1 <= HaltDay => OracleInv(LaneDay("A4", a).ep, day + 1)
        BY <2>2, <2>3, <3>1, <3>2, <3>3, <4>1, <4>2, CappedDay
      <4> QED BY <2>2, <4>3 DEF z
    <3>4. CASE ~(day <= HaltDay)
      <4>1. ~(day + 1 <= HaltDay) /\ day \notin RetryDays
        BY <2>2, <2>6, <3>4, WorldAssumption
      <4>2. x.ep.invoice => a.ep.invoice
        BY <2>4, <3>4 DEF Capped
      <4>3. z.ep.invoice <=> x.ep.invoice
        BY <3>2, <4>1 DEF DayOutcome
      <4>4. o.ep.invoice <=> a.ep.invoice
        BY <2>5, <4>1 DEF DayOutcome
      <4> QED BY <4>1, <4>2, <4>3, <4>4 DEF Capped
    <3> QED BY <3>3, <3>4
  <2>8. /\ day + 1 <= HaltDay => OracleInv(o.ep, day + 1)
        /\ \A arm \in Arms : Capped(arm, lanes'[arm].ep, o.ep, day + 1)
    BY <2>1, <2>7
  <2> HIDE DEF a, o
  <2> QED BY <2>2, <2>8
          DEF CeilingInv, Capped, OracleInv, Sparing, Traced, Under, Served,
              Mended, Spent, Sure, Lever, RepairedBy, Heard, Hits, o
<1>2. ASSUME CeilingInv, UNCHANGED vars PROVE CeilingInv'
  BY <1>2 DEF CeilingInv, vars, Capped, OracleInv, Sparing, Traced, Under,
              Served, Mended, Spent, Sure, Lever, RepairedBy, Heard, Hits
<1> QED BY <1>1, <1>2 DEF Next, Terminated

LEMMA InitCeilingInv == Init => CeilingInv
<1> SUFFICES ASSUME Init, world.condition # Cancelled PROVE CeilingInv
  BY DEF CeilingInv
<1> DEFINE e == Opening(world.condition, world.latent)
<1>1. world \in WorldType /\ world.latent \in LatentType
  BY InitLanesInv DEF LanesInv, WorldType
<1>2. /\ OpeningOf(world.condition, e)
      /\ e.card = world.latent.card /\ e.funds = world.latent.funds
      /\ e.blocked = world.latent.blocked /\ e.mandate = world.latent.mandate
      /\ e.invoice = FALSE
  BY <1>1, OpeningIsTyped DEF Opening
<1>3. ASSUME NEW arm \in Arms PROVE lanes[arm].ep = e
  BY DEF Init, Lane
<1>4. "A4" \in Arms
  BY DEF Arms
<1>5. day = 0 /\ 0 <= HaltDay
  BY WorldAssumption DEF Init
<1> HIDE DEF e
<1>6. Len(e.history) = 0 /\ e.topups = 0 /\ e.contacts = 0
  BY <1>2 DEF OpeningOf
<1>7. 0..(0 - 1) = {}
  OBVIOUS
<1>8. Heard(0) = {} /\ ~RepairedBy(0)
  BY <1>7 DEF Heard, RepairedBy
<1>9. Cardinality(Heard(0)) = 0
  BY <1>8, FS_EmptySet
<1>10. Traced(e)
  <2>1. e.funds <= world.latent.funds
    BY <1>1, <1>2 DEF LatentType
  <2> QED BY <1>2, <1>6, <1>9, <2>1 DEF Traced
<1>11. Served(e, 0)
  BY <1>6, <1>7, <1>9 DEF Served
<1>12. Mended(e)
  BY <1>6, <1>8 DEF Mended
<1>13. ASSUME NEW arm PROVE Sparing(arm, e, 0)
  BY <1>6, SlotsPass DEF Sparing
<1>14. Spent(e, 0)
  <2>1. Quota(0) = 0
    <3>1. Slots("A4", world.condition) = <<0, 1, 2>>
      BY DEF Slots
    <3> QED BY <3>1, SlotsPass DEF Quota
  <2> QED BY <1>6, <2>1 DEF Spent
<1>15. Under(e, e)
  <2>1. e.funds <= e.funds
    BY <1>1, <1>2 DEF LatentType
  <2> QED BY <1>2, <2>1 DEF Under
<1> QED BY <1>3, <1>4, <1>5, <1>10, <1>11, <1>12, <1>13, <1>14, <1>15
        DEF CeilingInv, Capped, OracleInv

LEMMA CeilingInvariant ==
  ASSUME HaltDay \in RetryDays
  PROVE  Spec => []CeilingInv
BY InitCeilingInv, CeilingStep, LanesInvariant, RescueInvariant, PTL DEF Spec

\* A4 is the ceiling of the invoice metric episode by episode, for every budget,
\* window, set of draws and retry schedule whose last retry is the halt day's, as
\* the oracle's own rule takes it to be: once the retries are over no arm has
\* recovered an invoice the oracle has not, those it gave up on included.
THEOREM OracleCapsEveryArm ==
  ASSUME HaltDay \in RetryDays
  PROVE  Spec => []OracleIsTheCeiling
<1>1. LanesInv /\ CeilingInv => OracleIsTheCeiling
  <2> SUFFICES ASSUME LanesInv, CeilingInv, day > HaltDay, NEW arm \in Arms,
                      Recovered(arm)
               PROVE  Recovered("A4")
    BY DEF OracleIsTheCeiling
  <2>1. CASE world.condition = Cancelled
    <3>1. OpeningOf(Cancelled, lanes[arm].ep)
      BY <2>1, CancelledLanes
    <3> QED BY <3>1 DEF OpeningOf, Recovered
  <2>2. CASE world.condition # Cancelled
    <3>1. Capped(arm, lanes[arm].ep, lanes["A4"].ep, day)
      BY <2>2 DEF CeilingInv
    <3>2. HaltDay \in Nat /\ day \in Int
      BY WorldAssumption, PairedAssumption DEF LanesInv
    <3>3. ~(day <= HaltDay)
      BY <3>2
    <3> QED BY <3>1, <3>3 DEF Capped, Recovered
  <2> QED BY <2>1, <2>2
<1> QED BY <1>1, CeilingInvariant, LanesInvariant, PTL

-----------------------------------------------------------------------------
(***************************************************************************)
(* The deficit.  What the table sends at any threshold, against what the   *)
(* schedules send: while no card is known to be broken every schedule can  *)
(* be matched, a broken card is prompted on the same days until restraint  *)
(* withholds a message, and what follows until the halt is silence.        *)
(***************************************************************************)
VariantContent(t, l) == RunnerContent(Variant(t, AgentView(l, day)), l)

LEMMA VariantParts ==
  ASSUME world \in WorldType, day \in Nat, NEW t, NEW l, LaneInv(l, day)
  PROVE  /\ OneDay(l, VariantDay(t, l), VariantContent(t, l))
         /\ DayOutcome(l, VariantDay(t, l), VariantContent(t, l))
<1>1. IsLane(l) /\ OpeningEmail(world, l.ep, day).contacts \in 0..MaxContacts
  BY OpeningKeepsLane DEF LaneInv
<1>2. OneDay(l, VariantDay(t, l), VariantContent(t, l))
  BY <1>1, RunnerDayParts DEF VariantDay, VariantContent
<1> QED BY <1>2, DayKeepsLane

\* What the table at a threshold sends, and when.
LEMMA VariantSends ==
  ASSUME world \in WorldType, world.condition # Cancelled, day \in Nat,
         NEW t, NEW l, LaneInv(l, day)
  PROVE  LET opened == OpeningEmail(world, l.ep, day)
             view   == AgentView(l, day)
             p      == Choice(view, WithholdsFrom(t, view))
         IN opened.contacts < MaxContacts =>
              VariantContent(t, l)
                = IF /\ Runner(l, opened, day)!TickType(opened) = "wakeup"
                     /\ p.action = "CONTACT"
                  THEN p.remedy ELSE NoContact
<1> DEFINE w == WithholdsFrom(t, AgentView(l, day))
<1>1. VariantContent(t, l) = RunnerContent(Choice(AgentView(l, day), w), l)
  BY VariantIsChoice DEF VariantContent
<1>2. Underway(OpeningEmail(world, l.ep, day), l.halted) /\ l.halted \in BOOLEAN
  BY OpeningKeepsLane DEF LaneInv
<1> HIDE DEF w
<1>3. LET opened == OpeningEmail(world, l.ep, day)
          view   == AgentView(l, day)
      IN opened.contacts < MaxContacts =>
           RunnerContent(Choice(view, w), l)
             = IF /\ Runner(l, opened, day)!TickType(opened) = "wakeup"
                  /\ Choice(view, w).action = "CONTACT"
               THEN Choice(view, w).remedy ELSE NoContact
  BY <1>2, TableSends
<1> QED BY <1>1, <1>3 DEF w

LEMMA VariantSpeaks ==
  ASSUME world \in WorldType, world.condition # Cancelled, day \in Nat,
         NEW t, NEW l, LaneInv(l, day), VariantContent(t, l) # NoContact
  PROVE  LET view == AgentView(l, day)
         IN /\ world.condition \in Contactable
            /\ \/ day = 0
               \/ day = 5
               \/ Decisive(view) /\ ~WithholdsFrom(t, view)
            /\ world.condition = "insufficient_funds" =>
                 VariantContent(t, l) = "topup_reminder"
            /\ world.condition \in CardBrokenKeys =>
                 VariantContent(t, l) = "card_change"
<1> DEFINE opened == OpeningEmail(world, l.ep, day)
           view   == AgentView(l, day)
           w      == WithholdsFrom(t, view)
           p      == Choice(view, w)
           content == VariantContent(t, l)
<1>1. view.day = day /\ view.decline = world.condition
  BY AgentSees DEF BuildView
<1>2. opened.contacts < MaxContacts
  BY VariantParts DEF OneDay, Prompts
<1>3. p.action = "CONTACT" /\ content = p.remedy
  BY <1>2, VariantSends
<1> HIDE DEF view, content, w
<1>4. /\ view.decline \in Contactable
      /\ \/ view.day = 0
         \/ Decisive(view) /\ ~w
         \/ /\ view.day = 5 /\ view.state = "halted"
            /\ view.decline # "insufficient_funds"
  BY <1>3, ChoiceTimes
<1>5. /\ view.decline = "insufficient_funds" => p.remedy = "topup_reminder"
      /\ view.decline \in CardBrokenKeys => p.remedy = "card_change"
  BY <1>3, ChoiceFits
<1> HIDE DEF p
<1> QED BY <1>1, <1>3, <1>4, <1>5 DEF view, content, w

LEMMA VariantOpens ==
  ASSUME world \in WorldType, world.condition \in Contactable, day = 0,
         NEW t, NEW l, LaneInv(l, day), Paced(l, day), MaxContacts # 0
  PROVE  VariantContent(t, l) = IF world.condition = "insufficient_funds"
                                THEN "topup_reminder" ELSE "card_change"
<1> DEFINE opened == OpeningEmail(world, l.ep, day)
           view   == AgentView(l, day)
           w      == WithholdsFrom(t, view)
           p      == Choice(view, w)
<1>1. /\ l.ep.contacts = 0 /\ l.ep.sub = "pending" /\ ~l.stopped
      /\ world.condition # Cancelled /\ day \in Nat
  BY DEF Paced, Contactable, CardBrokenKeys, Cancelled
<1>2. OneDay(l, VariantDay(t, l), VariantContent(t, l))
  BY <1>1, VariantParts
<1>3. opened.contacts = 0
  BY <1>1, <1>2, DaySpends
<1>4. opened.sub = "pending"
  <2>1. /\ Underway(opened, l.halted) /\ opened.invoice = l.ep.invoice
    BY <1>1, OpeningKeepsLane
  <2>2. ~l.ep.invoice /\ l.halted = FALSE
    BY <1>1, NothingCountedYet DEF LaneInv, Settled
  <2> HIDE DEF opened
  <2> QED BY <2>1, <2>2 DEF Underway, Settled
<1>5. MaxContacts \in Nat
  BY WorldAssumption
<1>6. Runner(l, opened, day)!TickType(opened) = "wakeup"
  <2>1. MaxContacts - opened.contacts # 0
    BY <1>3, <1>5
  <2> HIDE DEF opened
  <2> QED BY <1>1, <1>4, <2>1, FirstDayWakes
<1>7. view.day = day /\ view.decline = world.condition /\ view.state = opened.sub
  BY AgentSees DEF BuildView
<1>8. opened.contacts < MaxContacts
  BY <1>3, <1>5
<1>9. VariantContent(t, l) = IF p.action = "CONTACT" THEN p.remedy ELSE NoContact
  BY <1>1, <1>6, <1>8, VariantSends
<1> HIDE DEF view, w, opened
<1>10. CASE world.condition = "insufficient_funds"
  <2>1. p.action = "CONTACT"
    BY <1>4, <1>7, <1>10, ChoiceOpensDues
  <2>2. p.remedy = "topup_reminder"
    BY <1>7, <1>10, <2>1, ChoiceFits
  <2> QED BY <1>9, <1>10, <2>1, <2>2
<1>11. CASE world.condition # "insufficient_funds"
  <2>1. p.action = "CONTACT" /\ p.remedy = "card_change"
    BY <1>4, <1>7, <1>11, ChoiceOpens DEF Contactable
  <2> QED BY <1>9, <1>11, <2>1
<1> QED BY <1>10, <1>11

\* The second prompt of the table to a broken card that is not withheld.
LEMMA VariantPersists ==
  ASSUME world \in WorldType, world.condition \in CardBrokenKeys, day = 3,
         HaltDay >= 3, NEW t, NEW l, LaneInv(l, day), ~l.ep.invoice, ~l.stopped,
         l.ep.contacts < MaxContacts, ~WithholdsFrom(t, AgentView(l, day))
  PROVE  VariantContent(t, l) = "card_change"
<1> DEFINE opened == OpeningEmail(world, l.ep, day)
           view   == AgentView(l, day)
           w      == WithholdsFrom(t, view)
           p      == Choice(view, w)
<1>1. world.condition # Cancelled /\ day \in Nat
  BY DEF CardBrokenKeys, Cancelled
<1>2. opened = l.ep
  BY DEF OpeningEmail
<1>3. l.ep.sub = "pending"
  <2>1. ~(day > HaltDay) /\ HaltDay \in Nat
    BY WorldAssumption
  <2>2. l.halted = FALSE
    BY <2>1 DEF LaneInv
  <2> QED BY <2>2 DEF LaneInv, Settled
<1>4. MaxContacts - opened.contacts # 0
  BY <1>2, WorldAssumption DEF LaneInv, EpisodeState
<1>5. Runner(l, opened, day)!TickType(opened) = "wakeup"
  <2> HIDE DEF opened
  <2> QED BY <1>2, <1>3, <1>4
          DEF Runner!TickType, Runner!EpisodeOver, Runner!TerminalStates,
              Runner!Budget, Runner!WakeupDays
<1>6. view.day = day /\ view.decline = world.condition /\ view.state = opened.sub
  BY AgentSees DEF BuildView
<1>7. VariantContent(t, l) = IF p.action = "CONTACT" THEN p.remedy ELSE NoContact
  BY <1>1, <1>2, <1>5, VariantSends
<1> HIDE DEF view, w, opened
<1>8. p.action = "CONTACT" /\ p.remedy = "card_change"
  BY <1>2, <1>3, <1>6, ChoicePersists DEF w, view
<1> QED BY <1>7, <1>8

LEMMA LaneUpdated ==
  ASSUME NEW l, IsLane(l), NEW over, NEW seen, NEW written, NEW rejected
  PROVE  LET n == [l EXCEPT !.stopped = over, !.lastWake = seen,
                            !.records = written, !.rejectedBy = rejected]
         IN n.stopped = over /\ IsLane(n)
<1> DEFINE n == [l EXCEPT !.stopped = over, !.lastWake = seen,
                          !.records = written, !.rejectedBy = rejected]
<1>1. n = [l EXCEPT !.stopped = over, !.lastWake = seen,
                    !.records = written, !.rejectedBy = rejected]
  OBVIOUS
<1> HIDE DEF n
<1>2. IsLane(n) /\ n.stopped = over
  BY <1>1 DEF IsLane
<1> QED BY <1>2 DEF n

\* The table never stops an episode whose card may be broken.
LEMMA VariantKeepsOn ==
  ASSUME world \in WorldType, day \in Nat, NEW t, NEW l, LaneInv(l, day),
         world.condition \in CardBrokenKeys \cup {"ambiguous_decline"},
         ~l.stopped
  PROVE  ~VariantDay(t, l).stopped
<1> DEFINE opened == OpeningEmail(world, l.ep, day)
           wakes  == Runner(l, opened, day)!TickType(opened) = "wakeup"
           view   == AgentView(l, day)
           w      == WithholdsFrom(t, view)
           p      == Choice(view, w)
           survivor == Runner(l, opened, day)!Survivor(
                         Runner(l, opened, day)!Output(p, "none"), view)
           executed == IF wakes
                       THEN Runner(l, opened, day)!Executed(survivor, view)
                       ELSE "none"
<1>1. world.condition # Cancelled
  BY DEF CardBrokenKeys, Cancelled
<1>2. view.decline = world.condition /\ view.state = opened.sub
  BY AgentSees DEF BuildView
<1>3. executed # "STOP"
  <2> SUFFICES ASSUME wakes PROVE Runner(l, opened, day)!Executed(survivor, view) # "STOP"
    OBVIOUS
  <2>1. Accepts(p, view)
    <3> HIDE DEF w
    <3> QED BY <1>1, AnswersAreAccepted
  <2>2. Runner(l, opened, day)!Accepts(p, view)
    BY <2>1, GateIsTheRunners
  <2>3. survivor = p
    BY <2>2 DEF Runner!Survivor, Runner!Output
  <2>4. opened.sub # "active"
    <3> HIDE DEF opened
    <3> QED BY DEF Runner!TickType, Runner!EpisodeOver, Runner!TerminalStates
  <2>5. p.action # "STOP"
    <3> HIDE DEF view, w, opened
    <3> QED BY <1>2, <2>4, ChoiceStops
  <2> HIDE DEF p, view, survivor
  <2> QED BY <2>2, <2>3, <2>5 DEF Runner!Executed
<1>4. VariantDay(t, l).stopped = (l.stopped \/ executed = "STOP")
  <2>1. VariantDay(t, l) = RunnerDay(p, l, day)
    BY VariantIsChoice DEF VariantDay
  <2> HIDE DEF p
  <2>2. RunnerDay(p, l, day).stopped = (l.stopped \/ executed = "STOP")
    <3> DEFINE c == IF executed = "CONTACT" THEN survivor.remedy ELSE NoContact
               over == l.stopped \/ executed = "STOP"
               seen == IF wakes THEN Len(opened.history) ELSE l.lastWake
               written == l.records + 1
               rejected == IF wakes
                           THEN l.rejectedBy \cup ({RuleFired(p, view)} \ {NoRule})
                           ELSE l.rejectedBy
               woken == [l EXCEPT !.stopped = over, !.lastWake = seen,
                                  !.records = written, !.rejectedBy = rejected]
    <3>1. RunnerDay(p, l, day)
            = CloseDay(world, woken, Contacted(world, opened, day, c), day)
      BY DEF RunnerDay, Runner!Output
    <3>2. IsLane(l)
      BY DEF LaneInv
    <3> HIDE DEF executed, survivor, over, seen, written, rejected
    <3>3. woken.stopped = over /\ IsLane(woken)
      BY <3>2, LaneUpdated
    <3> HIDE DEF c, woken
    <3>4. CloseDay(world, woken, Contacted(world, opened, day, c), day).stopped
            = woken.stopped
      BY <3>3 DEF CloseDay, IsLane
    <3> QED BY <3>1, <3>3, <3>4 DEF over
  <2> QED BY <2>1, <2>2
<1> HIDE DEF executed
<1> QED BY <1>3, <1>4

\* Two thresholds that agree where restraint decides are one on that day.
LEMMA VariantsAgree ==
  ASSUME world \in WorldType, world.condition # Cancelled, day \in Nat,
         NEW l, LaneInv(l, day), NEW t, NEW u,
         LET view == AgentView(l, day)
         IN Decisive(view) => (WithholdsFrom(t, view) <=> WithholdsFrom(u, view))
  PROVE  VariantDay(t, l) = VariantDay(u, l)
<1> DEFINE opened == OpeningEmail(world, l.ep, day)
           view   == AgentView(l, day)
           w      == WithholdsFrom(t, view)
           v      == WithholdsFrom(u, view)
<1>1. ASSUME Runner(l, opened, day)!TickType(opened) = "wakeup"
      PROVE  /\ Accepts(Choice(view, w), view)
             /\ Accepts(Choice(view, v), view)
             /\ SameAct(Choice(view, w), Choice(view, v))
  <2>1. /\ Accepts(Choice(view, w), view)
        /\ Accepts(Choice(view, v), view)
    <3> HIDE DEF w, v
    <3> QED BY <1>1, AnswersAreAccepted
  <2>2. SameAct(Choice(view, w), Choice(view, v))
    <3>1. CASE Decisive(view)
      <4>1. w = v
        BY <3>1 DEF WithholdsFrom
      <4> QED BY <4>1 DEF SameAct
    <3>2. CASE ~Decisive(view)
      <4> HIDE DEF view, w, v
      <4> QED BY <3>2, RestraintIsLocal
    <3> QED BY <3>1, <3>2
  <2> QED BY <2>1, <2>2
<1>2. RunnerDay(Choice(view, w), l, day) = RunnerDay(Choice(view, v), l, day)
  <2> HIDE DEF w, v
  <2> QED BY <1>1, SameDay
<1> QED BY <1>2, VariantIsChoice DEF VariantDay

-----------------------------------------------------------------------------
\* Two lanes side by side: what a message never takes back, and what one day
\* makes of the order between them.
Kept(l, d) ==
  /\ Improves(l.ep, world.latent)
  /\ d = 0 => l.ep.contacts = 0

LEMMA KeptBy ==
  ASSUME world \in WorldType, NEW e \in EpisodeState, NEW f \in EpisodeState,
         Improves(f, e), Improves(e, world.latent)
  PROVE  Improves(f, world.latent)
<1>1. world.latent.funds \in Nat
  BY DEF WorldType, LatentType
<1>2. e.funds \in Nat /\ f.funds \in Nat
  BY DEF EpisodeState
<1>3. f.funds <= world.latent.funds
  BY <1>1, <1>2 DEF Improves
<1> QED BY <1>3 DEF Improves

LEMMA DayKept ==
  ASSUME world \in WorldType, day \in Nat, NEW l, LaneInv(l, day), Kept(l, day),
         NEW n, NEW content, OneDay(l, n, content)
  PROVE  LET c == Contacted(world, OpeningEmail(world, l.ep, day), day, content)
         IN /\ c \in EpisodeState
            /\ Improves(c, world.latent)
            /\ n.ep \in EpisodeState
            /\ Kept(n, day + 1)
<1> DEFINE opened == OpeningEmail(world, l.ep, day)
           c == Contacted(world, opened, day, content)
<1>1. /\ Underway(opened, l.halted) /\ Underway(c, l.halted)
      /\ Improves(c, opened) /\ Improves(n.ep, c)
      /\ LaneInv(n, day + 1)
  BY DayKeepsLane DEF DayOutcome
<1>2. Improves(opened, l.ep)
  BY OpeningKeepsLane
<1> HIDE DEF opened, c
<1>3. /\ l.ep \in EpisodeState /\ opened \in EpisodeState
      /\ c \in EpisodeState /\ n.ep \in EpisodeState
  BY <1>1 DEF LaneInv, Underway
<1>4. Improves(l.ep, world.latent)
  BY DEF Kept
<1>5. Improves(opened, world.latent)
  BY <1>2, <1>3, <1>4, KeptBy
<1>6. Improves(c, world.latent)
  BY <1>1, <1>3, <1>5, KeptBy
<1>7. Improves(n.ep, world.latent)
  BY <1>1, <1>3, <1>6, KeptBy
<1>8. day + 1 # 0
  OBVIOUS
<1> QED BY <1>3, <1>6, <1>7, <1>8 DEF Kept, c, opened

\* Where nothing is waited for and the card works, no lane is better off.
LEMMA NothingToImprove ==
  ASSUME world \in WorldType, NEW e \in EpisodeState, NEW f \in EpisodeState,
         world.latent.card, world.latent.funds = 0,
         Improves(e, world.latent), Improves(f, world.latent)
  PROVE  Improves(f, e)
<1>1. e.funds \in Nat /\ f.funds \in Nat
  BY DEF EpisodeState
<1>2. f.funds <= 0
  BY DEF Improves
<1>3. f.funds <= e.funds
  BY <1>1, <1>2
<1> QED BY <1>3 DEF Improves

\* A day keeps the order between two lanes.
LEMMA BetterDay ==
  ASSUME world \in WorldType, day \in Nat,
         NEW x, LaneInv(x, day), Kept(x, day), NEW u, NEW a, OneDay(x, u, a),
         NEW p, LaneInv(p, day), NEW v, NEW b, OneDay(p, v, b),
         x.ep.invoice => p.ep.invoice,
         day <= HaltDay =>
           Improves(Contacted(world, OpeningEmail(world, p.ep, day), day, b),
                    Contacted(world, OpeningEmail(world, x.ep, day), day, a))
  PROVE  /\ u.ep.invoice => v.ep.invoice
         /\ day < HaltDay => Improves(v.ep, u.ep)
<1> DEFINE cx == Contacted(world, OpeningEmail(world, x.ep, day), day, a)
           cp == Contacted(world, OpeningEmail(world, p.ep, day), day, b)
<1>1. /\ Underway(cx, x.halted)
      /\ cx.invoice = x.ep.invoice
      /\ u.ep.invoice <=> \/ cx.invoice
                          \/ /\ day \in RetryDays /\ ~x.halted
                             /\ RetrySucceeds(cx, day)
      /\ LaneInv(u, day + 1)
  BY DayKeepsLane DEF DayOutcome
<1>2. /\ Underway(cp, p.halted)
      /\ cp.invoice = p.ep.invoice
      /\ v.ep.invoice <=> \/ cp.invoice
                          \/ /\ day \in RetryDays /\ ~p.halted
                             /\ RetrySucceeds(cp, day)
      /\ LaneInv(v, day + 1)
      /\ Improves(v.ep, cp)
  BY DayKeepsLane DEF DayOutcome
<1>3. day <= HaltDay => Improves(cp, cx)
  OBVIOUS
<1>4. day <= HaltDay /\ day < HaltDay =>
        /\ u.ep.card = cx.card /\ u.ep.funds = cx.funds
        /\ u.ep.blocked = cx.blocked /\ u.ep.mandate = cx.mandate
  <2> SUFFICES ASSUME day <= HaltDay, day < HaltDay
               PROVE  /\ u.ep.card = cx.card /\ u.ep.funds = cx.funds
                      /\ u.ep.blocked = cx.blocked /\ u.ep.mandate = cx.mandate
    OBVIOUS
  <2>1. TracedDay(x, u, a)
    BY DayTraced DEF Kept
  <2> QED BY <2>1 DEF TracedDay
<1> HIDE DEF cx, cp
<1>5. cx \in EpisodeState /\ cp \in EpisodeState /\ v.ep \in EpisodeState
  BY <1>1, <1>2 DEF Underway, LaneInv
<1>6. HaltDay \in Nat /\ RetryDays \subseteq 0..HaltDay
  BY WorldAssumption
<1>7. u.ep.invoice => v.ep.invoice
  <2>1. ASSUME day \in RetryDays, RetrySucceeds(cx, day)
        PROVE  ~p.halted /\ RetrySucceeds(cp, day)
    <3>1. day <= HaltDay /\ ~(day > HaltDay)
      BY <1>6, <2>1
    <3>2. ~p.halted
      BY <3>1 DEF LaneInv
    <3> QED BY <1>3, <1>5, <2>1, <3>1, <3>2, RetryIsMonotone
  <2> QED BY <1>1, <1>2, <2>1
<1>8. ASSUME day < HaltDay PROVE Improves(v.ep, u.ep)
  <2>1. day <= HaltDay
    BY <1>6, <1>8
  <2>2. Improves(v.ep, cx)
    BY <1>2, <1>3, <1>5, <2>1, ImprovesIsTransitive
  <2> QED BY <1>4, <1>8, <2>1, <2>2 DEF Improves
<1> QED BY <1>7, <1>8

\* An arm whose messages A3-D's opening prompt can match: a card it cannot see
\* to be broken is not repaired by a second prompt.
Fair(arm) ==
  /\ world.condition \notin CardBrokenKeys
  /\ world.latent.card \/ arm # "A1"

Waits == world.condition \in {"insufficient_funds", "ambiguous_decline"}

\* The reminder an A2 schedule sends on day 1, a day after the table's.
Reminds(arm) == arm \in {"A2", "A2_CORRECTED_V1", "A2_STRENGTHENED"}

ReminderDue(arm, e, d) ==
  /\ world.condition = "insufficient_funds" /\ d = 1
  /\ Reminds(arm) /\ e.contacts < MaxContacts

Reminded(arm, e, d) ==
  IF ReminderDue(arm, e, d)
  THEN SendContact(world.condition, e, d, "topup_reminder",
                   DrawFor(world, e, "topup_reminder"))
  ELSE e

\* The lane y of a schedule and the lane p of the table, at any threshold.
Matched(arm, y, p, d) ==
  /\ y.ep.invoice => p.ep.invoice
  /\ d = 0 => p.ep = y.ep
  /\ Waits /\ d \in 1..HaltDay => Improves(p.ep, Reminded(arm, y.ep, d))

LEMMA WaitingSchedule ==
  ASSUME NEW d, NEW state
  PROVE  /\ A2("insufficient_funds", d, state)
              = IF d = 1 THEN "topup_reminder" ELSE NoContact
         /\ A2("ambiguous_decline", d, state) = CardPromptOn({0, 7}, d)
BY DEF A2, CardBrokenKeys, Cancelled

LEMMA MatchedContent ==
  ASSUME world \in WorldType, world.latent \in LatentStates(world.condition),
         Waits, NEW arm \in ScheduledArms, Fair(arm), NEW d \in 0..4, NEW state
  PROVE  LET s == Scheduled(arm, world.condition, d, state)
         IN \/ /\ s = "topup_reminder"
               /\ d = 1 /\ world.condition = "insufficient_funds" /\ Reminds(arm)
            \/ /\ s = NoContact
               /\ ~(d = 1 /\ world.condition = "insufficient_funds" /\ Reminds(arm))
            \/ /\ s = "card_change"
               /\ ~(d = 1 /\ world.condition = "insufficient_funds" /\ Reminds(arm))
               /\ \/ world.latent.card
                  \/ d = 0 /\ world.condition = "ambiguous_decline"
<1> DEFINE s == Scheduled(arm, world.condition, d, state)
           due == d = 1 /\ world.condition = "insufficient_funds" /\ Reminds(arm)
<1>1. world.condition = "insufficient_funds" => world.latent.card
  <2>1. world.condition \in OpeningConditions
    BY DEF WorldType
  <2> QED BY <2>1, BrokenConditions DEF CardBrokenKeys
<1>2. CASE arm = "A0"
  BY <1>2 DEF Scheduled, Reminds
<1>3. CASE arm = "A1"
  BY <1>3 DEF Scheduled, Reminds, A1, NoContact, Fair
<1>4. CASE arm \in {"A2", "A2_CORRECTED_V1", "A2_STRENGTHENED"}
  <2>1. s = A2(world.condition, d, state)
    <3>1. world.condition \notin CardBrokenKeys \cup
            {"bank_technical_error", "transaction_limit_exceeded"}
      BY DEF Waits, CardBrokenKeys
    <3>2. A2Corrected(world.condition, d, state) = A2(world.condition, d, state)
      BY <3>1 DEF A2Corrected
    <3>3. A2Strengthened(world.condition, d, state) = A2(world.condition, d, state)
      BY <3>1, <3>2 DEF A2Strengthened
    <3> QED BY <1>4, <3>2, <3>3 DEF Scheduled
  <2>2. CASE world.condition = "insufficient_funds"
    <3> HIDE DEF s
    <3>2. s = IF d = 1 THEN "topup_reminder" ELSE NoContact
      <4>1. A2("insufficient_funds", d, state)
              = IF d = 1 THEN "topup_reminder" ELSE NoContact
        BY WaitingSchedule
      <4>2. A2(world.condition, d, state) = A2("insufficient_funds", d, state)
        BY <2>2
      <4> QED BY <2>1, <4>1, <4>2
    <3> QED BY <1>4, <2>2, <3>2 DEF Reminds, s
  <2>3. CASE world.condition = "ambiguous_decline"
    <3> HIDE DEF s
    <3>2. s = IF d \in {0, 7} THEN "card_change" ELSE NoContact
      <4>1. A2("ambiguous_decline", d, state) = CardPromptOn({0, 7}, d)
        BY WaitingSchedule
      <4>2. A2(world.condition, d, state) = A2("ambiguous_decline", d, state)
        BY <2>3
      <4> QED BY <2>1, <4>1, <4>2 DEF CardPromptOn
    <3> QED BY <2>3, <3>2 DEF s
  <2> QED BY <2>2, <2>3 DEF Waits
<1> QED BY <1>2, <1>3, <1>4 DEF ScheduledArms

\* A prompt that names no dues moves no funds.
LEMMA CardPromptMovesNoFunds ==
  ASSUME world \in WorldType, day \in Nat, day <= HaltDay, NEW e, NEW h,
         h = FALSE, Underway(e, h), Prompts(e, "card_change")
  PROVE  Contacted(world, e, day, "card_change").funds = e.funds
<1>1. e \in EpisodeState /\ Counted(e, 1)
  BY DEF Underway, One
<1>2. e.contacts < MaxContacts
  BY DEF Prompts, NoContact
<1>3. Delivered(e, Contacted(world, e, day, "card_change"), day, "card_change")
  BY <1>1, <1>2, ContactDelivered DEF Contacted, NoContact, AgentRemedies
<1> QED BY <1>3 DEF Delivered, NamesDues, AutoEmail

LEMMA MatchedOpening ==
  ASSUME HaltDay \in {3, 4}, world \in WorldType, Waits, day = 0,
         world.latent \in LatentStates(world.condition),
         NEW arm \in ScheduledArms, Fair(arm), NEW t,
         NEW y, LaneInv(y, day), Kept(y, day),
         NEW p, LaneInv(p, day), Kept(p, day), Paced(p, day), p.ep = y.ep
  PROVE  LET opened == OpeningEmail(world, p.ep, day)
         IN Improves(Contacted(world, opened, day, VariantContent(t, p)),
                     Contacted(world, opened, day, ContentOf(arm, y)))
<1> DEFINE opened == OpeningEmail(world, p.ep, day)
           a  == ContentOf(arm, y)
           b  == VariantContent(t, p)
           cy == Contacted(world, opened, day, a)
           cp == Contacted(world, opened, day, b)
<1>1. /\ day \in Nat
      /\ world.condition \in Contactable
      /\ world.condition # Cancelled
      /\ arm \in Arms
      /\ HaltDay \in Nat
  BY DEF Waits, Contactable, Cancelled, Arms
<1>2. IsLane(y) /\ OpeningEmail(world, y.ep, day).contacts \in 0..MaxContacts
  BY <1>1, OpeningKeepsLane DEF LaneInv
<1>3. OneDay(y, LaneDay(arm, y), a)
  BY <1>1, <1>2, LaneDayParts
<1>4. OneDay(p, VariantDay(t, p), b)
  BY <1>1, VariantParts
<1>5. cy \in EpisodeState /\ Improves(cy, world.latent)
  BY <1>1, <1>3, DayKept
<1>6. cp \in EpisodeState /\ Improves(cp, world.latent)
  BY <1>1, <1>4, DayKept
<1>7. /\ Prompts(opened, a) /\ Prompts(opened, b)
      /\ Underway(opened, p.halted)
      /\ Improves(cp, opened)
  BY <1>1, <1>3, <1>4, DayKeepsLane DEF DayOutcome
<1>8. p.halted = FALSE
  BY <1>1 DEF LaneInv
<1>9. a = IF opened.contacts < MaxContacts
          THEN Scheduled(arm, world.condition, day, opened.sub) ELSE NoContact
  <2>1. OpeningEmail(world, y.ep, day) = opened
    OBVIOUS
  <2>2. a = LET op == OpeningEmail(world, y.ep, day)
            IN IF op.contacts < MaxContacts
               THEN Scheduled(arm, world.condition, day, op.sub) ELSE NoContact
    BY DEF ContentOf, ScheduledArms
  <2> HIDE DEF opened, a
  <2> QED BY <2>1, <2>2
<1>10. MaxContacts # 0 => b = IF world.condition = "insufficient_funds"
                              THEN "topup_reminder" ELSE "card_change"
  BY <1>1, VariantOpens
<1>11. opened.contacts \in 0..MaxContacts /\ MaxContacts \in Nat
  BY <1>1, OpeningKeepsLane, WorldAssumption
<1>12. \/ a = NoContact
       \/ a = b
       \/ a = "card_change" /\ world.latent.card
  <2>1. CASE opened.contacts < MaxContacts
    <3>1. MaxContacts # 0
      BY <1>11, <2>1
    <3>2. day \in 0..4
      OBVIOUS
    <3> DEFINE s == Scheduled(arm, world.condition, day, opened.sub)
    <3>3. \/ s = "topup_reminder" /\ day = 1
          \/ s = NoContact
          \/ /\ s = "card_change"
             /\ \/ world.latent.card
                \/ world.condition = "ambiguous_decline"
      BY <3>2, MatchedContent
    <3>4. a = s
      BY <1>9, <2>1
    <3> HIDE DEF s, a, b, opened
    <3> QED BY <1>10, <3>1, <3>3, <3>4
  <2>2. CASE ~(opened.contacts < MaxContacts)
    <3> HIDE DEF opened
    <3> QED BY <1>9, <2>2
  <2> QED BY <2>1, <2>2
<1>13. ASSUME a = NoContact PROVE Improves(cp, cy)
  <2>1. cy = opened
    BY <1>13 DEF Contacted
  <2> QED BY <1>7, <2>1
<1>14. ASSUME a = b PROVE Improves(cp, cy)
  <2>1. cy = cp
    BY <1>14
  <2>2. cp.funds \in Nat
    BY <1>6 DEF EpisodeState
  <2> HIDE DEF cy, cp
  <2> QED BY <2>1, <2>2 DEF Improves
<1>15. ASSUME a = "card_change" /\ world.latent.card PROVE Improves(cp, cy)
  <2>1. cy.funds = opened.funds
    <3>1. day <= HaltDay
      BY <1>1
    <3>2. Prompts(opened, "card_change")
      BY <1>7, <1>15
    <3>3. cy = Contacted(world, opened, day, "card_change")
      BY <1>15
    <3> HIDE DEF opened, cy
    <3> QED BY <1>1, <1>7, <1>8, <3>1, <3>2, <3>3, CardPromptMovesNoFunds
  <2> HIDE DEF cy, cp, opened
  <2> QED BY <1>5, <1>6, <1>7, <1>15, <2>1 DEF Improves
<1>16. Improves(cp, cy)
  BY <1>12, <1>13, <1>14, <1>15
<1> QED BY <1>16

LEMMA MatchedLater ==
  ASSUME HaltDay \in {3, 4}, world \in WorldType, Waits, day \in Nat, day # 0,
         day <= HaltDay, world.latent \in LatentStates(world.condition),
         NEW arm \in ScheduledArms, Fair(arm), NEW t,
         NEW y, LaneInv(y, day), Kept(y, day),
         NEW p, LaneInv(p, day), Kept(p, day), Matched(arm, y, p, day)
  PROVE  Improves(Contacted(world, OpeningEmail(world, p.ep, day), day,
                            VariantContent(t, p)),
                  Contacted(world, OpeningEmail(world, y.ep, day), day,
                            ContentOf(arm, y)))
<1> DEFINE oy == OpeningEmail(world, y.ep, day)
           op == OpeningEmail(world, p.ep, day)
           a  == ContentOf(arm, y)
           b  == VariantContent(t, p)
           cy == Contacted(world, oy, day, a)
           cp == Contacted(world, op, day, b)
           g  == Reminded(arm, y.ep, day)
<1>1. world.condition # Cancelled /\ arm \in Arms /\ day \in 0..4
  BY DEF Waits, Cancelled, Arms
<1>2. oy = y.ep /\ op = p.ep
  BY DEF OpeningEmail
<1>3. IsLane(y) /\ oy.contacts \in 0..MaxContacts
  BY OpeningKeepsLane DEF LaneInv
<1>4. OneDay(y, LaneDay(arm, y), a)
  BY <1>1, <1>3, LaneDayParts
<1>5. OneDay(p, VariantDay(t, p), b)
  BY <1>1, VariantParts
<1>6. cy \in EpisodeState /\ Improves(cy, world.latent)
  BY <1>4, DayKept
<1>7. cp \in EpisodeState /\ Improves(cp, world.latent)
  BY <1>5, DayKept
<1>8. Improves(cp, op) /\ Prompts(oy, a) /\ Underway(oy, y.halted)
  BY <1>4, <1>5, DayKeepsLane DEF DayOutcome
<1>9. Improves(op, g)
  <2>1. day \in 1..HaltDay
    OBVIOUS
  <2> QED BY <1>2, <2>1 DEF Matched
<1>10. a = IF oy.contacts < MaxContacts
           THEN Scheduled(arm, world.condition, day, oy.sub) ELSE NoContact
  BY DEF ContentOf, ScheduledArms
<1>11. y.halted = FALSE
  BY DEF LaneInv
<1>12. \/ cy = g
       \/ a = "card_change" /\ world.latent.card /\ g = oy
  <2> DEFINE s   == Scheduled(arm, world.condition, day, oy.sub)
             due == /\ day = 1 /\ world.condition = "insufficient_funds"
                    /\ Reminds(arm)
  <2>1. \/ s = "topup_reminder" /\ due
        \/ s = NoContact /\ ~due
        \/ s = "card_change" /\ ~due /\ world.latent.card
    BY <1>1, MatchedContent
  <2>2. ReminderDue(arm, y.ep, day) <=> due /\ oy.contacts < MaxContacts
    BY <1>2 DEF ReminderDue
  <2>3. a = IF oy.contacts < MaxContacts THEN s ELSE NoContact
    BY <1>10
  <2> HIDE DEF s, a, due, oy
  <2>4. CASE ReminderDue(arm, y.ep, day)
    <3>1. a = "topup_reminder"
      BY <2>1, <2>2, <2>3, <2>4
    <3>2. "topup_reminder" # NoContact
      BY DEF NoContact
    <3> QED BY <1>2, <2>4, <3>1, <3>2 DEF Reminded, Contacted
  <2>5. CASE ~ReminderDue(arm, y.ep, day)
    <3>1. g = oy
      BY <1>2, <2>5 DEF Reminded
    <3>2. a = NoContact \/ (a = "card_change" /\ world.latent.card)
      BY <2>1, <2>2, <2>3, <2>5
    <3>3. a = NoContact => cy = oy
      BY DEF Contacted
    <3> QED BY <3>1, <3>2, <3>3
  <2> QED BY <2>4, <2>5
<1>13. op \in EpisodeState /\ oy \in EpisodeState
  BY <1>2 DEF LaneInv
<1>14. ASSUME cy = g PROVE Improves(cp, cy)
  <2> HIDE DEF cp, op, cy, g
  <2> QED BY <1>6, <1>7, <1>8, <1>9, <1>13, <1>14, ImprovesIsTransitive
<1>15. ASSUME a = "card_change", world.latent.card, g = oy
       PROVE  Improves(cp, cy)
  <2>1. cy.funds = oy.funds
    <3>1. Prompts(oy, "card_change")
      BY <1>8, <1>15
    <3>2. cy = Contacted(world, oy, day, "card_change")
      BY <1>15
    <3> HIDE DEF oy, cy
    <3> QED BY <1>8, <1>11, <3>1, <3>2, CardPromptMovesNoFunds
  <2> HIDE DEF cp, op, cy, g, oy
  <2>2. Improves(cp, oy)
    BY <1>7, <1>8, <1>9, <1>13, <1>15, ImprovesIsTransitive
  <2> QED BY <1>6, <1>7, <1>15, <2>1, <2>2 DEF Improves
<1>16. Improves(cp, cy)
  BY <1>12, <1>14, <1>15
<1> QED BY <1>16

\* The table's reminder of day 0 lands before the schedule's of day 1: each is
\* the second message and meets the same draws.
LEMMA ReminderIsLate ==
  ASSUME HaltDay \in {3, 4}, world \in WorldType, day = 0,
         world.latent \in LatentStates(world.condition),
         NEW arm \in ScheduledArms, Fair(arm), NEW t,
         NEW y, LaneInv(y, day), Kept(y, day),
         NEW p, LaneInv(p, day), Kept(p, day), Paced(p, day), p.ep = y.ep,
         LET u == LaneDay(arm, y) IN ReminderDue(arm, u.ep, day + 1)
  PROVE  VariantDay(t, p).ep.funds
           <= Reminded(arm, LaneDay(arm, y).ep, day + 1).funds
<1> DEFINE opened == OpeningEmail(world, p.ep, day)
           a  == ContentOf(arm, y)
           b  == VariantContent(t, p)
           u  == LaneDay(arm, y)
           v  == VariantDay(t, p)
           cy == Contacted(world, opened, day, a)
           cp == Contacted(world, opened, day, b)
           g  == Reminded(arm, u.ep, day + 1)
<1>1. /\ world.condition = "insufficient_funds"
      /\ Reminds(arm)
      /\ u.ep.contacts < MaxContacts
  BY DEF ReminderDue
<1>2. /\ day \in Nat
      /\ Waits
      /\ world.condition \in Contactable
      /\ world.condition # Cancelled
      /\ arm \in Arms
      /\ HaltDay \in Nat /\ day < HaltDay /\ day <= HaltDay /\ day + 1 <= HaltDay
      /\ day \in 0..4 /\ day + 1 \in Nat
  BY <1>1 DEF Waits, Contactable, Cancelled, Arms
<1>3. IsLane(y) /\ OpeningEmail(world, y.ep, day).contacts \in 0..MaxContacts
  BY <1>2, OpeningKeepsLane DEF LaneInv
<1>4. OneDay(y, u, a)
  BY <1>2, <1>3, LaneDayParts
<1>5. OneDay(p, v, b)
  BY <1>2, VariantParts
<1>6. OpeningEmail(world, y.ep, day) = opened
  OBVIOUS
<1>7. /\ Prompts(opened, b)
      /\ Underway(opened, p.halted)
      /\ Improves(v.ep, cp)
  BY <1>2, <1>5, DayKeepsLane DEF DayOutcome
<1>8. LaneInv(u, day + 1) /\ LaneInv(v, day + 1)
  BY <1>2, <1>4, <1>5, DayKeepsLane DEF DayOutcome
<1>9. p.halted = FALSE /\ u.halted = FALSE
  BY <1>2, <1>8 DEF LaneInv
<1>10. MaxContacts # 0
  <2>1. u.ep.contacts \in Nat /\ MaxContacts \in Nat
    BY <1>8, WorldAssumption DEF LaneInv, EpisodeState
  <2> HIDE DEF u
  <2> QED BY <1>1, <2>1
<1>11. b = "topup_reminder"
  BY <1>1, <1>2, <1>10, VariantOpens
<1>12. a = NoContact
  <2> DEFINE s(e) == Scheduled(arm, world.condition, day, e.sub)
  <2>1. a = LET op == OpeningEmail(world, y.ep, day)
            IN IF op.contacts < MaxContacts THEN s(op) ELSE NoContact
    BY DEF ContentOf, ScheduledArms
  <2>2. s(opened) = NoContact
    <3>1. s(opened) = A2(world.condition, day, opened.sub)
      <4>1. world.condition \notin CardBrokenKeys \cup
              {"bank_technical_error", "transaction_limit_exceeded"}
        BY <1>1 DEF CardBrokenKeys
      <4> HIDE DEF opened
      <4>2. A2Corrected(world.condition, day, opened.sub)
              = A2(world.condition, day, opened.sub)
        BY <4>1 DEF A2Corrected
      <4>3. A2Strengthened(world.condition, day, opened.sub)
              = A2(world.condition, day, opened.sub)
        BY <4>1, <4>2 DEF A2Strengthened
      <4> QED BY <1>1, <4>2, <4>3 DEF Scheduled, Reminds
    <3> HIDE DEF opened
    <3>2. A2("insufficient_funds", day, opened.sub) = NoContact
      BY WaitingSchedule
    <3> HIDE DEF s
    <3> QED BY <1>1, <3>1, <3>2
  <2> HIDE DEF opened, a, s
  <2> QED BY <1>6, <2>1, <2>2
<1>13. /\ u.ep.funds = opened.funds
       /\ u.ep.topups = opened.topups
       /\ u.ep.history = opened.history
  <2>1. TracedDay(y, u, a)
    BY <1>2, <1>4, DayTraced DEF Kept
  <2>2. Contacted(world, OpeningEmail(world, y.ep, day), day, a) = opened
    BY <1>6, <1>12 DEF Contacted
  <2> HIDE DEF opened, u, a
  <2> QED BY <1>2, <2>1, <2>2 DEF TracedDay
<1>14. Delivered(opened, cp, day, "topup_reminder")
  <2>1. opened \in EpisodeState /\ Counted(opened, 1)
    BY <1>7, <1>9 DEF Underway, One
  <2>2. opened.contacts < MaxContacts
    BY <1>7, <1>11 DEF Prompts, NoContact
  <2>3. cp = SendContact(world.condition, opened, day, "topup_reminder",
                         DrawFor(world, opened, "topup_reminder"))
    BY <1>11 DEF Contacted, NoContact
  <2> HIDE DEF opened, cp
  <2> QED BY <1>2, <2>1, <2>2, <2>3, ContactDelivered DEF AgentRemedies
<1>15. Delivered(u.ep, g, day + 1, "topup_reminder")
  <2>1. u.ep \in EpisodeState /\ Counted(u.ep, 1)
    <3>1. One(day + 1 > 0) + One(u.halted) = 1
      BY <1>9 DEF One
    <3> HIDE DEF u
    <3> QED BY <1>8, <3>1 DEF LaneInv
  <2>2. g = SendContact(world.condition, u.ep, day + 1, "topup_reminder",
                        DrawFor(world, u.ep, "topup_reminder"))
    BY DEF Reminded
  <2> HIDE DEF u, g
  <2> QED BY <1>1, <1>2, <2>1, <2>2, ContactDelivered DEF AgentRemedies
<1>16. /\ opened \in EpisodeState /\ cp \in EpisodeState
       /\ v.ep \in EpisodeState
  BY <1>7, <1>8, <1>14 DEF Underway, LaneInv, Delivered
<1> DEFINE k == Len(opened.history)
           topup == world.topup[opened.topups]
           dues == Hits(k) /\ NamesDues("topup_reminder")
<1> HIDE DEF opened, cp, u, v, g, a, b, cy
<1>17. cp.funds = IF dues /\ topup > 0 /\ day * TicksPerDay + topup < opened.funds
                  THEN day * TicksPerDay + topup ELSE opened.funds
  BY <1>14 DEF Delivered
<1>18. g.funds = IF dues /\ topup > 0 /\ (day + 1) * TicksPerDay + topup < opened.funds
                 THEN (day + 1) * TicksPerDay + topup ELSE opened.funds
  BY <1>13, <1>15 DEF Delivered
<1>19. topup \in Nat
  <2>1. opened.topups \in MessageIndexes
    BY <1>7, <1>9, <1>16, TopupsInRange DEF Underway, One
  <2>2. world.topup \in [MessageIndexes -> {0} \cup AccelDelays]
    BY DEF WorldType
  <2>3. topup \in {0} \cup AccelDelays
    BY <2>1, <2>2
  <2> HIDE DEF topup
  <2> QED BY <2>3, WorldAssumption
<1>20. /\ day * TicksPerDay = 0
       /\ (day + 1) * TicksPerDay = TicksPerDay
       /\ TicksPerDay \in Nat
  BY WorldAssumption
<1>21. v.ep.funds <= cp.funds
  BY <1>7 DEF Improves
<1>22. opened.funds \in Nat /\ cp.funds \in Nat /\ v.ep.funds \in Nat
  BY <1>16 DEF EpisodeState
<1> HIDE DEF topup, dues
<1>23. cp.funds <= g.funds
  BY <1>17, <1>18, <1>19, <1>20, <1>22
<1>24. g.funds \in Nat
  BY <1>15 DEF Delivered, EpisodeState
<1>25. v.ep.funds <= g.funds
  BY <1>21, <1>22, <1>23, <1>24
<1> QED BY <1>25 DEF v, g, u

LEMMA MatchedDay ==
  ASSUME HaltDay \in {3, 4}, world \in WorldType, world.condition # Cancelled,
         day \in Nat, world.latent \in LatentStates(world.condition),
         NEW arm \in ScheduledArms, Fair(arm), NEW t,
         NEW y, LaneInv(y, day), Kept(y, day),
         NEW p, LaneInv(p, day), Kept(p, day), Paced(p, day),
         Matched(arm, y, p, day)
  PROVE  Matched(arm, LaneDay(arm, y), VariantDay(t, p), day + 1)
<1> DEFINE oy == OpeningEmail(world, y.ep, day)
           op == OpeningEmail(world, p.ep, day)
           a  == ContentOf(arm, y)
           b  == VariantContent(t, p)
           cy == Contacted(world, oy, day, a)
           cp == Contacted(world, op, day, b)
           u  == LaneDay(arm, y)
           v  == VariantDay(t, p)
<1>1. arm \in Arms /\ HaltDay \in Nat
  BY DEF Arms
<1>2. IsLane(y) /\ oy.contacts \in 0..MaxContacts
  BY OpeningKeepsLane DEF LaneInv
<1>3. OneDay(y, u, a)
  BY <1>1, <1>2, LaneDayParts
<1>4. OneDay(p, v, b)
  BY VariantParts
<1>5. /\ cy \in EpisodeState /\ Improves(cy, world.latent)
      /\ Kept(u, day + 1) /\ u.ep \in EpisodeState
  BY <1>3, DayKept
<1>6. /\ cp \in EpisodeState /\ Improves(cp, world.latent)
      /\ Kept(v, day + 1) /\ v.ep \in EpisodeState
  BY <1>4, DayKept
<1>7. ASSUME day <= HaltDay PROVE Improves(cp, cy)
  <2>1. CASE ~Waits
    <3>1. world.condition \in OpeningConditions
      BY DEF WorldType
    <3>2. world.latent.card
      BY <2>1, <3>1, BrokenConditions DEF Fair, Waits
    <3>3. world.latent.funds = 0
      BY <2>1, <3>1, LatentCases DEF Waits
    <3> HIDE DEF cp, cy
    <3> QED BY <1>5, <1>6, <3>2, <3>3, NothingToImprove
  <2>2. CASE Waits /\ day = 0
    <3>1. p.ep = y.ep
      BY <2>2 DEF Matched
    <3>2. op = oy
      BY <3>1
    <3>3. Improves(Contacted(world, op, day, b), Contacted(world, op, day, a))
      BY <2>2, <3>1, MatchedOpening
    <3> HIDE DEF op, oy
    <3> QED BY <3>2, <3>3
  <2>3. CASE Waits /\ day # 0
    BY <1>7, <2>3, MatchedLater
  <2> QED BY <2>1, <2>2, <2>3
<1>8. /\ u.ep.invoice => v.ep.invoice
      /\ day < HaltDay => Improves(v.ep, u.ep)
  <2>1. y.ep.invoice => p.ep.invoice
    BY DEF Matched
  <2> HIDE DEF u, v, a, b
  <2> QED BY <1>3, <1>4, <1>7, <2>1, BetterDay
<1>9. ASSUME Waits, day + 1 \in 1..HaltDay
      PROVE  Improves(v.ep, Reminded(arm, u.ep, day + 1))
  <2>1. day < HaltDay
    BY <1>9
  <2>2. CASE ~ReminderDue(arm, u.ep, day + 1)
    <3>1. Reminded(arm, u.ep, day + 1) = u.ep
      BY <2>2 DEF Reminded
    <3> HIDE DEF u, v
    <3> QED BY <1>8, <2>1, <3>1
  <2>3. CASE ReminderDue(arm, u.ep, day + 1)
    <3> DEFINE g == Reminded(arm, u.ep, day + 1)
    <3>1. day = 0
      BY <2>3 DEF ReminderDue
    <3>2. p.ep = y.ep
      BY <3>1 DEF Matched
    <3>3. v.ep.funds <= g.funds
      BY <2>3, <3>1, <3>2, ReminderIsLate
    <3>4. world.condition = "insufficient_funds" /\ u.ep.contacts < MaxContacts
      BY <2>3 DEF ReminderDue
    <3>5. world.latent.card
      <4>1. world.condition \in OpeningConditions
        BY DEF WorldType
      <4> QED BY <3>4, <4>1, BrokenConditions DEF CardBrokenKeys
    <3>6. g.blocked = u.ep.blocked /\ g.mandate = u.ep.mandate
      <4>1. DrawFor(world, u.ep, "topup_reminder") \in Draws
        <5>1. LaneInv(u, day + 1)
          BY <1>3, DayKeepsLane DEF DayOutcome
        <5>2. u.halted = FALSE
          BY <2>1, <3>1, <5>1 DEF LaneInv
        <5> HIDE DEF u
        <5>3. Counted(u.ep, 1)
          BY <3>1, <5>1, <5>2 DEF LaneInv, One
        <5>4. u.ep.contacts \in Nat /\ MaxContacts \in Nat
          BY <1>5, WorldAssumption DEF EpisodeState
        <5>5. Len(u.ep.history) <= MaxContacts + 1 /\ u.ep.topups <= Len(u.ep.history)
          BY <5>3, <5>4 DEF Counted
        <5> QED BY <1>5, <5>5, DrawIsTyped
      <4>2. g = SendContact(world.condition, u.ep, day + 1, "topup_reminder",
                            DrawFor(world, u.ep, "topup_reminder"))
        BY <2>3 DEF Reminded
      <4>3. day + 1 \in Nat /\ "topup_reminder" \in AgentRemedies
        BY DEF AgentRemedies
      <4> HIDE DEF u, g
      <4>4. MessageOutcome(u.ep, g, 1)
        BY <1>5, <4>1, <4>2, <4>3, PromptOutcome
      <4> QED BY <4>4 DEF MessageOutcome, Improves
    <3> HIDE DEF g, u, v
    <3>7. Improves(v.ep, g)
      BY <1>5, <1>6, <3>3, <3>5, <3>6 DEF Kept, Improves
    <3> QED BY <3>7 DEF g
  <2> QED BY <2>2, <2>3
<1>10. day + 1 # 0
  OBVIOUS
<1> HIDE DEF u, v
<1>11. Matched(arm, u, v, day + 1)
  BY <1>8, <1>9, <1>10 DEF Matched
<1> QED BY <1>11 DEF u, v

-----------------------------------------------------------------------------
\* Whether the table's one withheld message is already behind.
Decided(d) == IF world.condition \in CardBrokenKeys THEN d > 3 ELSE d > 2

\* The lane x that may have been left alone, and the lane p that was not.
Freed(x, p, d) ==
  \/ p = x
  \/ /\ Decided(d)
     /\ d <= HaltDay => Improves(p.ep, x.ep)
     /\ x.ep.invoice => p.ep.invoice

\* Before the halt, what follows the decision is silence.
LEMMA DecidedIsSilent ==
  ASSUME HaltDay \in {3, 4}, world \in WorldType, world.condition # Cancelled,
         day \in Nat, day <= HaltDay, Decided(day), NEW t, NEW l, LaneInv(l, day)
  PROVE  VariantContent(t, l) = NoContact
<1> SUFFICES ASSUME VariantContent(t, l) # NoContact PROVE FALSE
  OBVIOUS
<1> DEFINE view == AgentView(l, day)
<1>1. view.day = day /\ view.decline = world.condition
  BY AgentSees DEF BuildView
<1>2. \/ day = 0
      \/ day = 5
      \/ Decisive(view) /\ ~WithholdsFrom(t, view)
  BY VariantSpeaks
<1>3. world.condition \in {"insufficient_funds", "ambiguous_decline"} =>
        world.condition \notin CardBrokenKeys
  BY DEF CardBrokenKeys
<1> HIDE DEF view
<1> QED BY <1>1, <1>2, <1>3 DEF Decided, Decisive

LEMMA SilentContact ==
  ASSUME NEW e, NEW content, content = NoContact
  PROVE  Contacted(world, e, day, content) = e
BY DEF Contacted

LEMMA FreedDay ==
  ASSUME HaltDay \in {3, 4}, world \in WorldType, world.condition # Cancelled,
         day \in Nat, NEW x, LaneInv(x, day), Kept(x, day),
         NEW p, LaneInv(p, day), Kept(p, day), Freed(x, p, day)
  PROVE  Freed(VariantDay(2, x), VariantDay(3, p), day + 1)
<1> DEFINE view == AgentView(x, day)
           ox == OpeningEmail(world, x.ep, day)
           op == OpeningEmail(world, p.ep, day)
           a  == VariantContent(2, x)
           b  == VariantContent(3, p)
           cx == Contacted(world, ox, day, a)
           cp == Contacted(world, op, day, b)
           u  == VariantDay(2, x)
           v  == VariantDay(3, p)
<1>1. /\ OneDay(x, u, a) /\ OneDay(p, v, b)
      /\ Underway(op, p.halted) /\ Underway(cp, p.halted) /\ Improves(cp, op)
  BY VariantParts DEF DayOutcome
<1>2. view.day = day /\ view.decline = world.condition
  BY AgentSees DEF BuildView
<1>3. ASSUME x.ep.invoice => p.ep.invoice,
             day <= HaltDay => Improves(cp, cx),
             Decided(day + 1)
      PROVE  Freed(u, v, day + 1)
  <2>1. /\ u.ep.invoice => v.ep.invoice
        /\ day < HaltDay => Improves(v.ep, u.ep)
    <3> HIDE DEF u, v, a, b
    <3> QED BY <1>1, <1>3, BetterDay
  <2>2. day + 1 <= HaltDay => day < HaltDay
    OBVIOUS
  <2> HIDE DEF u, v
  <2> QED BY <1>3, <2>1, <2>2 DEF Freed
<1>4. CASE p = x
  <2>1. CASE Decisive(view) /\ WithholdsFrom(2, view)
    <3>1. day \in {2, 3}
      BY <1>2, <2>1 DEF Decisive
    <3>2. Decided(day + 1)
      <4>1. world.condition \in {"insufficient_funds", "ambiguous_decline"} =>
              world.condition \notin CardBrokenKeys
        BY DEF CardBrokenKeys
      <4> HIDE DEF view
      <4> QED BY <1>2, <2>1, <4>1 DEF Decisive, Decided
    <3>3. a = NoContact
      <4>1. a # NoContact => day = 0 \/ day = 5 \/ ~WithholdsFrom(2, view)
        BY VariantSpeaks
      <4> QED BY <2>1, <3>1, <4>1
    <3>4. cx = ox
      BY <3>3, SilentContact
    <3>5. op = ox
      BY <1>4
    <3>6. Improves(cp, cx)
      BY <1>1, <3>4, <3>5
    <3> QED BY <1>3, <1>4, <3>2, <3>6
  <2>2. CASE ~(Decisive(view) /\ WithholdsFrom(2, view))
    <3>1. WithholdsFrom(3, view) => WithholdsFrom(2, view)
      <4>1. Len(view.history) \in Nat
        <5>1. view.history = ox.history
          BY AgentSees DEF BuildView
        <5>2. ox \in EpisodeState
          BY <1>1, <1>4 DEF Underway
        <5> HIDE DEF ox, view
        <5> QED BY <5>1, <5>2 DEF EpisodeState
      <4> HIDE DEF view
      <4> QED BY <4>1 DEF WithholdsFrom
    <3>2. Decisive(view) => (WithholdsFrom(2, view) <=> WithholdsFrom(3, view))
      BY <2>2, <3>1
    <3>3. u = VariantDay(3, x)
      BY <3>2, VariantsAgree
    <3> QED BY <1>4, <3>3 DEF Freed
  <2> QED BY <2>1, <2>2
<1>5. CASE p # x
  <2>1. /\ Decided(day)
        /\ day <= HaltDay => Improves(p.ep, x.ep)
        /\ x.ep.invoice => p.ep.invoice
    BY <1>5 DEF Freed
  <2>2. Decided(day + 1) /\ day # 0
    BY <2>1 DEF Decided
  <2>3. ox = x.ep /\ op = p.ep
    BY <2>2 DEF OpeningEmail
  <2>4. ASSUME day <= HaltDay PROVE Improves(cp, cx)
    <3>1. a = NoContact
      BY <2>1, <2>4, DecidedIsSilent
    <3>2. cx = ox
      BY <3>1, SilentContact
    <3>3. /\ x.ep \in EpisodeState /\ p.ep \in EpisodeState
          /\ cp \in EpisodeState
      BY <1>1 DEF LaneInv, Underway
    <3>4. Improves(cp, p.ep) /\ Improves(p.ep, x.ep)
      BY <1>1, <2>1, <2>3, <2>4
    <3> HIDE DEF cp, cx
    <3> QED BY <2>3, <3>2, <3>3, <3>4, ImprovesIsTransitive
  <2> QED BY <1>3, <2>1, <2>2, <2>4
<1>6. Freed(u, v, day + 1)
  BY <1>4, <1>5
<1> QED BY <1>6

-----------------------------------------------------------------------------
\* The schedules that prompt a broken card on days 0 and 3, as the table does.
PromptsTwice == {"A1", "A2_CORRECTED_V1", "A2_STRENGTHENED"}

\* The lane y of a schedule and the lane p of a table that withholds nothing.
Beside(y, p, d) ==
  /\ y.ep.invoice => p.ep.invoice
  /\ d <= HaltDay => p.ep.invoice \/ p.ep = y.ep

LEMMA SameClose ==
  ASSUME NEW j, IsLane(j), NEW k, IsLane(k), j.halted = k.halted, NEW c
  PROVE  CloseDay(world, j, c, day).ep = CloseDay(world, k, c, day).ep
BY DEF CloseDay, IsLane

LEMMA SameOneDay ==
  ASSUME NEW l, NEW n, NEW m, NEW q, NEW a, NEW b, OneDay(l, n, a),
         OneDay(m, q, b), a = b, l.ep = m.ep, l.halted = m.halted
  PROVE  n.ep = q.ep
<1> DEFINE c == Contacted(world, OpeningEmail(world, l.ep, day), day, a)
<1>1. PICK j : /\ IsLane(j) /\ j.halted = l.halted
               /\ n = CloseDay(world, j, c, day)
  BY DEF OneDay
<1>2. PICK k : /\ IsLane(k) /\ k.halted = m.halted
               /\ q = CloseDay(world, k, c, day)
  BY DEF OneDay
<1> HIDE DEF c
<1> QED BY <1>1, <1>2, SameClose

LEMMA TwicePrompting ==
  ASSUME world.condition \in CardBrokenKeys, NEW arm \in PromptsTwice,
         NEW d \in 0..4, NEW state
  PROVE  Scheduled(arm, world.condition, d, state)
           = IF d \in {0, 3} THEN "card_change" ELSE NoContact
<1>1. A2Corrected(world.condition, d, state) = CardPromptOn({0, 3}, d)
  <2>1. /\ world.condition # "bank_technical_error"
        /\ world.condition # "transaction_limit_exceeded"
    BY DEF CardBrokenKeys
  <2> QED BY <2>1 DEF A2Corrected
<1>2. A2Strengthened(world.condition, d, state) = CardPromptOn({0, 3, 5}, d)
  BY DEF A2Strengthened
<1>3. A1(world.condition, d, state) = IF d \in {0, 3} THEN "card_change" ELSE NoContact
  BY DEF A1
<1>4. CardPromptOn({0, 3}, d) = IF d \in {0, 3} THEN "card_change" ELSE NoContact
  BY DEF CardPromptOn
<1>5. d # 5
  OBVIOUS
<1>6. CardPromptOn({0, 3, 5}, d) = IF d \in {0, 3} THEN "card_change" ELSE NoContact
  BY <1>5 DEF CardPromptOn
<1>7. CASE arm = "A1"
  BY <1>3, <1>7 DEF Scheduled
<1>8. CASE arm = "A2_CORRECTED_V1"
  BY <1>1, <1>4, <1>8 DEF Scheduled
<1>9. CASE arm = "A2_STRENGTHENED"
  BY <1>2, <1>6, <1>9 DEF Scheduled
<1> QED BY <1>7, <1>8, <1>9 DEF PromptsTwice

\* Where nothing is withheld the table prompts a broken card on the same days.
LEMMA SamePrompts ==
  ASSUME HaltDay \in {3, 4}, world \in WorldType,
         world.condition \in CardBrokenKeys, day \in Nat, day <= HaltDay,
         NEW arm \in PromptsTwice, NEW t, NEW y, NEW p, LaneInv(p, day),
         Paced(p, day), ~p.stopped, ~p.ep.invoice, p.ep = y.ep,
         day = 3 => ~WithholdsFrom(t, AgentView(p, day))
  PROVE  ContentOf(arm, y) = VariantContent(t, p)
<1> DEFINE opened == OpeningEmail(world, p.ep, day)
           a == ContentOf(arm, y)
           b == VariantContent(t, p)
<1>1. /\ world.condition # Cancelled /\ world.condition \in Contactable
      /\ world.condition # "insufficient_funds"
      /\ world.condition # "ambiguous_decline"
  BY DEF CardBrokenKeys, Cancelled, Contactable
<1>2. a = IF opened.contacts < MaxContacts
          THEN Scheduled(arm, world.condition, day, opened.sub) ELSE NoContact
  BY DEF ContentOf, ScheduledArms, PromptsTwice
<1>3. OneDay(p, VariantDay(t, p), b) /\ Prompts(opened, b)
  BY <1>1, VariantParts DEF OneDay
<1>4. opened.contacts = p.ep.contacts
  BY <1>3, DaySpends
<1>5. Scheduled(arm, world.condition, day, opened.sub)
        = IF day \in {0, 3} THEN "card_change" ELSE NoContact
  BY TwicePrompting
<1>6. CASE ~(opened.contacts < MaxContacts)
  BY <1>2, <1>3, <1>6 DEF Prompts
<1>7. CASE opened.contacts < MaxContacts
  <2>1. CASE day = 0
    <3>1. p.ep.contacts \in Nat /\ MaxContacts \in Nat
      BY WorldAssumption DEF LaneInv, EpisodeState
    <3>2. MaxContacts # 0
      <4> HIDE DEF opened
      <4> QED BY <1>4, <1>7, <3>1
    <3>3. b = "card_change"
      BY <1>1, <2>1, <3>2, VariantOpens
    <3> QED BY <1>2, <1>5, <1>7, <2>1, <3>3
  <2>2. CASE day = 3
    <3>1. p.ep.contacts < MaxContacts
      BY <1>4, <1>7
    <3>2. HaltDay >= 3
      OBVIOUS
    <3>3. b = "card_change"
      BY <2>2, <3>1, <3>2, VariantPersists
    <3> QED BY <1>2, <1>5, <1>7, <2>2, <3>3
  <2>3. CASE day \notin {0, 3}
    <3>1. ASSUME b # NoContact PROVE FALSE
      <4> DEFINE view == AgentView(p, day)
      <4>1. view.day = day /\ view.decline = world.condition
        BY AgentSees DEF BuildView
      <4>2. \/ day = 0
            \/ day = 5
            \/ Decisive(view) /\ ~WithholdsFrom(t, view)
        BY <1>1, <3>1, VariantSpeaks
      <4> HIDE DEF view
      <4> QED BY <1>1, <2>3, <4>1, <4>2 DEF Decisive
    <3> QED BY <1>2, <1>5, <1>7, <2>3, <3>1
  <2> QED BY <2>1, <2>2, <2>3
<1> QED BY <1>6, <1>7

LEMMA BesideDay ==
  ASSUME HaltDay \in {3, 4}, world \in WorldType,
         world.condition \in CardBrokenKeys, day \in Nat,
         NEW arm \in PromptsTwice, NEW t,
         NEW y, LaneInv(y, day), Kept(y, day),
         NEW p, LaneInv(p, day), Paced(p, day), ~p.stopped,
         day = 3 => ~WithholdsFrom(t, AgentView(p, day)), Beside(y, p, day)
  PROVE  Beside(LaneDay(arm, y), VariantDay(t, p), day + 1)
<1> DEFINE a == ContentOf(arm, y)
           b == VariantContent(t, p)
           u == LaneDay(arm, y)
           v == VariantDay(t, p)
<1>1. arm \in Arms /\ HaltDay \in Nat
  BY DEF Arms, ScheduledArms, PromptsTwice
<1>2. OneDay(y, u, a)
  <2>1. IsLane(y) /\ OpeningEmail(world, y.ep, day).contacts \in 0..MaxContacts
    BY OpeningKeepsLane DEF LaneInv
  <2> QED BY <1>1, <2>1, LaneDayParts
<1>3. OneDay(p, v, b) /\ DayOutcome(p, v, b)
  BY VariantParts
<1>4. CASE day > HaltDay
  <2>1. ~(day <= HaltDay) /\ ~(day + 1 <= HaltDay)
    BY <1>1, <1>4
  <2>2. u.ep.invoice => v.ep.invoice
    <3>1. y.ep.invoice => p.ep.invoice
      BY DEF Beside
    <3> HIDE DEF u, v, a, b
    <3> QED BY <1>2, <1>3, <2>1, <3>1, BetterDay
  <2> HIDE DEF u, v
  <2>3. Beside(u, v, day + 1)
    BY <2>1, <2>2 DEF Beside
  <2> QED BY <2>3 DEF u, v
<1>5. CASE day <= HaltDay /\ p.ep.invoice
  <2>1. v.ep.invoice
    BY <1>3, <1>5 DEF DayOutcome
  <2> HIDE DEF u, v
  <2>2. Beside(u, v, day + 1)
    BY <2>1 DEF Beside
  <2> QED BY <2>2 DEF u, v
<1>6. CASE day <= HaltDay /\ ~p.ep.invoice
  <2>1. p.ep = y.ep
    BY <1>6 DEF Beside
  <2>2. a = b
    BY <1>6, <2>1, SamePrompts
  <2>3. y.halted = FALSE /\ p.halted = FALSE
    BY <1>1, <1>6 DEF LaneInv
  <2>4. u.ep = v.ep
    <3>1. y.ep = p.ep /\ y.halted = p.halted
      BY <2>1, <2>3
    <3>2. OneDay(y, u, a) /\ OneDay(p, v, b)
      BY <1>2, <1>3
    <3> HIDE DEF u, v, a, b
    <3> QED BY <2>2, <3>1, <3>2, SameOneDay
  <2> QED BY <2>4 DEF Beside
<1> QED BY <1>1, <1>4, <1>5, <1>6

-----------------------------------------------------------------------------
\* No agent contact on the day of the halt.
Quiet(e) == \A k \in SendsOf(e) : e.history[k].day # HaltDay

LEMMA MessageQuiet ==
  ASSUME NEW e \in EpisodeState, NEW f, NEW d, NEW remedy,
         Appended(f, e, d, remedy), Quiet(e),
         IsAgentContact(remedy) => d # HaltDay
  PROVE  Quiet(f)
<1>0. PICK engaged \in BOOLEAN :
        f.history = Append(e.history, [day |-> d, remedy |-> remedy,
                                       engaged |-> engaged])
  BY DEF Appended
<1> DEFINE n == Len(e.history) + 1
           record == [day |-> d, remedy |-> remedy, engaged |-> engaged]
<1>1. e.history \in Seq(ContactRecord)
  BY DEF EpisodeState
<1>2. f.history[n] = record
  BY <1>0, <1>1, LenProperties
<1>3. f.history[n].day = d
  BY <1>2
<1>4. /\ SendsOf(f) = SendsOf(e) \cup (IF IsAgentContact(remedy) THEN {n} ELSE {})
      /\ \A k \in SendsOf(e) : f.history[k] = e.history[k]
  BY MessageAppends DEF OneMore
<1> HIDE DEF n
<1> QED BY <1>3, <1>4 DEF Quiet

LEMMA EmailQuiet ==
  ASSUME NEW e \in EpisodeState, NEW d \in Nat, NEW draw \in Draws, Quiet(e)
  PROVE  Quiet(SendMessage(e, d, AutoEmail, draw))
<1> DEFINE f == SendMessage(e, d, AutoEmail, draw)
<1>1. AutoEmail \in Remedies /\ ~IsAgentContact(AutoEmail)
  BY DEF Remedies, IsAgentContact
<1>2. Appended(f, e, d, AutoEmail)
  <2>1. \E engaged \in BOOLEAN :
          f.history = Append(e.history, [day |-> d, remedy |-> AutoEmail,
                                         engaged |-> engaged])
    BY <1>1, MessageChanges
  <2> HIDE DEF f
  <2> QED BY <2>1 DEF Appended
<1> HIDE DEF f
<1>3. Quiet(f)
  BY <1>1, <1>2, MessageQuiet
<1> QED BY <1>3 DEF f

LEMMA PromptQuiet ==
  ASSUME NEW e \in EpisodeState, NEW d \in Nat, NEW draw \in Draws,
         NEW remedy \in AgentRemedies, Quiet(e), d # HaltDay
  PROVE  Quiet(SendContact(world.condition, e, d, remedy, draw))
<1> DEFINE f == SendContact(world.condition, e, d, remedy, draw)
<1>1. ContactOutcome(world.condition, e, d, remedy, f)
  BY ContactEffect
<1> HIDE DEF f
<1>2. Appended(f, e, d, remedy)
  BY <1>1 DEF ContactOutcome, Appended
<1>3. Quiet(f)
  BY <1>2, MessageQuiet
<1> QED BY <1>3 DEF f

LEMMA CloseQuiet ==
  ASSUME world \in WorldType, day \in Nat, NEW k, IsLane(k),
         k.halted \in BOOLEAN, NEW c, Underway(c, k.halted), Quiet(c)
  PROVE  Quiet(CloseDay(world, k, c, day).ep)
<1> DEFINE h == k.halted
           r == AfterRetry(c, day, h)
           g == [r EXCEPT !.sub = "halted"]
           halts == HaltsNow(r, day, h)
           draw == DrawFor(world, g, AutoEmail)
           f == AfterHalt(r, day, DrawFor(world, r, AutoEmail))
           n == CloseDay(world, k, c, day)
<1>1. /\ Underway(r, h)
      /\ r = c \/ r = [c EXCEPT !.invoice = TRUE, !.sub = "active"]
      /\ c \in EpisodeState
  BY RetryKeepsLane DEF AfterRetry, Underway
<1>2. n.ep = IF halts THEN f ELSE r
  BY DEF CloseDay, IsLane
<1>3. DrawFor(world, r, AutoEmail) = DrawFor(world, g, AutoEmail)
  BY DEF DrawFor, Appeal, IsAgentContact
<1>4. f = SendMessage(g, day, AutoEmail, draw)
  BY <1>3 DEF AfterHalt
<1> HIDE DEF r
<1>5. r \in EpisodeState /\ r.history = c.history
  BY <1>1 DEF Underway, EpisodeState
<1>6. Quiet(r)
  BY <1>5 DEF Quiet, SendsOf
<1>7. CASE ~halts
  BY <1>2, <1>6, <1>7
<1>8. CASE halts
  <2>1. /\ g \in EpisodeState
        /\ g.history = r.history
        /\ g.topups = r.topups
    BY <1>5 DEF EpisodeState, SubscriptionStates
  <2>2. Counted(r, 1)
    <3>1. h = FALSE
      BY <1>8 DEF HaltsNow
    <3> QED BY <1>1, <3>1 DEF Underway, One
  <2> HIDE DEF g, f, n, halts, h
  <2>3. Quiet(g)
    BY <1>6, <2>1 DEF Quiet, SendsOf
  <2>4. /\ Len(g.history) <= MaxContacts + 1
        /\ g.topups <= Len(g.history)
    <3>1. r.contacts \in Nat /\ MaxContacts \in Nat
      BY <1>5, WorldAssumption DEF EpisodeState
    <3> QED BY <2>1, <2>2, <3>1 DEF Counted
  <2>5. draw \in Draws
    BY <2>1, <2>4, DrawIsTyped
  <2> HIDE DEF draw
  <2>6. Quiet(f)
    BY <1>4, <2>1, <2>3, <2>5, EmailQuiet
  <2> QED BY <1>2, <1>8, <2>6 DEF n
<1> QED BY <1>7, <1>8

LEMMA QuietDay ==
  ASSUME world \in WorldType, day \in Nat, NEW l, LaneInv(l, day),
         Quiet(l.ep), NEW n, NEW content, OneDay(l, n, content),
         content # NoContact => day # HaltDay
  PROVE  Quiet(n.ep)
<1> DEFINE opened == OpeningEmail(world, l.ep, day)
           c == Contacted(world, opened, day, content)
           draw == DrawFor(world, opened, content)
<1>1. /\ l.ep \in EpisodeState
      /\ l.halted \in BOOLEAN
      /\ Underway(opened, l.halted)
  BY OpeningKeepsLane DEF LaneInv
<1>2. Prompts(opened, content)
  BY DEF OneDay
<1>3. PICK k : /\ IsLane(k)
               /\ k.halted = l.halted
               /\ n = CloseDay(world, k, c, day)
  BY DEF OneDay
<1>4. Quiet(opened)
  <2>1. CASE day = 0
    <3> DEFINE email == DrawFor(world, l.ep, AutoEmail)
    <3>1. Counted(l.ep, 0)
      BY <2>1, NothingCountedYet
    <3>2. /\ Len(l.ep.history) <= MaxContacts + 1
          /\ l.ep.topups <= Len(l.ep.history)
      BY <1>1, <3>1, WorldAssumption DEF Counted, EpisodeState
    <3>3. email \in Draws
      BY <1>1, <3>2, DrawIsTyped
    <3>4. opened = SendMessage(l.ep, day, AutoEmail, email)
      BY <2>1 DEF OpeningEmail
    <3> HIDE DEF opened, email
    <3> QED BY <1>1, <3>3, <3>4, EmailQuiet
  <2>2. CASE day # 0
    BY <2>2 DEF OpeningEmail
  <2> QED BY <2>1, <2>2
<1> HIDE DEF opened
<1>5. Underway(c, l.halted)
  BY <1>1, <1>2, PromptKeepsLane
<1>6. Quiet(c)
  <2>1. CASE content = NoContact
    BY <1>4, <2>1 DEF Contacted
  <2>2. CASE content # NoContact
    <3>1. content \in AgentRemedies /\ opened.contacts < MaxContacts
      BY <1>2, <2>2 DEF Prompts
    <3>2. c = SendContact(world.condition, opened, day, content, draw)
      BY <2>2 DEF Contacted
    <3>3. /\ opened \in EpisodeState
          /\ Counted(opened, 1 + One(l.halted))
          /\ One(l.halted) \in {0, 1}
      BY <1>1 DEF Underway, One
    <3>4. /\ Len(opened.history) <= MaxContacts + 1
          /\ opened.topups <= Len(opened.history)
      BY <3>1, <3>3, WorldAssumption DEF Counted, EpisodeState
    <3>5. draw \in Draws
      BY <3>3, <3>4, DrawIsTyped
    <3> HIDE DEF draw, c
    <3> QED BY <1>4, <2>2, <3>1, <3>2, <3>3, <3>5, PromptQuiet
  <2> QED BY <2>1, <2>2
<1> HIDE DEF c
<1> QED BY <1>1, <1>3, <1>5, <1>6, CloseQuiet

-----------------------------------------------------------------------------
\* A broken card the table left alone on day 3: one message, and one more after
\* the halt.
Withheld(x, d) == d > 3 /\ Quiet(x.ep) /\ x.ep.contacts <= 1 + One(d > 5)

LEMMA BrokenTimes ==
  ASSUME world \in WorldType, world.condition \in CardBrokenKeys, day \in Nat,
         NEW t, NEW l, LaneInv(l, day), VariantContent(t, l) # NoContact
  PROVE  \/ day \in {0, 5}
         \/ day = 3 /\ ~WithholdsFrom(t, AgentView(l, day))
<1> DEFINE view == AgentView(l, day)
<1>1. /\ world.condition # Cancelled
      /\ world.condition # "insufficient_funds"
      /\ world.condition # "ambiguous_decline"
  BY DEF CardBrokenKeys, Cancelled
<1>2. view.day = day /\ view.decline = world.condition
  BY AgentSees DEF BuildView
<1>3. \/ day = 0
      \/ day = 5
      \/ Decisive(view) /\ ~WithholdsFrom(t, view)
  BY <1>1, VariantSpeaks
<1> HIDE DEF view
<1>4. Decisive(view) => day = 3
  BY <1>1, <1>2 DEF Decisive
<1> QED BY <1>3, <1>4 DEF view

LEMMA WithheldDay ==
  ASSUME HaltDay \in {3, 4}, world \in WorldType,
         world.condition \in CardBrokenKeys, day \in Nat, NEW t,
         NEW x, LaneInv(x, day), Withheld(x, day)
  PROVE  Withheld(VariantDay(t, x), day + 1)
<1> DEFINE b == VariantContent(t, x)
           u == VariantDay(t, x)
<1>1. OneDay(x, u, b)
  BY VariantParts
<1>2. u.ep.contacts = IF b = NoContact THEN x.ep.contacts ELSE x.ep.contacts + 1
  BY <1>1, DaySpends
<1>3. day > 3 /\ Quiet(x.ep) /\ x.ep.contacts <= 1 + One(day > 5)
  BY DEF Withheld
<1>4. b # NoContact => day = 5
  BY <1>3, BrokenTimes
<1>5. x.ep.contacts \in Nat
  BY DEF LaneInv, EpisodeState
<1> HIDE DEF u, b
<1>6. Quiet(u.ep)
  <2>1. b # NoContact => day # HaltDay
    BY <1>4
  <2> QED BY <1>1, <1>3, <2>1, QuietDay
<1>7. u.ep.contacts <= 1 + One(day + 1 > 5)
  BY <1>2, <1>3, <1>4, <1>5 DEF One
<1>8. day + 1 > 3
  BY <1>3
<1>9. Withheld(u, day + 1)
  BY <1>6, <1>7, <1>8 DEF Withheld
<1> QED BY <1>9 DEF u

LEMMA WithheldFrom3 ==
  ASSUME HaltDay \in {3, 4}, world \in WorldType,
         world.condition \in CardBrokenKeys, day = 3, NEW t,
         NEW x, LaneInv(x, day), Paced(x, day), Quiet(x.ep),
         WithholdsFrom(t, AgentView(x, day))
  PROVE  Withheld(VariantDay(t, x), day + 1)
<1> DEFINE b == VariantContent(t, x)
           u == VariantDay(t, x)
<1>1. OneDay(x, u, b)
  BY VariantParts
<1>2. b = NoContact
  BY BrokenTimes
<1>3. u.ep.contacts = x.ep.contacts
  BY <1>1, <1>2, DaySpends
<1>4. x.ep.contacts <= 1
  BY DEF Paced, Contactable
<1> HIDE DEF u, b
<1>5. Quiet(u.ep)
  BY <1>1, <1>2, QuietDay
<1>6. x.ep.contacts \in Nat
  BY DEF LaneInv, EpisodeState
<1>7. u.ep.contacts <= 1 + One(day + 1 > 5)
  BY <1>3, <1>4, <1>6 DEF One
<1>8. Withheld(u, day + 1)
  BY <1>5, <1>7 DEF Withheld
<1> QED BY <1>8 DEF u

\* Only a broken card is prompted on the day of the halt.
QuietUntil(x, d) == world.condition \notin CardBrokenKeys \/ d <= 3 => Quiet(x.ep)

LEMMA QuietUntilDay ==
  ASSUME HaltDay \in {3, 4}, world \in WorldType, world.condition # Cancelled,
         day \in Nat, NEW t, NEW x, LaneInv(x, day), QuietUntil(x, day)
  PROVE  QuietUntil(VariantDay(t, x), day + 1)
<1> DEFINE b == VariantContent(t, x)
           u == VariantDay(t, x)
           view == AgentView(x, day)
<1>1. OneDay(x, u, b)
  BY VariantParts
<1>2. ASSUME world.condition \notin CardBrokenKeys \/ day + 1 <= 3
      PROVE  Quiet(u.ep)
  <2>1. Quiet(x.ep)
    BY <1>2 DEF QuietUntil
  <2>2. b # NoContact => day # HaltDay
    <3>1. view.day = day /\ view.decline = world.condition
      BY AgentSees DEF BuildView
    <3>2. b # NoContact => \/ day = 0
                           \/ day = 5
                           \/ Decisive(view)
      BY VariantSpeaks
    <3> HIDE DEF view, b
    <3>3. Decisive(view) => day = 2 \/ (day = 3 /\ world.condition \in CardBrokenKeys)
      BY <3>1 DEF Decisive
    <3> QED BY <1>2, <3>2, <3>3
  <2> HIDE DEF u, b
  <2> QED BY <1>1, <2>1, <2>2, QuietDay
<1> HIDE DEF u
<1>3. QuietUntil(u, day + 1)
  BY <1>2 DEF QuietUntil
<1> QED BY <1>3 DEF u

\* What a schedule with room in its budget has sent to a broken card.
Prompted(arm, y, d) ==
  y.ep.contacts = One(d > 0) + One(d > 3) + One(arm = "A2_STRENGTHENED" /\ d > 5)

LEMMA PromptedDay ==
  ASSUME MaxContacts >= 3, world \in WorldType,
         world.condition \in CardBrokenKeys, day \in Nat,
         NEW arm \in COMPARATORS, NEW y, LaneInv(y, day), Prompted(arm, y, day)
  PROVE  Prompted(arm, LaneDay(arm, y), day + 1)
<1> DEFINE opened == OpeningEmail(world, y.ep, day)
           a == ContentOf(arm, y)
           u == LaneDay(arm, y)
           late == arm = "A2_STRENGTHENED"
<1>1. arm \in Arms /\ arm \in ScheduledArms
  BY DEF Arms, ScheduledArms, COMPARATORS
<1>2. OneDay(y, u, a)
  <2>1. IsLane(y) /\ opened.contacts \in 0..MaxContacts
    BY OpeningKeepsLane DEF LaneInv
  <2> QED BY <1>1, <2>1, LaneDayParts
<1>3. /\ opened.contacts = y.ep.contacts
      /\ u.ep.contacts = IF a = NoContact THEN y.ep.contacts ELSE y.ep.contacts + 1
  BY <1>2, DaySpends
<1>4. a = IF opened.contacts < MaxContacts
          THEN Scheduled(arm, world.condition, day, opened.sub) ELSE NoContact
  BY <1>1 DEF ContentOf, ScheduledArms
<1>5. Scheduled(arm, world.condition, day, opened.sub) # NoContact
        <=> day \in {0, 3} \/ (late /\ day = 5)
  <2>1. CASE arm = "A1"
    <3>1. ~late
      BY <2>1
    <3> HIDE DEF late, opened
    <3> QED BY <2>1, <3>1 DEF Scheduled, A1, NoContact
  <2>2. CASE arm = "A2_STRENGTHENED"
    <3>1. A2Strengthened(world.condition, day, opened.sub) = CardPromptOn({0, 3, 5}, day)
      BY DEF A2Strengthened
    <3>2. late
      BY <2>2
    <3> HIDE DEF late, opened
    <3>3. Scheduled(arm, world.condition, day, opened.sub) = CardPromptOn({0, 3, 5}, day)
      BY <2>2, <3>1 DEF Scheduled
    <3> QED BY <3>2, <3>3 DEF CardPromptOn, NoContact
  <2> QED BY <2>1, <2>2 DEF COMPARATORS
<1>6. y.ep.contacts = One(day > 0) + One(day > 3) + One(late /\ day > 5)
  BY DEF Prompted
<1>7. MaxContacts \in Nat
  BY WorldAssumption
<1> HIDE DEF late, opened, u, a
<1>8. day \in {0, 3} \/ (late /\ day = 5) => opened.contacts < MaxContacts
  <2>1. day \in {0, 3} \/ (late /\ day = 5) => One(late /\ day > 5) = 0
    BY DEF One
  <2>2. One(day > 0) \in {0, 1} /\ One(day > 3) \in {0, 1}
    BY DEF One
  <2> QED BY <1>3, <1>6, <1>7, <2>1, <2>2
<1>9. a # NoContact <=> day \in {0, 3} \/ (late /\ day = 5)
  BY <1>4, <1>5, <1>8
<1>10. /\ One(day + 1 > 0) = One(day > 0) + One(day = 0)
       /\ One(day + 1 > 3) = One(day > 3) + One(day = 3)
       /\ One(day + 1 > 5) = One(day > 5) + One(day = 5)
  BY DEF One
<1>11. u.ep.contacts = One(day + 1 > 0) + One(day + 1 > 3) + One(late /\ day + 1 > 5)
  <2>1. y.ep.contacts \in Nat
    BY DEF LaneInv, EpisodeState
  <2>2. CASE late
    <3>1. One(late /\ day > 5) = One(day > 5) /\ One(late /\ day + 1 > 5) = One(day + 1 > 5)
      BY <2>2 DEF One
    <3>2. a # NoContact <=> day \in {0, 3, 5}
      BY <1>9, <2>2
    <3> QED BY <1>3, <1>6, <2>1, <3>1, <3>2 DEF One
  <2>3. CASE ~late
    <3>1. One(late /\ day > 5) = 0 /\ One(late /\ day + 1 > 5) = 0
      BY <2>3 DEF One
    <3>2. a # NoContact <=> day \in {0, 3}
      BY <1>9, <2>3
    <3> QED BY <1>3, <1>6, <2>1, <3>1, <3>2 DEF One
  <2> QED BY <2>2, <2>3
<1> QED BY <1>11 DEF Prompted, u, late

-----------------------------------------------------------------------------
\* One day of the sweep, at the two thresholds and beside the schedules.
LEMMA SweepDay ==
  ASSUME LanesInv, RescueInv, RegimesInv, DiagDay
  PROVE  /\ world \in WorldType
         /\ world.condition # Cancelled
         /\ world.latent \in LatentStates(world.condition)
         /\ day \in Nat
         /\ world' = world
         /\ day' = day + 1
         /\ \A arm \in ScheduledArms :
              /\ LaneInv(lanes[arm], day)
              /\ lanes'[arm] = LaneDay(arm, lanes[arm])
              /\ OneDay(lanes[arm], lanes'[arm], ContentOf(arm, lanes[arm]))
         /\ \A t \in {2, 3} :
              /\ LaneInv(frontier[t], day)
              /\ Paced(frontier[t], day)
              /\ frontier'[t] = VariantDay(t, frontier[t])
              /\ OneDay(frontier[t], frontier'[t], VariantContent(t, frontier[t]))
<1>1. "A0" \in Arms /\ \A arm \in ScheduledArms : arm \in Arms
  BY DEF Arms, ScheduledArms
<1>2. /\ world \in WorldType
      /\ world.condition # Cancelled
      /\ day \in Nat
      /\ world' = world
      /\ day' = day + 1
  BY <1>1, DayMovesEveryLane DEF DiagDay, Day
<1>3. world.latent \in LatentStates(world.condition)
  BY <1>2 DEF RescueInv
<1>4. ASSUME NEW arm \in ScheduledArms
      PROVE  /\ LaneInv(lanes[arm], day)
             /\ lanes'[arm] = LaneDay(arm, lanes[arm])
             /\ OneDay(lanes[arm], lanes'[arm], ContentOf(arm, lanes[arm]))
  <2>1. arm \in Arms
    BY <1>1
  <2>2. LaneInv(lanes[arm], day) /\ lanes'[arm] = LaneDay(arm, lanes[arm])
    BY <2>1, DayMovesEveryLane DEF DiagDay
  <2>3. /\ IsLane(lanes[arm])
        /\ OpeningEmail(world, lanes[arm].ep, day).contacts \in 0..MaxContacts
    BY <1>2, <2>2, OpeningKeepsLane DEF LaneInv
  <2> QED BY <1>2, <2>1, <2>2, <2>3, LaneDayParts
<1>5. ASSUME NEW t \in {2, 3}
      PROVE  /\ LaneInv(frontier[t], day)
             /\ Paced(frontier[t], day)
             /\ frontier'[t] = VariantDay(t, frontier[t])
             /\ OneDay(frontier[t], frontier'[t], VariantContent(t, frontier[t]))
  <2>1. t \in Grid
    BY GridAssumption DEF BASELINE_THRESHOLD
  <2>2. LaneInv(frontier[t], day) /\ Paced(frontier[t], day)
    BY <1>2, <2>1 DEF RegimesInv, FrontierInv
  <2>3. frontier'[t] = VariantDay(t, frontier[t])
    BY <2>1 DEF DiagDay
  <2> QED BY <1>2, <2>2, <2>3, VariantParts
<1> QED BY <1>2, <1>3, <1>4, <1>5

\* Before the day it decides on, the table has written two messages at most.
LEMMA ThreeIsTooMany ==
  ASSUME HaltDay \in {3, 4}, world.condition \in CardBrokenKeys, day = 3,
         NEW p, LaneInv(p, day), Paced(p, day)
  PROVE  ~WithholdsFrom(3, AgentView(p, day))
<1> DEFINE view == AgentView(p, day)
<1>1. view.history = p.ep.history
  <2>1. OpeningEmail(world, p.ep, day) = p.ep
    BY DEF OpeningEmail
  <2> QED BY <2>1, AgentSees DEF BuildView
<1>2. p.ep.contacts \in Nat /\ p.ep.contacts <= 1
  BY DEF LaneInv, EpisodeState, Paced, Contactable
<1>3. p.halted = FALSE
  BY DEF LaneInv
<1>4. One(day > 0) + One(p.halted) = 1
  BY <1>3 DEF One
<1>5. Len(p.ep.history) = p.ep.contacts + 1
  BY <1>4 DEF LaneInv, Counted
<1> HIDE DEF view
<1>6. ~(Len(view.history) >= 3)
  BY <1>1, <1>2, <1>5
<1> QED BY <1>6 DEF WithholdsFrom, view

Steady(l) ==
  world.condition \in CardBrokenKeys \cup {"ambiguous_decline"} => ~l.stopped

\* The patient table, A3-D's own and the schedules, side by side.
PatienceInv ==
  world.condition # Cancelled =>
    /\ \A arm \in ScheduledArms : Kept(lanes[arm], day)
    /\ \A t \in {2, 3} : Kept(frontier[t], day) /\ Steady(frontier[t])
    /\ \A arm \in ScheduledArms, t \in {2, 3} :
         Fair(arm) => Matched(arm, lanes[arm], frontier[t], day)
    /\ Freed(frontier[2], frontier[3], day)
    /\ world.condition \in CardBrokenKeys =>
         \A arm \in PromptsTwice : Beside(lanes[arm], frontier[3], day)

LEMMA PatienceStep ==
  ASSUME HaltDay \in {3, 4}
  PROVE  LanesInv /\ RescueInv /\ RegimesInv /\ PatienceInv
           /\ [DiagNext]_diagVars => PatienceInv'
<1>1. ASSUME LanesInv, RescueInv, RegimesInv, PatienceInv, DiagDay
      PROVE  PatienceInv'
  <2>1. /\ world \in WorldType
        /\ world.condition # Cancelled
        /\ world.latent \in LatentStates(world.condition)
        /\ day \in Nat
        /\ world' = world
        /\ day' = day + 1
    BY <1>1, SweepDay
  <2>2. \A arm \in ScheduledArms :
          /\ LaneInv(lanes[arm], day)
          /\ lanes'[arm] = LaneDay(arm, lanes[arm])
          /\ OneDay(lanes[arm], lanes'[arm], ContentOf(arm, lanes[arm]))
    BY <1>1, SweepDay
  <2>3. \A t \in {2, 3} :
          /\ LaneInv(frontier[t], day)
          /\ Paced(frontier[t], day)
          /\ frontier'[t] = VariantDay(t, frontier[t])
          /\ OneDay(frontier[t], frontier'[t], VariantContent(t, frontier[t]))
    BY <1>1, SweepDay
  <2>4. /\ \A arm \in ScheduledArms : Kept(lanes[arm], day)
        /\ \A t \in {2, 3} : Kept(frontier[t], day) /\ Steady(frontier[t])
        /\ \A arm \in ScheduledArms, t \in {2, 3} :
             Fair(arm) => Matched(arm, lanes[arm], frontier[t], day)
        /\ Freed(frontier[2], frontier[3], day)
        /\ world.condition \in CardBrokenKeys =>
             \A arm \in PromptsTwice : Beside(lanes[arm], frontier[3], day)
    BY <1>1, <2>1 DEF PatienceInv
  <2>5. \A arm \in ScheduledArms : Kept(lanes'[arm], day + 1)
    BY <2>1, <2>2, <2>4, DayKept
  <2>6. ASSUME NEW t \in {2, 3}
        PROVE  Kept(frontier'[t], day + 1) /\ Steady(frontier'[t])
    <3>1. Kept(frontier'[t], day + 1)
      BY <2>1, <2>3, <2>4, DayKept
    <3>2. Steady(frontier'[t])
      BY <2>1, <2>3, <2>4, VariantKeepsOn DEF Steady
    <3> QED BY <3>1, <3>2
  <2>7. ASSUME NEW arm \in ScheduledArms, NEW t \in {2, 3}, Fair(arm)
        PROVE  Matched(arm, lanes'[arm], frontier'[t], day + 1)
    BY <2>1, <2>2, <2>3, <2>4, <2>7, MatchedDay
  <2>8. Freed(frontier'[2], frontier'[3], day + 1)
    BY <2>1, <2>3, <2>4, FreedDay
  <2>9. ASSUME world.condition \in CardBrokenKeys, NEW arm \in PromptsTwice
        PROVE  Beside(lanes'[arm], frontier'[3], day + 1)
    <3> DEFINE p == frontier[3]
    <3>1. arm \in ScheduledArms
      BY DEF ScheduledArms, PromptsTwice
    <3>2. /\ LaneInv(p, day) /\ Paced(p, day)
          /\ frontier'[3] = VariantDay(3, p)
      BY <2>3
    <3>3. ~p.stopped
      BY <2>4, <2>9 DEF Steady
    <3>4. Beside(lanes[arm], p, day) /\ Kept(lanes[arm], day)
      BY <2>4, <2>9, <3>1
    <3>5. LaneInv(lanes[arm], day) /\ lanes'[arm] = LaneDay(arm, lanes[arm])
      BY <2>2, <3>1
    <3> HIDE DEF p
    <3>6. day = 3 => ~WithholdsFrom(3, AgentView(p, day))
      BY <2>9, <3>2, ThreeIsTooMany
    <3> QED BY <2>1, <2>9, <3>2, <3>3, <3>4, <3>5, <3>6, BesideDay
  <2>10. /\ \A arm \in ScheduledArms : Kept(lanes[arm], day)'
         /\ \A t \in {2, 3} : Kept(frontier[t], day)' /\ Steady(frontier[t])'
    BY <2>1, <2>5, <2>6 DEF Kept, Improves, Steady
  <2>11. \A arm \in ScheduledArms, t \in {2, 3} :
           Fair(arm)' => Matched(arm, lanes[arm], frontier[t], day)'
    BY <2>1, <2>7 DEF Fair, Matched, Improves, Waits, Reminded, ReminderDue, Reminds
  <2>12. Freed(frontier[2], frontier[3], day)'
    BY <2>1, <2>8 DEF Freed, Decided, Improves
  <2>13. (world.condition \in CardBrokenKeys)' =>
            \A arm \in PromptsTwice : Beside(lanes[arm], frontier[3], day)'
    BY <2>1, <2>9 DEF Beside
  <2> QED BY <2>10, <2>11, <2>12, <2>13 DEF PatienceInv
<1>2. ASSUME PatienceInv, UNCHANGED diagVars PROVE PatienceInv'
  BY <1>2 DEF PatienceInv, diagVars, Kept, Improves, Steady, Fair, Matched, Waits,
              Reminded, ReminderDue, Reminds, Freed, Decided, Beside
<1>3. ASSUME DiagTerminated PROVE UNCHANGED diagVars
  BY <1>3 DEF DiagTerminated, Terminated, vars, diagVars
<1> QED BY <1>1, <1>2, <1>3 DEF DiagNext

LEMMA InitPatienceInv == DiagInit => PatienceInv
<1> SUFFICES ASSUME DiagInit, world.condition # Cancelled PROVE PatienceInv
  BY DEF PatienceInv
<1> DEFINE e == Opening(world.condition, world.latent)
           l == Lane(e)
<1>1. world.latent \in LatentType
  BY InitLanesInv DEF DiagInit, LanesInv, WorldType
<1>2. /\ OpeningOf(world.condition, e)
      /\ e.card = world.latent.card /\ e.funds = world.latent.funds
      /\ e.blocked = world.latent.blocked /\ e.mandate = world.latent.mandate
  BY <1>1, OpeningIsTyped DEF Opening
<1>3. l.ep = e /\ l.stopped = FALSE
  BY DEF Lane
<1>4. /\ \A arm \in ScheduledArms : lanes[arm] = l
      /\ \A t \in {2, 3} : frontier[t] = l
  BY GridAssumption DEF DiagInit, Init, Arms, BASELINE_THRESHOLD
<1>5. day = 0 /\ PromptsTwice \subseteq ScheduledArms
  BY DEF DiagInit, Init, PromptsTwice, ScheduledArms
<1> HIDE DEF e, l
<1>6. Kept(l, day)
  <2>1. e.funds <= world.latent.funds
    BY <1>1, <1>2 DEF LatentType
  <2> QED BY <1>2, <1>3, <2>1 DEF Kept, Improves, OpeningOf
<1>7. Steady(l)
  BY <1>3 DEF Steady
<1>8. ASSUME NEW arm PROVE Matched(arm, l, l, day)
  BY <1>5 DEF Matched
<1>9. Freed(l, l, day) /\ Beside(l, l, day)
  BY DEF Freed, Beside
<1> QED BY <1>4, <1>5, <1>6, <1>7, <1>8, <1>9 DEF PatienceInv

LEMMA PatienceInvariant ==
  ASSUME HaltDay \in {3, 4}
  PROVE  DiagSpec => []LanesInv /\ []RescueInv /\ []RegimesInv /\ []PatienceInv
<1>1. HaltDay >= 3
  OBVIOUS
<1>2. DiagSpec => []RegimesInv
  BY <1>1, RegimesInvariant
<1>3. DiagSpec => []LanesInv /\ []RescueInv
  BY DiagnosisOnlyWatches, LanesInvariant, RescueInvariant, PTL
<1>4. LanesInv /\ RescueInv /\ RegimesInv /\ PatienceInv
        /\ [DiagNext]_diagVars => PatienceInv'
  BY PatienceStep
<1> QED BY <1>2, <1>3, <1>4, InitPatienceInv, PTL DEF DiagSpec

\* Withholding less never costs an invoice, and the patient table loses none to
\* A2-strengthened: for every budget, window, sweep and set of draws, on a
\* schedule that halts on day 3 or 4, between the table's last decision before
\* the halt and its rescue of day 5.
THEOREM PatienceIsFree ==
  ASSUME HaltDay \in {3, 4}
  PROVE  DiagSpec => []PatienceNeverCostsAnInvoice
<1>1. LanesInv /\ RegimesInv /\ PatienceInv => PatienceNeverCostsAnInvoice
  <2> SUFFICES ASSUME LanesInv, RegimesInv, PatienceInv
               PROVE  /\ Recovered("A2_STRENGTHENED") => frontier[3].ep.invoice
                      /\ Recovered("A3-D") => frontier[3].ep.invoice
    BY DEF PatienceNeverCostsAnInvoice, BASELINE_THRESHOLD
  <2>1. /\ "A2_STRENGTHENED" \in Arms /\ "A3-D" \in Arms
        /\ "A2_STRENGTHENED" \in ScheduledArms /\ "A2_STRENGTHENED" \in PromptsTwice
    BY DEF Arms, ScheduledArms, PromptsTwice
  <2>2. CASE world.condition = Cancelled
    BY <2>1, <2>2, CancelledLanes DEF OpeningOf, Recovered
  <2>3. CASE world.condition # Cancelled
    <3>1. frontier[2] = lanes["A3-D"]
      BY DEF RegimesInv, ParityInv, BASELINE_THRESHOLD
    <3>2. frontier[2].ep.invoice => frontier[3].ep.invoice
      BY <2>3 DEF PatienceInv, Freed
    <3>3. lanes["A2_STRENGTHENED"].ep.invoice => frontier[3].ep.invoice
      <4>1. CASE world.condition \in CardBrokenKeys
        BY <2>1, <2>3, <4>1 DEF PatienceInv, Beside
      <4>2. CASE world.condition \notin CardBrokenKeys
        <5>1. Fair("A2_STRENGTHENED")
          BY <4>2 DEF Fair
        <5> QED BY <2>1, <2>3, <5>1 DEF PatienceInv, Matched
      <4> QED BY <4>1, <4>2
    <3> QED BY <3>1, <3>2, <3>3 DEF Recovered
  <2> QED BY <2>2, <2>3
<1> QED BY <1>1, PatienceInvariant, PTL

-----------------------------------------------------------------------------
\* What A3-D's restraint can cost: either it is still beside the comparators, or
\* it has left a broken card alone on day 3.
RestraintInv ==
  world.condition # Cancelled =>
    /\ QuietUntil(frontier[2], day)
    /\ world.condition \in CardBrokenKeys =>
         /\ \/ \A arm \in COMPARATORS : Beside(lanes[arm], frontier[2], day)
            \/ Withheld(frontier[2], day)
         /\ \A arm \in COMPARATORS : Prompted(arm, lanes[arm], day)

LEMMA RestraintStep ==
  ASSUME HaltDay \in {3, 4}, MaxContacts >= 3
  PROVE  LanesInv /\ RescueInv /\ RegimesInv /\ PatienceInv /\ RestraintInv
           /\ [DiagNext]_diagVars => RestraintInv'
<1>1. ASSUME LanesInv, RescueInv, RegimesInv, PatienceInv, RestraintInv, DiagDay
      PROVE  RestraintInv'
  <2> DEFINE x == frontier[2]
             u == frontier'[2]
             w == WithholdsFrom(2, AgentView(x, day))
  <2>1. /\ world \in WorldType
        /\ world.condition # Cancelled
        /\ day \in Nat
        /\ world' = world
        /\ day' = day + 1
    BY <1>1, SweepDay
  <2>2. /\ LaneInv(x, day) /\ Paced(x, day)
        /\ u = VariantDay(2, x)
    BY <1>1, SweepDay
  <2>3. ASSUME NEW arm \in COMPARATORS
        PROVE  /\ arm \in PromptsTwice
               /\ LaneInv(lanes[arm], day) /\ Kept(lanes[arm], day)
               /\ lanes'[arm] = LaneDay(arm, lanes[arm])
    <3>1. arm \in ScheduledArms /\ arm \in PromptsTwice
      BY DEF COMPARATORS, ScheduledArms, PromptsTwice
    <3> QED BY <1>1, <2>1, <3>1, SweepDay DEF PatienceInv
  <2>4. /\ QuietUntil(x, day)
        /\ world.condition \in CardBrokenKeys =>
             /\ \/ \A arm \in COMPARATORS : Beside(lanes[arm], x, day)
                \/ Withheld(x, day)
             /\ \A arm \in COMPARATORS : Prompted(arm, lanes[arm], day)
    BY <1>1, <2>1 DEF RestraintInv
  <2>5. world.condition \in CardBrokenKeys => ~x.stopped
    BY <1>1, <2>1 DEF PatienceInv, Steady
  <2> HIDE DEF x, u, w
  <2>6. QuietUntil(u, day + 1)
    BY <2>1, <2>2, <2>4, QuietUntilDay
  <2>7. ASSUME world.condition \in CardBrokenKeys
        PROVE  \/ \A arm \in COMPARATORS : Beside(lanes'[arm], u, day + 1)
               \/ Withheld(u, day + 1)
    <3>1. CASE Withheld(x, day)
      BY <2>1, <2>2, <2>7, <3>1, WithheldDay
    <3>2. CASE day = 3 /\ w
      <4>1. Quiet(x.ep)
        BY <2>4, <3>2 DEF QuietUntil
      <4> QED BY <2>1, <2>2, <2>7, <3>2, <4>1, WithheldFrom3 DEF w
    <3>3. CASE ~Withheld(x, day) /\ ~(day = 3 /\ w)
      <4>1. \A arm \in COMPARATORS : Beside(lanes[arm], x, day)
        BY <2>4, <2>7, <3>3
      <4>2. day = 3 => ~WithholdsFrom(2, AgentView(x, day))
        BY <3>3 DEF w
      <4>3. ASSUME NEW arm \in COMPARATORS
            PROVE  Beside(lanes'[arm], u, day + 1)
        BY <2>1, <2>2, <2>3, <2>5, <2>7, <4>1, <4>2, BesideDay
      <4> QED BY <4>3
    <3> QED BY <3>1, <3>2, <3>3
  <2>8. ASSUME world.condition \in CardBrokenKeys, NEW arm \in COMPARATORS
        PROVE  Prompted(arm, lanes'[arm], day + 1)
    BY <2>1, <2>3, <2>4, <2>8, PromptedDay
  <2>9. QuietUntil(frontier[2], day)'
    BY <2>1, <2>6 DEF QuietUntil, Quiet, SendsOf, u
  <2>10. (world.condition \in CardBrokenKeys)' =>
           \/ \A arm \in COMPARATORS : Beside(lanes[arm], frontier[2], day)'
           \/ Withheld(frontier[2], day)'
    BY <2>1, <2>7 DEF Beside, Withheld, Quiet, SendsOf, One, u
  <2>11. (world.condition \in CardBrokenKeys)' =>
           \A arm \in COMPARATORS : Prompted(arm, lanes[arm], day)'
    BY <2>1, <2>8 DEF Prompted, One
  <2> QED BY <2>9, <2>10, <2>11 DEF RestraintInv
<1>2. ASSUME RestraintInv, UNCHANGED diagVars PROVE RestraintInv'
  BY <1>2 DEF RestraintInv, diagVars, QuietUntil, Quiet, SendsOf, Beside,
              Withheld, Prompted, One
<1>3. ASSUME DiagTerminated PROVE UNCHANGED diagVars
  BY <1>3 DEF DiagTerminated, Terminated, vars, diagVars
<1> QED BY <1>1, <1>2, <1>3 DEF DiagNext

LEMMA InitRestraintInv == DiagInit => RestraintInv
<1> SUFFICES ASSUME DiagInit, world.condition # Cancelled PROVE RestraintInv
  BY DEF RestraintInv
<1> DEFINE e == Opening(world.condition, world.latent)
           l == Lane(e)
<1>1. OpeningOf(world.condition, e)
  <2>1. world.latent \in LatentType
    BY InitLanesInv DEF DiagInit, LanesInv, WorldType
  <2> QED BY <2>1, OpeningIsTyped
<1>2. l.ep = e
  BY DEF Lane
<1>3. /\ \A arm \in COMPARATORS : lanes[arm] = l
      /\ frontier[2] = l
  BY GridAssumption
     DEF DiagInit, Init, Arms, ScheduledArms, COMPARATORS, BASELINE_THRESHOLD
<1>4. day = 0
  BY DEF DiagInit, Init
<1> HIDE DEF e, l
<1>5. QuietUntil(l, day)
  BY <1>1, <1>2 DEF QuietUntil, Quiet, SendsOf, OpeningOf
<1>6. Beside(l, l, day)
  BY DEF Beside
<1>7. ASSUME NEW arm PROVE Prompted(arm, l, day)
  BY <1>1, <1>2, <1>4 DEF Prompted, One, OpeningOf
<1> QED BY <1>3, <1>5, <1>6, <1>7 DEF RestraintInv

LEMMA RestraintInvariant ==
  ASSUME HaltDay \in {3, 4}, MaxContacts >= 3
  PROVE  DiagSpec => []RestraintInv
<1>1. LanesInv /\ RescueInv /\ RegimesInv /\ PatienceInv /\ RestraintInv
        /\ [DiagNext]_diagVars => RestraintInv'
  BY RestraintStep
<1> QED BY <1>1, InitRestraintInv, PatienceInvariant, PTL DEF DiagSpec

\* A comparator has recovered what A3-D has not: nobody prompted A3-D's customer
\* on the day of the halt, and the card was broken.
LEMMA OnlyTheRestrained ==
  ASSUME LanesInv, RescueInv, RegimesInv, PatienceInv, RestraintInv,
         NEW comp \in COMPARATORS, ComparatorOnly(comp)
  PROVE  LET x == lanes["A3-D"]
         IN /\ ~x.stopped /\ Quiet(x.ep) /\ ~world.latent.card
            /\ x.ep.contacts \in Nat /\ lanes[comp].ep.contacts \in Nat
            /\ \/ /\ world.condition \in CardBrokenKeys
                  /\ Withheld(x, day) /\ Prompted(comp, lanes[comp], day)
               \/ world.condition \notin CardBrokenKeys /\ comp = "A1"
<1> DEFINE x == lanes["A3-D"]
           y == lanes[comp]
<1>1. /\ comp \in Arms /\ comp \in ScheduledArms /\ comp \in PromptsTwice
      /\ "A3-D" \in Arms
  BY DEF Arms, ScheduledArms, PromptsTwice, COMPARATORS
<1>2. y.ep.invoice /\ ~x.ep.invoice
  BY DEF ComparatorOnly, Recovered
<1>3. world.condition # Cancelled
  BY <1>1, <1>2, CancelledLanes DEF OpeningOf
<1>4. x = frontier[2]
  BY DEF RegimesInv, ParityInv, BASELINE_THRESHOLD
<1>5. x.ep.contacts \in Nat /\ y.ep.contacts \in Nat
  BY <1>1, <1>3 DEF LanesInv, LaneInv, EpisodeState
<1>6. /\ Fair(comp) => Matched(comp, y, x, day)
      /\ Steady(x)
      /\ QuietUntil(x, day)
      /\ world.condition \in CardBrokenKeys =>
           /\ Beside(y, x, day) \/ Withheld(x, day)
           /\ Prompted(comp, y, day)
  BY <1>1, <1>3, <1>4 DEF PatienceInv, RestraintInv
<1> HIDE DEF x, y
<1>7. ~Fair(comp)
  BY <1>2, <1>6 DEF Matched
<1>8. world.latent \in LatentStates(world.condition)
      /\ world.condition \in OpeningConditions
  BY <1>3 DEF RescueInv, LanesInv, WorldType
<1>9. CASE world.condition \in CardBrokenKeys
  <2>1. Withheld(x, day) /\ Prompted(comp, y, day)
    BY <1>2, <1>6, <1>9 DEF Beside
  <2>2. ~x.stopped
    BY <1>6, <1>9 DEF Steady
  <2>3. ~world.latent.card
    BY <1>8, <1>9 DEF LatentStates, Latent, CardBrokenKeys, Cancelled
  <2> QED BY <1>5, <1>9, <2>1, <2>2, <2>3 DEF Withheld, x, y
<1>10. CASE world.condition \notin CardBrokenKeys
  <2>1. ~world.latent.card /\ comp = "A1"
    BY <1>7, <1>10 DEF Fair
  <2>2. world.condition = "ambiguous_decline"
    BY <1>8, <1>10, <2>1, BrokenConditions
  <2>3. ~x.stopped
    BY <1>6, <2>2 DEF Steady
  <2>4. Quiet(x.ep)
    BY <1>6, <1>10 DEF QuietUntil
  <2> QED BY <1>5, <1>10, <2>1, <2>3, <2>4 DEF x, y
<1> QED BY <1>9, <1>10

\* Where A3-D gave an episode up, no schedule recovered its invoice.
LEMMA StoppingCostsNothing ==
  ASSUME LanesInv, RescueInv, RegimesInv, PatienceInv, lanes["A3-D"].stopped,
         NEW arm \in Arms \ {"A4"}, Recovered(arm)
  PROVE  Recovered("A3-D")
<1>1. CASE arm = "A3-D"
  BY <1>1
<1>2. CASE arm # "A3-D"
  <2>1. arm \in ScheduledArms
    BY <1>2 DEF Arms
  <2>2. world.condition # Cancelled
    BY CancelledLanes DEF OpeningOf, Recovered
  <2>3. lanes["A3-D"] = frontier[2]
    BY DEF RegimesInv, ParityInv, BASELINE_THRESHOLD
  <2>4. world.condition \notin CardBrokenKeys \cup {"ambiguous_decline"}
    BY <2>2, <2>3 DEF PatienceInv, Steady
  <2>5. world.latent.card
    BY <2>2, <2>4, BrokenConditions DEF RescueInv, LanesInv, WorldType
  <2>6. Fair(arm)
    BY <2>4, <2>5 DEF Fair
  <2> QED BY <2>1, <2>2, <2>3, <2>6 DEF PatienceInv, Matched, Recovered
<1> QED BY <1>1, <1>2

\* Every invoice lost to a comparator is the price of a customer A3-D left alone
\* on the day of the halt: for every budget of three contacts or more, window,
\* sweep and set of draws, on a schedule that halts on day 3 or 4.  With a budget
\* of two, A3-D's rescue and the two prompts of A2-strengthened cost the same,
\* and the deficit is no longer bought with contacts.
THEOREM DeficitIsTheRestraint ==
  ASSUME HaltDay \in {3, 4}, MaxContacts >= 3
  PROVE  DiagSpec => []DeficitIsRestraint
<1>1. LanesInv /\ RescueInv /\ RegimesInv /\ PatienceInv /\ RestraintInv
        => DeficitIsRestraint
  <2> SUFFICES ASSUME LanesInv, RescueInv, RegimesInv, PatienceInv, RestraintInv
               PROVE  DeficitIsRestraint
    OBVIOUS
  <2>1. lanes["A3-D"].stopped =>
          \A arm \in Arms \ {"A4"} : Recovered(arm) => Recovered("A3-D")
    BY StoppingCostsNothing
  <2>2. ASSUME NEW comp \in COMPARATORS, ComparatorOnly(comp)
        PROVE  /\ Bucket(comp) # "A_D1"
               /\ ~world.latent.card
               /\ \A k \in AgentSends("A3-D") : Sent("A3-D")[k].day # HaltDay
               /\ world.condition \in CARD_BROKEN => Bucket(comp) # "E_more"
               /\ comp = "A2_STRENGTHENED" =>
                    world.condition \in CARD_BROKEN /\ Bucket(comp) = "A_D2"
    <3> DEFINE x == lanes["A3-D"]
               own == x.ep.contacts
               theirs == lanes[comp].ep.contacts
    <3>1. /\ ~x.stopped /\ Quiet(x.ep) /\ ~world.latent.card
          /\ own \in Nat /\ theirs \in Nat
          /\ \/ /\ world.condition \in CardBrokenKeys
                /\ Withheld(x, day) /\ Prompted(comp, lanes[comp], day)
             \/ world.condition \notin CardBrokenKeys /\ comp = "A1"
      BY <2>2, OnlyTheRestrained
    <3>2. CARD_BROKEN = CardBrokenKeys
      BY DEF CARD_BROKEN, CardBrokenKeys
    <3>3. \A k \in AgentSends("A3-D") : Sent("A3-D")[k].day # HaltDay
      BY <3>1 DEF AgentSends, Sent, Quiet, SendsOf
    <3>4. day \in Nat
      BY PairedAssumption DEF LanesInv
    <3>5. Bucket(comp) = CASE own < theirs -> "A_D2"
                           [] own = theirs -> "E_same"
                           [] own > theirs -> "E_more"
      BY <3>1 DEF Bucket
    <3>6. ASSUME world.condition \in CardBrokenKeys
          PROVE  /\ own <= theirs
                 /\ comp = "A2_STRENGTHENED" => own < theirs
      <4>1. day > 3 /\ own <= 1 + One(day > 5)
        BY <3>1, <3>6 DEF Withheld
      <4>2. theirs = One(day > 0) + One(day > 3)
                       + One(comp = "A2_STRENGTHENED" /\ day > 5)
        BY <3>1, <3>6 DEF Prompted
      <4>3. One(day > 0) = 1 /\ One(day > 3) = 1
        BY <3>4, <4>1 DEF One
      <4>4. One(day > 5) \in {0, 1}
            /\ One(comp = "A2_STRENGTHENED" /\ day > 5) \in {0, 1}
        BY DEF One
      <4>5. comp = "A2_STRENGTHENED" =>
              One(comp = "A2_STRENGTHENED" /\ day > 5) = One(day > 5)
        BY DEF One
      <4> HIDE DEF own, theirs
      <4> QED BY <3>1, <4>1, <4>2, <4>3, <4>4, <4>5
    <3> HIDE DEF own, theirs, x
    <3>7. /\ own < theirs => Bucket(comp) = "A_D2"
          /\ own = theirs => Bucket(comp) = "E_same"
          /\ own > theirs => Bucket(comp) = "E_more"
          /\ own < theirs \/ own = theirs \/ own > theirs
      BY <3>1, <3>5
    <3>8. Bucket(comp) # "A_D1"
      BY <3>7
    <3>9. world.condition \in CARD_BROKEN => Bucket(comp) # "E_more"
      BY <3>1, <3>2, <3>6, <3>7
    <3>10. comp = "A2_STRENGTHENED" =>
             world.condition \in CARD_BROKEN /\ Bucket(comp) = "A_D2"
      BY <3>1, <3>2, <3>6, <3>7
    <3> QED BY <3>1, <3>3, <3>8, <3>9, <3>10
  <2> QED BY <2>1, <2>2 DEF DeficitIsRestraint
<1> QED BY <1>1, PatienceInvariant, RestraintInvariant, PTL

=============================================================================
