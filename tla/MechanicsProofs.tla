--------------------------- MODULE MechanicsProofs ---------------------------
(***************************************************************************)
(* What an episode's hidden mechanics guarantee to a policy that cannot    *)
(* see them: A3-D's STOP forgoes nothing, a bank-side error heals itself,  *)
(* and no engagement is lost between wake-ups.  And what A3-D, which sees  *)
(* as little, spares the customer.                                         *)
(***************************************************************************)
EXTENDS A3RunnerProofs

\* The failures that leave the card alone, and those that leave the funds alone.
CardWorks == DeclineCodes \ (CardBrokenKeys \cup {"ambiguous_decline"})
FundsThere == {"bank_technical_error", "transaction_limit_exceeded",
               "payment_risk_check_failed"}

\* What the day loop never changes about the latent state it drew.
LatentLog ==
  /\ condition \in CardWorks => ep.card /\ ep.cardAtOpening
  /\ condition \in FundsThere => ep.funds = 0
  /\ condition = "bank_technical_error" =>
       ep.mandate /\ ep.blocked \in ClearanceTimes
  /\ halted => day >= HaltDay

-----------------------------------------------------------------------------
\* No step breaks a card, delays the funds, loses an invoice or touches the rest
\* of the latent state.
LEMMA LatentOnlyImproves ==
  ASSUME IInv, [Next]_vars
  PROVE  /\ ep.card => ep'.card
         /\ ep.invoice => ep'.invoice
         /\ ep'.funds \in Nat
         /\ ep'.funds <= ep.funds
         /\ ep'.cardAtOpening = ep.cardAtOpening
         /\ ep'.blocked = ep.blocked
         /\ ep'.mandate = ep.mandate
<1>1. /\ ep \in EpisodeState
      /\ ep' \in EpisodeState
      /\ day \in Nat
      /\ ep.funds \in Nat
      /\ ep'.funds \in Nat
  BY RunnerAssumption, IInvInductive DEF IInv, TypeOK, EpisodeState
<1>2. AutoEmail \in Remedies
  BY DEF Remedies
<1>3. CASE ep' = ep
  BY <1>1, <1>3
<1>4. CASE \E draw \in Draws : ep' = SendMessage(ep, day, AutoEmail, draw)
  BY <1>1, <1>2, <1>4, MessageChanges
<1>5. CASE Decide
  <2>1. PICK p : Execute(p, Executed(p, View))
    BY <1>5 DEF Decide, Decision
  <2>2. CASE Executed(p, View) = "CONTACT"
    <3>1. PICK draw \in Draws :
            ep' = SendContact(condition, ep, day, p.remedy, draw)
      BY <2>1, <2>2 DEF Execute
    <3>2. p.remedy \in AgentRemedies
      BY <2>2, AcceptedContactIsAllowed
    <3> QED BY <1>1, <3>1, <3>2, ContactChanges
  <2>3. CASE Executed(p, View) # "CONTACT"
    BY <1>3, <2>1, <2>3 DEF Execute
  <2> QED BY <2>2, <2>3
<1>6. CASE ep' = [ep EXCEPT !.invoice = TRUE, !.sub = "active"]
  BY <1>1, <1>6 DEF EpisodeState
<1>7. ASSUME NEW draw \in Draws, ep' = AfterHalt(ep, day, draw)
      PROVE  /\ ep.card => ep'.card
             /\ ep.invoice => ep'.invoice
             /\ ep'.funds <= ep.funds
             /\ ep'.cardAtOpening = ep.cardAtOpening
             /\ ep'.blocked = ep.blocked
             /\ ep'.mandate = ep.mandate
  <2> DEFINE e == [ep EXCEPT !.sub = "halted"]
  <2>1. /\ e \in EpisodeState
        /\ e.card = ep.card
        /\ e.invoice = ep.invoice
        /\ e.funds = ep.funds
        /\ e.cardAtOpening = ep.cardAtOpening
        /\ e.blocked = ep.blocked
        /\ e.mandate = ep.mandate
    BY <1>1 DEF EpisodeState, SubscriptionStates
  <2>2. ep' = SendMessage(e, day, AutoEmail, draw)
    BY <1>7 DEF AfterHalt
  <2> HIDE DEF e
  <2> QED BY <1>1, <1>2, <2>1, <2>2, MessageChanges
<1>8. CASE OpenDay
  BY <1>3, <1>4, <1>8 DEF OpenDay
<1>9. CASE Retry
  BY <1>3, <1>6, <1>9 DEF Retry, AfterRetry
<1>10. CASE Halt
  BY <1>1, <1>3, <1>7, <1>10 DEF Halt
<1>11. CASE WriteLedger \/ Terminated \/ UNCHANGED vars
  BY <1>3, <1>11 DEF WriteLedger, Terminated, vars
<1> QED BY <1>1, <1>5, <1>8, <1>9, <1>10, <1>11 DEF Next

LEMMA InitLatentLog == Init => LatentLog
<1> SUFFICES ASSUME Init PROVE LatentLog
  OBVIOUS
<1>1. PICK latent \in LatentStates(condition) : ep = Opening(condition, latent)
  BY DEF Init
<1>2. condition \in CardWorks => latent.card
  BY <1>1 DEF LatentStates, Latent, CardWorks, DeclineCodes, CardBrokenKeys,
              Cancelled
<1>3. condition \in FundsThere => latent.funds = 0
  BY <1>1 DEF LatentStates, Latent, FundsThere, CardBrokenKeys
<1>4. condition = "bank_technical_error" =>
        latent.mandate /\ latent.blocked \in ClearanceTimes
  <2> HAVE condition = "bank_technical_error"
  <2>1. PICK b \in ClearanceTimes : latent = Latent(TRUE, 0, b, TRUE)
    BY <1>1 DEF LatentStates, CardBrokenKeys, Cancelled
  <2> QED BY <2>1 DEF Latent
<1> QED BY <1>1, <1>2, <1>3, <1>4 DEF Init, Opening, LatentLog

LEMMA LatentLogStep == IInv /\ LatentLog /\ [Next]_vars => LatentLog'
<1> SUFFICES ASSUME IInv, LatentLog, [Next]_vars PROVE LatentLog'
  OBVIOUS
<1>1. /\ ep.card => ep'.card
      /\ ep'.funds \in Nat
      /\ ep'.funds <= ep.funds
      /\ ep'.cardAtOpening = ep.cardAtOpening
      /\ ep'.blocked = ep.blocked
      /\ ep'.mandate = ep.mandate
  BY LatentOnlyImproves
<1>2. condition' = condition
  BY DEF Next, OpenDay, Decide, Retry, Halt, WriteLedger, Terminated, vars
<1>3. halted' => day' >= HaltDay
  <2>1. day \in Nat /\ HaltDay \in Nat
    BY RunnerAssumption, WorldAssumption DEF IInv, TypeOK
  <2>2. CASE Halt
    <3>1. day' = day /\ (HaltsNow(ep, day, halted) \/ halted' = halted)
      BY <2>2 DEF Halt
    <3>2. HaltsNow(ep, day, halted) => day = HaltDay
      BY DEF HaltsNow
    <3>3. halted => day >= HaltDay
      BY DEF LatentLog
    <3>4. halted' => HaltsNow(ep, day, halted) \/ halted
      BY <3>1, Zenon
    <3>5. day' = day /\ (day = HaltDay => day >= HaltDay)
      BY <2>1, <3>1
    <3> QED BY <3>2, <3>3, <3>4, <3>5
  <2>3. CASE WriteLedger
    BY <2>1, <2>3 DEF WriteLedger, NextDay, LatentLog
  <2>4. CASE ~Halt /\ ~WriteLedger
    BY <2>4 DEF Next, OpenDay, Decide, Retry, Terminated, vars, LatentLog
  <2> QED BY <2>2, <2>3, <2>4
<1> QED BY <1>1, <1>2, <1>3 DEF LatentLog

LEMMA LatentLogAlways == Spec => []LatentLog
BY InitLatentLog, LatentLogStep, IInvAlways, PTL DEF Spec

-----------------------------------------------------------------------------
\* Where A3-D says STOP: the failures with the funds in place, and a customer
\* without funds from day 3 or from the halt on.
LEMMA StopCases ==
  ASSUME NEW view, A3D(view).action = "STOP"
  PROVE  \/ view.state = "active"
         \/ view.decline \in FundsThere
         \/ /\ view.decline = "insufficient_funds"
            /\ (view.state = "halted" \/ view.day >= 3)
<1>1. PICK r \in A3DRules(view) : r.when /\ A3D(view) = r.proposal
  BY A3DChooses
<1>2. r.proposal.rule \in {1, 2, 3, 5, 6, 7}
  BY <1>1 DEF A3DRules, A3DTable, Rule, Proposal
<1>3. CASE r.proposal.rule = 1
  <2>1. r = Rule(1, view.state = "active", "STOP", NoRemedy, Restraint)
    BY <1>3 DEF A3DRules, A3DTable, Rule, Proposal
  <2> QED BY <1>1, <2>1 DEF Rule
<1>4. CASE r.proposal.rule = 2
  <2>1. r = Rule(2, view.decline = "payment_risk_check_failed",
                "STOP", NoRemedy, "risk_flagged")
    BY <1>4 DEF A3DRules, A3DTable, Rule, Proposal
  <2> QED BY <1>1, <2>1 DEF Rule, FundsThere
<1>5. CASE r.proposal.rule = 3
  <2>1. r = Rule(3, view.decline = "transaction_limit_exceeded",
                "STOP", NoRemedy, Restraint)
    BY <1>5 DEF A3DRules, A3DTable, Rule, Proposal
  <2> QED BY <1>1, <2>1 DEF Rule, FundsThere
<1>6. CASE r.proposal.rule = 5
  <2>1. r = Rule(5, view.decline = "bank_technical_error",
                "STOP", NoRemedy, Restraint)
    BY <1>6 DEF A3DRules, A3DTable, Rule, Proposal
  <2> QED BY <1>1, <2>1 DEF Rule, FundsThere
<1>7. CASE r.proposal.rule = 6
  <2>1. r = Rule(6, view.decline = "insufficient_funds" /\ view.state = "halted",
                "STOP", NoRemedy, Restraint)
    BY <1>7 DEF A3DRules, A3DTable, Rule, Proposal
  <2> QED BY <1>1, <2>1 DEF Rule
<1>8. CASE r.proposal.rule = 7
  <2>1. r = Rule(7, view.decline = "insufficient_funds" /\ view.day >= 3,
                "STOP", NoRemedy, Restraint)
    BY <1>8 DEF A3DRules, A3DTable, Rule, Proposal
  <2> QED BY <1>1, <2>1 DEF Rule
<1> QED BY <1>2, <1>3, <1>4, <1>5, <1>6, <1>7, <1>8

\* A message cannot change a retry of a working card whose funds are there.
LEMMA NothingToRepair ==
  ASSUME NEW e \in EpisodeState, e.card, e.funds = 0,
         NEW d \in Nat, NEW remedy \in Remedies, NEW draw \in Draws,
         NEW r \in Nat
  PROVE  RetrySucceeds(SendMessage(e, d, remedy, draw), r)
           = RetrySucceeds(e, r)
<1> DEFINE f == SendMessage(e, d, remedy, draw)
<1>1. /\ f \in EpisodeState
      /\ f.funds <= e.funds
      /\ e.card => f.card
      /\ f.blocked = e.blocked
      /\ f.mandate = e.mandate
  BY MessageChanges
<1> HIDE DEF f
<1>2. f.funds = e.funds /\ f.card
  BY <1>1 DEF EpisodeState
<1>3. RetrySucceeds(f, r) = RetrySucceeds(e, r)
  BY <1>1, <1>2 DEF RetrySucceeds
<1> QED BY <1>3 DEF f

\* Nor that of the very day it is sent: a top-up takes time.
LEMMA TooLateForToday ==
  ASSUME NEW e \in EpisodeState, e.card,
         NEW d \in Nat, NEW remedy \in Remedies, NEW draw \in Draws
  PROVE  RetrySucceeds(SendMessage(e, d, remedy, draw), d)
           = RetrySucceeds(e, d)
<1> DEFINE g == MessageEffect(e, d, remedy, draw)
           f == SendMessage(e, d, remedy, draw)
<1>1. /\ f \in EpisodeState
      /\ e.card => f.card
      /\ f.blocked = e.blocked
      /\ f.mandate = e.mandate
  BY MessageChanges
<1>2. g \in EpisodeState /\ f.funds = g.funds
  <2>1. g \in EpisodeState
    BY EffectOnlyHelps
  <2> HIDE DEF g
  <2>2. f.funds = g.funds
    BY <2>1 DEF SendMessage, EpisodeState, g
  <2> QED BY <2>1, <2>2
<1>3. d * TicksPerDay \in Nat /\ draw.topup \in Nat
  BY WorldAssumption, DrawsAreTyped DEF DrawsType
<1>4. d * TicksPerDay >= g.funds <=> d * TicksPerDay >= e.funds
  <2> DEFINE h == IF draw.engaged /\ NamesCard(remedy)
                  THEN CardEffect(e, draw) ELSE e
             k == DuesEffect(h, d, draw)
  <2>1. h \in EpisodeState /\ h.funds = e.funds
    BY DrawsAreTyped DEF CardEffect, EpisodeState, DrawsType
  <2>2. d * TicksPerDay >= k.funds <=> d * TicksPerDay >= h.funds
    <3> HIDE DEF h
    <3>1. h.funds \in Nat /\ h.topups \in Nat
      BY <2>1 DEF EpisodeState
    <3>2. \/ k.funds = h.funds
          \/ /\ draw.topup > 0
             /\ k.funds = d * TicksPerDay + draw.topup
             /\ d * TicksPerDay + draw.topup < h.funds
      BY <2>1 DEF DuesEffect, EpisodeState
    <3> HIDE DEF k
    <3> QED BY <1>3, <3>1, <3>2
  <2>3. g = h \/ g = k
    BY DEF MessageEffect
  <2> HIDE DEF g, h, k
  <2> QED BY <2>1, <2>2, <2>3
<1> HIDE DEF f, g
<1>5. RetrySucceeds(f, d) = RetrySucceeds(e, d)
  BY <1>1, <1>2, <1>4 DEF RetrySucceeds, EpisodeState
<1> QED BY <1>5 DEF f

\* Stopping forgoes nothing, on every schedule that halts by the third day:
\* A3-D stops on the strength of mechanics it cannot observe, and is right.
THEOREM StopForgoesNothing ==
  ASSUME HaltDay <= 3
  PROVE  Spec => []StopIsCostless
<1>1. IInv /\ LatentLog => StopIsCostless
  <2> SUFFICES ASSUME IInv, LatentLog, phase = "decide",
                      A3D(View).action = "STOP"
               PROVE  /\ ep.cardAtOpening
                      /\ \A sent \in day..HaltDay, remedy \in Remedies,
                            draw \in Draws :
                           \A r \in RetryDays : r >= sent =>
                             RetrySucceeds(SendMessage(ep, sent, remedy, draw), r)
                               = RetrySucceeds(ep, r)
    BY DEF StopIsCostless
  <2>1. /\ ep \in EpisodeState
        /\ day \in Nat
        /\ HaltDay \in Nat
        /\ RetryDays \subseteq 0..HaltDay
    BY RunnerAssumption, WorldAssumption DEF IInv, TypeOK
  <2>2. ep.sub \in {"pending", "halted"}
    BY DEF IInv, Spending
  <2>3. \/ condition \in FundsThere
        \/ /\ condition = "insufficient_funds"
           /\ (ep.sub = "halted" \/ day >= 3)
    BY <2>2, StopCases DEF View, BuildView
  <2>4. condition \in CardWorks
    BY <2>3 DEF FundsThere, CardWorks, DeclineCodes, CardBrokenKeys
  <2>5. ep.card /\ ep.cardAtOpening
    BY <2>4 DEF LatentLog
  <2>6. ASSUME NEW sent \in day..HaltDay, NEW remedy \in Remedies,
               NEW draw \in Draws, NEW r \in RetryDays, r >= sent
        PROVE  RetrySucceeds(SendMessage(ep, sent, remedy, draw), r)
                 = RetrySucceeds(ep, r)
    <3>1. sent \in Nat /\ r \in Nat /\ r <= HaltDay /\ day <= sent
      BY <2>1
    <3>2. CASE condition \in FundsThere
      BY <2>1, <2>5, <3>1, <3>2, NothingToRepair DEF LatentLog
    <3>3. CASE condition = "insufficient_funds"
      <4>1. ep.sub = "halted" \/ day >= 3
        BY <2>3, <3>3 DEF FundsThere
      <4>2. day >= HaltDay
        BY <2>1, <4>1 DEF IInv, OutcomeShape, LatentLog, Cancelled
      <4>3. r = sent
        BY <2>1, <2>6, <3>1, <4>2
      <4> QED BY <2>1, <2>5, <3>1, <4>3, TooLateForToday
    <3> QED BY <2>3, <3>2, <3>3
  <2> QED BY <2>5, <2>6
<1> QED BY <1>1, IInvAlways, LatentLogAlways, PTL

-----------------------------------------------------------------------------
\* From the second day's retry on, the invoice of a bank error is recovered.
HealedLog ==
  condition = "bank_technical_error" =>
    /\ (day > 2 \/ (day = 2 /\ phase \in {"halt", "ledger", "done"})) => ep.invoice
    /\ ~halted

\* An error that clears within two days is healed by the retry of day 2 and
\* never halts the subscription.
THEOREM BankErrorsHeal ==
  ASSUME 2 \in RetryDays, HaltDay > 2,
         \A b \in ClearanceTimes : b <= 2 * TicksPerDay
  PROVE  Spec => []BankErrorSelfHeals
<1>1. Init => HealedLog
  <2> SUFFICES ASSUME Init PROVE HealedLog
    OBVIOUS
  <2> QED BY DEF Init, HealedLog
<1>2. IInv /\ LatentLog /\ HealedLog /\ [Next]_vars => HealedLog'
  <2> SUFFICES ASSUME IInv, LatentLog, HealedLog, [Next]_vars,
                      condition' = "bank_technical_error"
               PROVE  /\ (day' > 2 \/ (day' = 2 /\ phase' \in {"halt", "ledger", "done"}))
                           => ep'.invoice
                      /\ ~halted'
    BY DEF HealedLog
  <2>1. /\ condition = "bank_technical_error"
        /\ ~halted
        /\ ep \in EpisodeState
        /\ ep' \in EpisodeState
        /\ day \in Nat
        /\ HaltDay \in Nat
        /\ HaltDay > 2
    <3>1. condition' = condition
      BY DEF Next, OpenDay, Decide, Retry, Halt, WriteLedger, Terminated, vars
    <3> QED BY <3>1, IInvInductive, RunnerAssumption, WorldAssumption
            DEF IInv, TypeOK, HealedLog
  <2>2. CASE Retry
    <3>1. CASE day = 2 /\ ~ep.invoice
      <4>1. RetrySucceeds(ep, 2)
        <5>1. ep.card
          BY <2>1 DEF LatentLog, CardWorks, DeclineCodes, CardBrokenKeys
        <5>2. /\ ep.funds = 0
              /\ ep.mandate
              /\ ep.blocked <= 2 * TicksPerDay
              /\ ep.blocked \in Nat
          BY <2>1 DEF LatentLog, FundsThere, EpisodeState
        <5>3. 2 * TicksPerDay \in Nat
          BY WorldAssumption
        <5> QED BY <5>1, <5>2, <5>3 DEF RetrySucceeds
      <4>2. ep' = [ep EXCEPT !.invoice = TRUE, !.sub = "active"]
        BY <2>1, <2>2, <3>1, <4>1 DEF Retry, AfterRetry
      <4>3. ep'.invoice
        BY <2>1, <4>2 DEF EpisodeState
      <4> QED BY <2>1, <2>2, <4>3 DEF Retry
    <3>2. CASE day # 2 \/ ep.invoice
      <4>1. ep.invoice => ep'.invoice
        BY <2>1, <2>2 DEF Retry, AfterRetry, EpisodeState
      <4> QED BY <2>1, <2>2, <3>2, <4>1 DEF Retry, HealedLog
    <3> QED BY <3>1, <3>2
  <2>3. CASE Halt
    <3>1. day = HaltDay => ep.invoice
      BY <2>1 DEF HealedLog
    <3>2. ~HaltsNow(ep, day, halted)
      BY <3>1 DEF HaltsNow
    <3> QED BY <2>1, <2>3, <3>2 DEF Halt, HealedLog
  <2>4. CASE OpenDay \/ Decide
    <3>1. ep.invoice => ep'.invoice
      BY LatentOnlyImproves
    <3> QED BY <2>1, <2>4, <3>1 DEF OpenDay, Decide, HealedLog
  <2>5. CASE WriteLedger
    BY <2>1, <2>5 DEF WriteLedger, NextDay, HealedLog
  <2>6. CASE Terminated \/ UNCHANGED vars
    BY <2>1, <2>6 DEF Terminated, vars, HealedLog
  <2> QED BY <2>2, <2>3, <2>4, <2>5, <2>6 DEF Next
<1>3. HealedLog => BankErrorSelfHeals
  BY DEF HealedLog, BankErrorSelfHeals
<1> QED BY <1>1, <1>2, <1>3, IInvAlways, LatentLogAlways, PTL DEF Spec

-----------------------------------------------------------------------------
\* What a policy saw last is what the wake-up test counts from.
WakeLog ==
  /\ lastWake = shown
  /\ phase = "decide" => tick.type = "wakeup"
  /\ phase = "retry" /\ tick.type = "no_wakeup" => ~NewEngagement(ep.history)

\* A day is never skipped over an engagement no policy has seen.
THEOREM EngagementAlwaysShown == Spec => []EngagementIsShown
<1>1. Init => WakeLog
  BY DEF Init, WakeLog
<1>2. IInv /\ WakeLog /\ [Next]_vars => WakeLog'
  <2> SUFFICES ASSUME IInv, WakeLog, [Next]_vars PROVE WakeLog'
    OBVIOUS
  <2>1. CASE OpenDay
    BY <2>1 DEF OpenDay, BlankTick, TickType, NewEngagement, WakeLog
  <2>2. CASE Decide
    <3>1. tick.type = "wakeup" /\ tick'.type = tick.type
      BY <2>2 DEF Decide, Decision, WakeLog, IInv, TypeOK, TickRecords
    <3> QED BY <2>2, <3>1 DEF Decide, WakeLog
  <2>3. CASE Retry \/ Halt \/ WriteLedger \/ Terminated \/ UNCHANGED vars
    BY <2>3 DEF Retry, Halt, WriteLedger, NextDay, Terminated, vars, WakeLog,
                NewEngagement
  <2> QED BY <2>1, <2>2, <2>3 DEF Next
<1>3. IInv /\ WakeLog => EngagementIsShown
  <2> SUFFICES ASSUME IInv, WakeLog, phase = "retry", tick.type = "no_wakeup",
                      NEW k \in DOMAIN ep.history, ep.history[k].engaged
               PROVE  k <= shown
    BY DEF EngagementIsShown
  <2>1. k \in Nat /\ shown \in Nat
    BY LenProperties DEF IInv, TypeOK, EpisodeState
  <2> QED BY <2>1 DEF WakeLog, NewEngagement
<1> QED BY <1>1, <1>2, <1>3, IInvAlways, PTL DEF Spec

-----------------------------------------------------------------------------
(***************************************************************************)
(* A3-D's restraint: a silent customer is left alone, and at most one      *)
(* contact is spent after the halt.  The table of rules decides on the day *)
(* and on the history it is shown; the promises are about the messages the *)
(* episode ends up with.                                                   *)
(***************************************************************************)
DayOf(k) == ep.history[k].day

\* The history starts with the automatic email of day 0.
EmailFirst ==
  \/ ep.history # <<>> /\ ~IsAgentContact(ep.history[1].remedy)
  \/ ep.history = <<>> /\ (condition = Cancelled \/ (day = 0 /\ phase = "open"))

\* An agent contact of the first days, or the rescue attempt of day 5.
ContactDays ==
  \A k \in AgentContacts :
    /\ condition \in Contactable
    /\ DayOf(k) \in 0..day
    /\ phase \in {"open", "decide"} => DayOf(k) # day
    /\ \/ DayOf(k) <= 3
       \/ DayOf(k) = 5 /\ halted /\ condition # "insufficient_funds"

OneADay == \A j, k \in AgentContacts : DayOf(j) = DayOf(k) => j = k

\* Until somebody engages, the first contact is the only early one.
OneIfSilent ==
  ~AnyEngaged(ep.history) =>
    \A j, k \in AgentContacts : DayOf(j) <= 3 /\ DayOf(k) <= 3 => j = k

BrokenAtOpening == condition \in CardBrokenKeys => ~ep.cardAtOpening

Contacts == EmailFirst /\ ContactDays /\ OneADay /\ OneIfSilent

RestraintLog == BrokenAtOpening /\ Contacts

-----------------------------------------------------------------------------
LEMMA RescueRule ==
  ASSUME NEW view, A3D(view).rule = 11
  PROVE  /\ view.state = "halted"
         /\ view.decline \in CardBrokenKeys \cup {"ambiguous_decline"}
<1>1. PICK r \in A3DRules(view) : r.when /\ A3D(view) = r.proposal
  BY A3DChooses
<1>2. r = Rule(11, (view.decline \in CARD_BROKEN
                      \/ view.decline = "ambiguous_decline")
                    /\ PostHaltRescueDue(view),
               "CONTACT", "card_change", "post_halt_rescue")
  BY <1>1 DEF A3DRules, A3DTable, Rule, Proposal
<1> QED BY <1>1, <1>2 DEF Rule, PostHaltRescueDue, CARD_BROKEN, CardBrokenKeys

-----------------------------------------------------------------------------
\* What appending one message does to the positions of the history.
LEMMA OneMoreMessage ==
  ASSUME ep.history \in Seq(ContactRecord), NEW record,
         ep'.history = Append(ep.history, record)
  PROVE  LET n == Len(ep.history) + 1
         IN /\ Len(ep.history) \in Nat
            /\ DOMAIN ep.history = 1..Len(ep.history)
            /\ DOMAIN ep'.history = 1..n
            /\ ep'.history # <<>>
            /\ ep'.history[n] = record
            /\ \A k \in DOMAIN ep.history : ep'.history[k] = ep.history[k]
            /\ AnyEngaged(ep.history) => AnyEngaged(ep'.history)
<1> DEFINE n == Len(ep.history) + 1
<1>1. /\ Len(ep.history) \in Nat
      /\ DOMAIN ep.history = 1..Len(ep.history)
      /\ DOMAIN ep'.history = 1..n
      /\ ep'.history[n] = record
      /\ \A k \in DOMAIN ep.history : ep'.history[k] = ep.history[k]
  BY LenProperties
<1>2. ep'.history # <<>>
  <2>1. Len(ep'.history) = n
    BY LenProperties
  <2> QED BY <1>1, <2>1
<1>3. AnyEngaged(ep.history) => AnyEngaged(ep'.history)
  BY <1>1 DEF AnyEngaged
<1> QED BY <1>1, <1>2, <1>3

\* The automatic email is no contact, and it can only break a silence.
LEMMA EmailKeepsContacts ==
  ASSUME Contacts, ep.history \in Seq(ContactRecord),
         phase # "done", phase' # "done", condition # Cancelled,
         condition' = condition, day' = day, day \in Nat,
         halted => halted', phase' \in {"open", "decide"} => phase = "open",
         NEW engaged,
         ep'.history = Append(ep.history, [day |-> day, remedy |-> AutoEmail,
                                           engaged |-> engaged])
  PROVE  Contacts'
<1> DEFINE n == Len(ep.history) + 1
           record == [day |-> day, remedy |-> AutoEmail, engaged |-> engaged]
<1>1. /\ Len(ep.history) \in Nat
      /\ DOMAIN ep.history = 1..Len(ep.history)
      /\ DOMAIN ep'.history = 1..n
      /\ ep'.history # <<>>
      /\ ep'.history[n] = record
      /\ \A k \in DOMAIN ep.history : ep'.history[k] = ep.history[k]
      /\ AnyEngaged(ep.history) => AnyEngaged(ep'.history)
  BY OneMoreMessage
<1>2. ~IsAgentContact(ep'.history[n].remedy)
  BY <1>1 DEF IsAgentContact
<1>3. AgentContacts' = AgentContacts
  BY <1>1, <1>2 DEF AgentContacts
<1>4. \A k \in AgentContacts : DayOf(k)' = DayOf(k)
  BY <1>1 DEF AgentContacts, DayOf
<1>5. EmailFirst'
  <2>1. CASE ep.history = <<>>
    BY <1>1, <1>2, <2>1 DEF EmailFirst
  <2>2. CASE ep.history # <<>>
    <3>1. 1 \in DOMAIN ep.history
      BY <1>1, <2>2, EmptySeq
    <3> QED BY <1>1, <2>2, <3>1 DEF EmailFirst, Contacts
  <2> QED BY <2>1, <2>2
<1>6. ContactDays'
  <2> SUFFICES ASSUME NEW k \in AgentContacts
               PROVE  /\ condition' \in Contactable
                      /\ DayOf(k)' \in 0..day'
                      /\ phase' \in {"open", "decide"} => DayOf(k)' # day'
                      /\ \/ DayOf(k)' <= 3
                         \/ /\ DayOf(k)' = 5 /\ halted'
                            /\ condition' # "insufficient_funds"
    BY <1>3 DEF ContactDays
  <2> QED BY <1>4 DEF Contacts, ContactDays
<1>7. OneADay'
  BY <1>3, <1>4 DEF Contacts, OneADay
<1>8. OneIfSilent'
  BY <1>1, <1>3, <1>4 DEF Contacts, OneIfSilent
<1> QED BY <1>5, <1>6, <1>7, <1>8 DEF Contacts

\* A contact on a day the table allows is the only one of that day, and a silent
\* customer who already got one early gets no second.
LEMMA ContactKeepsContacts ==
  ASSUME Contacts, ep.history \in Seq(ContactRecord),
         phase = "decide", phase' = "retry", condition' = condition,
         day' = day, day \in Nat, halted' = halted,
         condition \in Contactable,
         \/ day = 0
         \/ day \in {2, 3} /\ (Len(ep.history) < 2 \/ AnyEngaged(ep.history))
         \/ day = 5 /\ halted /\ condition # "insufficient_funds",
         NEW engaged, NEW remedy \in AgentRemedies,
         ep'.history = Append(ep.history, [day |-> day, remedy |-> remedy,
                                           engaged |-> engaged])
  PROVE  Contacts'
<1> DEFINE n == Len(ep.history) + 1
           record == [day |-> day, remedy |-> remedy, engaged |-> engaged]
<1>1. /\ Len(ep.history) \in Nat
      /\ DOMAIN ep.history = 1..Len(ep.history)
      /\ DOMAIN ep'.history = 1..n
      /\ ep'.history # <<>>
      /\ ep'.history[n] = record
      /\ \A k \in DOMAIN ep.history : ep'.history[k] = ep.history[k]
      /\ AnyEngaged(ep.history) => AnyEngaged(ep'.history)
  BY OneMoreMessage
<1>2. IsAgentContact(ep'.history[n].remedy)
  BY <1>1 DEF IsAgentContact, AgentRemedies, AutoEmail
<1>3. AgentContacts' = AgentContacts \cup {n}
  BY <1>1, <1>2 DEF AgentContacts
<1>4. /\ \A k \in AgentContacts : ep'.history[k].day = DayOf(k)
      /\ ep'.history[n].day = day
  BY <1>1 DEF AgentContacts, DayOf
<1>5. /\ ep.history # <<>>
      /\ ~IsAgentContact(ep.history[1].remedy)
  BY DEF Contacts, EmailFirst, Contactable, CardBrokenKeys, Cancelled
<1>6. /\ 1 \in DOMAIN ep.history
      /\ 1 \notin AgentContacts
  BY <1>1, <1>5, EmptySeq DEF AgentContacts
<1>7. \A k \in AgentContacts : DayOf(k) \in 0..day /\ DayOf(k) # day
  BY DEF Contacts, ContactDays
<1> HIDE DEF n, record
<1>8. EmailFirst'
  BY <1>1, <1>5, <1>6 DEF EmailFirst
<1>9. ContactDays'
  <2> SUFFICES ASSUME NEW k \in AgentContacts \cup {n}
               PROVE  /\ condition' \in Contactable
                      /\ ep'.history[k].day \in 0..day'
                      /\ phase' \in {"open", "decide"} => ep'.history[k].day # day'
                      /\ \/ ep'.history[k].day <= 3
                         \/ /\ ep'.history[k].day = 5 /\ halted'
                            /\ condition' # "insufficient_funds"
    BY <1>3 DEF ContactDays, DayOf
  <2>1. CASE k \in AgentContacts
    BY <1>4, <2>1 DEF Contacts, ContactDays
  <2>2. CASE k = n
    <3>1. day \in 0..day
      OBVIOUS
    <3>2. day <= 3 \/ (day = 5 /\ halted /\ condition # "insufficient_funds")
      OBVIOUS
    <3> QED BY <1>4, <2>2, <3>1, <3>2
  <2> QED BY <2>1, <2>2
<1>10. OneADay'
  <2> SUFFICES ASSUME NEW j \in AgentContacts \cup {n},
                      NEW k \in AgentContacts \cup {n},
                      ep'.history[j].day = ep'.history[k].day
               PROVE  j = k
    BY <1>3 DEF OneADay, DayOf
  <2>1. CASE j \in AgentContacts /\ k \in AgentContacts
    <3>1. DayOf(j) = DayOf(k)
      BY <1>4, <2>1
    <3> QED BY <2>1, <3>1 DEF Contacts, OneADay
  <2> QED BY <1>4, <1>7, <2>1
<1>11. OneIfSilent'
  <2> SUFFICES ASSUME ~AnyEngaged(ep.history),
                      NEW j \in AgentContacts \cup {n},
                      NEW k \in AgentContacts \cup {n},
                      ep'.history[j].day <= 3, ep'.history[k].day <= 3
               PROVE  j = k
    BY <1>1, <1>3 DEF OneIfSilent, DayOf
  <2>1. ASSUME NEW i \in AgentContacts, day <= 3 PROVE FALSE
    <3>1. i \in DOMAIN ep.history /\ i # 1
      BY <1>6 DEF AgentContacts
    <3>2. Len(ep.history) >= 2
      BY <1>1, <3>1
    <3>3. day # 0
      BY <1>7
    <3> QED BY <1>1, <2>1, <3>2, <3>3
  <2>2. CASE j \in AgentContacts /\ k \in AgentContacts
    BY <1>4, <2>2 DEF Contacts, OneIfSilent
  <2> QED BY <1>4, <2>1, <2>2
<1> QED BY <1>8, <1>9, <1>10, <1>11 DEF Contacts

-----------------------------------------------------------------------------
\* Nothing but the messages, the days and the halt matters to Contacts.
LEMMA QuietStepKeepsContacts ==
  ASSUME Contacts, condition' = condition, ep'.history = ep.history,
         day' = day, halted' = halted,
         phase' \in {"open", "decide"} => phase \in {"open", "decide"},
         phase = "open" => phase' = "open" \/ day # 0
  PROVE  Contacts'
BY DEF Contacts, EmailFirst, ContactDays, OneADay, OneIfSilent, AgentContacts,
       DayOf

\* The agent of a decision is A3-D itself: its proposal is never rejected.
LEMMA A3DDecides ==
  ASSUME Policy = "A3-D", IInv, Decide
  PROVE  /\ A3D(View).action # "CONTACT" => ep' = ep
         /\ A3D(View).action = "CONTACT" =>
              \E remedy \in AgentRemedies, engaged \in BOOLEAN :
                ep'.history = Append(ep.history, [day |-> day,
                                 remedy |-> remedy, engaged |-> engaged])
<1>1. Accepts(A3D(View), View)
  BY FallbackAccepted DEF FallbackIsAccepted, Decide
<1>2. Decision(Output(A3D(View), "none"), View)
  BY DEF Decide, PolicyOutputs
<1>3. Execute(A3D(View), Executed(A3D(View), View))
  BY <1>1, <1>2 DEF Decision, Survivor, Output
<1>4. Executed(A3D(View), View) = "CONTACT" <=> A3D(View).action = "CONTACT"
  BY <1>1, A3DIsTyped DEF Executed
<1>5. CASE A3D(View).action # "CONTACT"
  BY <1>3, <1>4, <1>5 DEF Execute
<1>6. CASE A3D(View).action = "CONTACT"
  <2> DEFINE p == A3D(View)
  <2>1. p.remedy \in AgentRemedies
    BY <1>6, A3DIsTyped
  <2>2. PICK draw \in Draws :
          ep' = SendContact(condition, ep, day, p.remedy, draw)
    BY <1>3, <1>4, <1>6 DEF Execute
  <2> HIDE DEF p
  <2>3. ep \in EpisodeState /\ day \in Nat
    BY RunnerAssumption DEF IInv, TypeOK
  <2>4. \A remedy \in AgentRemedies :
          \E engaged \in BOOLEAN :
            SendContact(condition, ep, day, remedy, draw).history
              = Append(ep.history, [day |-> day, remedy |-> remedy,
                                    engaged |-> engaged])
    BY <2>3, ContactChanges
  <2>5. \E engaged \in BOOLEAN :
          ep'.history = Append(ep.history, [day |-> day, remedy |-> p.remedy,
                                            engaged |-> engaged])
    BY <2>1, <2>2, <2>4
  <2> QED BY <1>6, <2>1, <2>5
<1> QED BY <1>5, <1>6

\* Either automatic email adds one message, dated today.
LEMMA EmailIsLogged ==
  ASSUME NEW e \in EpisodeState, day \in Nat, NEW draw \in Draws,
         ep' = SendMessage(e, day, AutoEmail, draw)
  PROVE  \E engaged \in BOOLEAN :
           ep'.history = Append(e.history, [day |-> day, remedy |-> AutoEmail,
                                            engaged |-> engaged])
<1>1. AutoEmail \in Remedies
  BY DEF Remedies
<1> QED BY <1>1, MessageChanges

LEMMA ContactsStep ==
  ASSUME Policy = "A3-D"
  PROVE  IInv /\ Contacts /\ [Next]_vars => Contacts'
<1> SUFFICES ASSUME IInv, Contacts, [Next]_vars PROVE Contacts'
  OBVIOUS
<1>1. /\ ep \in EpisodeState
      /\ ep.history \in Seq(ContactRecord)
      /\ day \in Nat
  BY RunnerAssumption DEF IInv, TypeOK, EpisodeState
<1>2. phase # "done" => condition # Cancelled
  BY DEF IInv, OutcomeShape, DeclineCodes, CardBrokenKeys, Cancelled
<1>3. CASE OpenDay
  <2>1. CASE day = 0
    <3>1. PICK engaged \in BOOLEAN :
            ep'.history = Append(ep.history, [day |-> day,
                             remedy |-> AutoEmail, engaged |-> engaged])
      BY <1>1, <1>3, <2>1, EmailIsLogged DEF OpenDay
    <3> QED BY <1>1, <1>2, <1>3, <3>1, EmailKeepsContacts DEF OpenDay
  <2>2. CASE day # 0
    BY <1>3, <2>2, QuietStepKeepsContacts DEF OpenDay
  <2> QED BY <2>1, <2>2
<1>4. CASE Decide
  <2>1. CASE A3D(View).action # "CONTACT"
    <3>1. ep' = ep
      BY <1>4, <2>1, A3DDecides
    <3> QED BY <1>4, <3>1, QuietStepKeepsContacts DEF Decide
  <2>2. CASE A3D(View).action = "CONTACT"
    <3>1. PICK remedy \in AgentRemedies, engaged \in BOOLEAN :
            ep'.history = Append(ep.history, [day |-> day,
                             remedy |-> remedy, engaged |-> engaged])
      BY <1>4, <2>2, A3DDecides
    <3>2. /\ View.decline = condition
          /\ View.day = day
          /\ View.state = ep.sub
          /\ View.history = ep.history
      BY DEF View, BuildView
    <3>3. Len(ep.history) \in Nat
      BY <1>1, LenProperties
    <3>4. /\ condition \in Contactable
          /\ \/ day = 0
             \/ day \in {2, 3} /\ ~WithholdApplies(View)
             \/ /\ day = 5 /\ ep.sub = "halted"
                /\ condition # "insufficient_funds"
      BY <2>2, <3>2, ContactTimes
    <3>5. ~WithholdApplies(View) =>
            Len(ep.history) < 2 \/ AnyEngaged(ep.history)
      BY <3>2, <3>3 DEF WithholdApplies
    <3>6. ep.sub = "halted" => halted
      BY DEF IInv, OutcomeShape
    <3>7. \/ day = 0
          \/ day \in {2, 3} /\ (Len(ep.history) < 2 \/ AnyEngaged(ep.history))
          \/ day = 5 /\ halted /\ condition # "insufficient_funds"
      BY <3>4, <3>5, <3>6
    <3> QED BY <1>1, <1>4, <3>1, <3>4, <3>7, ContactKeepsContacts DEF Decide
  <2> QED BY <2>1, <2>2
<1>5. CASE Retry
  <2>1. ep'.history = ep.history
    BY <1>1, <1>5 DEF Retry, AfterRetry, EpisodeState
  <2> QED BY <1>5, <2>1, QuietStepKeepsContacts DEF Retry
<1>6. CASE Halt
  <2>1. CASE HaltsNow(ep, day, halted)
    <3> DEFINE e == [ep EXCEPT !.sub = "halted"]
    <3>1. e \in EpisodeState /\ e.history = ep.history
      BY <1>1 DEF EpisodeState, SubscriptionStates
    <3>2. PICK draw \in Draws : ep' = SendMessage(e, day, AutoEmail, draw)
      BY <1>6, <2>1 DEF Halt, AfterHalt
    <3> HIDE DEF e
    <3>3. PICK engaged \in BOOLEAN :
            ep'.history = Append(ep.history, [day |-> day,
                             remedy |-> AutoEmail, engaged |-> engaged])
      BY <1>1, <3>1, <3>2, EmailIsLogged
    <3> QED BY <1>1, <1>2, <1>6, <2>1, <3>3, EmailKeepsContacts DEF Halt
  <2>2. CASE ~HaltsNow(ep, day, halted)
    BY <1>6, <2>2, QuietStepKeepsContacts DEF Halt
  <2> QED BY <2>1, <2>2
<1>7. CASE WriteLedger
  <2>1. /\ condition' = condition
        /\ ep' = ep
        /\ halted' = halted
        /\ phase = "ledger"
        /\ \/ day' = day /\ phase' = "done"
           \/ day' = day + 1 /\ phase' = "open"
    BY <1>7 DEF WriteLedger, NextDay
  <2>2. EmailFirst' /\ OneADay' /\ OneIfSilent'
    BY <1>2, <2>1 DEF Contacts, EmailFirst, OneADay, OneIfSilent,
                      AgentContacts, DayOf
  <2>3. ContactDays'
    <3> SUFFICES ASSUME NEW k \in AgentContacts
                 PROVE  /\ condition \in Contactable
                        /\ DayOf(k) \in 0..day'
                        /\ phase' \in {"open", "decide"} => DayOf(k) # day'
                        /\ \/ DayOf(k) <= 3
                           \/ /\ DayOf(k) = 5 /\ halted
                              /\ condition # "insufficient_funds"
      BY <2>1 DEF ContactDays, AgentContacts, DayOf
    <3>1. /\ condition \in Contactable
          /\ DayOf(k) \in 0..day
          /\ \/ DayOf(k) <= 3
             \/ DayOf(k) = 5 /\ halted /\ condition # "insufficient_funds"
      BY DEF Contacts, ContactDays
    <3> QED BY <1>1, <2>1, <3>1
  <2> QED BY <2>2, <2>3 DEF Contacts
<1>8. CASE Terminated \/ UNCHANGED vars
  BY <1>2, <1>8 DEF Terminated, vars, Contacts, EmailFirst, ContactDays,
                    OneADay, OneIfSilent, AgentContacts, DayOf
<1> QED BY <1>3, <1>4, <1>5, <1>6, <1>7, <1>8 DEF Next

LEMMA BrokenStep == IInv /\ BrokenAtOpening /\ [Next]_vars => BrokenAtOpening'
<1> SUFFICES ASSUME IInv, BrokenAtOpening, [Next]_vars PROVE BrokenAtOpening'
  OBVIOUS
<1>1. ep'.cardAtOpening = ep.cardAtOpening
  BY LatentOnlyImproves
<1>2. condition' = condition
  BY DEF Next, OpenDay, Decide, Retry, Halt, WriteLedger, Terminated, vars
<1> QED BY <1>1, <1>2 DEF BrokenAtOpening

LEMMA InitRestraintLog == Init => RestraintLog
<1> SUFFICES ASSUME Init PROVE RestraintLog
  OBVIOUS
<1>1. PICK latent \in LatentStates(condition) : ep = Opening(condition, latent)
  BY DEF Init
<1>2. ep.history = <<>> /\ ep.cardAtOpening = latent.card
  BY <1>1 DEF Opening
<1>3. condition \in CardBrokenKeys => ~latent.card
  <2> HAVE condition \in CardBrokenKeys
  <2>1. latent = Latent(FALSE, 0, 0, TRUE)
    BY <1>1 DEF LatentStates, CardBrokenKeys, Cancelled
  <2> QED BY <2>1 DEF Latent
<1>4. AgentContacts = {}
  BY <1>2 DEF AgentContacts
<1>5. EmailFirst
  BY <1>2 DEF Init, EmailFirst
<1>6. ContactDays /\ OneADay /\ OneIfSilent
  BY <1>4 DEF ContactDays, OneADay, OneIfSilent
<1> QED BY <1>2, <1>3, <1>5, <1>6 DEF RestraintLog, BrokenAtOpening, Contacts

LEMMA RestraintLogAlways ==
  ASSUME Policy = "A3-D"
  PROVE  Spec => []RestraintLog
<1>1. IInv /\ RestraintLog /\ [Next]_vars => RestraintLog'
  BY ContactsStep, BrokenStep DEF RestraintLog
<1> QED BY <1>1, InitRestraintLog, IInvAlways, PTL DEF Spec

-----------------------------------------------------------------------------
\* A set no two elements of which differ has at most one.
LEMMA AtMostOne ==
  ASSUME NEW S, \A j, k \in S : j = k
  PROVE  IsFiniteSet(S) /\ Cardinality(S) \in {0, 1}
<1>1. CASE S = {}
  BY <1>1, FS_EmptySet
<1>2. CASE S # {}
  <2>1. PICK k \in S : S = {k}
    BY <1>2
  <2> QED BY <2>1, FS_Singleton
<1> QED BY <1>1, <1>2

\* A customer who has engaged with nothing is contacted once for a balance
\* problem, at most twice for a card that may be broken, and never otherwise:
\* on every schedule, window, budget and set of delays.
THEOREM SilenceIsRespected ==
  ASSUME Policy = "A3-D"
  PROVE  Spec => []SilentCustomersAreSpared
<1>1. IInv /\ RestraintLog => SilentCustomersAreSpared
  <2> SUFFICES ASSUME IInv, Contacts, ~AnyEngaged(ep.history)
               PROVE  Cardinality(AgentContacts) <=
                        CASE condition = "insufficient_funds" -> 1
                          [] condition \in CardBrokenKeys
                               \cup {"ambiguous_decline"} -> 2
                          [] OTHER -> 0
    BY DEF RestraintLog, SilentCustomersAreSpared
  <2> DEFINE early == {k \in AgentContacts : DayOf(k) <= 3}
             late == {k \in AgentContacts : DayOf(k) = 5}
  <2>1. /\ AgentContacts = early \cup late
        /\ \A j, k \in early : j = k
        /\ \A j, k \in late : j = k
        /\ condition = "insufficient_funds" => late = {}
        /\ condition \notin Contactable => AgentContacts = {}
    BY DEF Contacts, ContactDays, OneADay, OneIfSilent
  <2> HIDE DEF early, late
  <2>2. /\ IsFiniteSet(early) /\ Cardinality(early) \in {0, 1}
        /\ IsFiniteSet(late) /\ Cardinality(late) \in {0, 1}
    BY <2>1, AtMostOne
  <2>3. Cardinality(AgentContacts) <= 2
    <3>1. /\ Cardinality(early \cup late) = Cardinality(early)
                + Cardinality(late) - Cardinality(early \cap late)
          /\ Cardinality(early \cap late) \in Nat
      BY <2>2, FS_Union, FS_Intersection, FS_CardinalityType
    <3> QED BY <2>1, <2>2, <3>1
  <2>4. CASE condition = "insufficient_funds"
    <3>1. Cardinality(AgentContacts) <= 1
      <4>1. AgentContacts = early
        BY <2>1, <2>4
      <4> QED BY <2>2, <4>1
    <3> QED BY <2>4, <3>1 DEF CardBrokenKeys
  <2>5. CASE condition \in CardBrokenKeys \cup {"ambiguous_decline"}
    BY <2>3, <2>5 DEF CardBrokenKeys
  <2>6. CASE condition \notin Contactable
    <3>1. Cardinality(AgentContacts) = 0
      BY <2>1, <2>6, FS_EmptySet
    <3> QED BY <2>6, <3>1 DEF Contactable, CardBrokenKeys
  <2> QED BY <2>4, <2>5, <2>6 DEF Contactable
<1> QED BY <1>1, IInvAlways, RestraintLogAlways, PTL

\* At most one contact is spent after the halt, never for a balance problem,
\* and the rule that decides it never prompts for a card that works already.
\* An earlier halt would let the day-3 contact through as a second one.
THEOREM OneRescueAttempt ==
  ASSUME Policy = "A3-D", HaltDay >= 3
  PROVE  Spec => []OnePostHaltContact
<1>1. IInv /\ RestraintLog => OnePostHaltContact
  <2> SUFFICES ASSUME IInv, RestraintLog PROVE OnePostHaltContact
    OBVIOUS
  <2> DEFINE late == {k \in AgentContacts : ep.history[k].day > HaltDay}
  <2>1. HaltDay \in Nat
    BY WorldAssumption
  <2>2. \A k \in late : /\ DayOf(k) = 5 /\ halted
                        /\ condition # "insufficient_funds"
    <3> SUFFICES ASSUME NEW k \in late
                 PROVE  /\ DayOf(k) = 5 /\ halted
                        /\ condition # "insufficient_funds"
      OBVIOUS
    <3>1. /\ DayOf(k) \in 0..day
          /\ \/ DayOf(k) <= 3
             \/ DayOf(k) = 5 /\ halted /\ condition # "insufficient_funds"
      BY DEF RestraintLog, Contacts, ContactDays
    <3>2. DayOf(k) > HaltDay
      BY DEF DayOf
    <3> QED BY <2>1, <3>1, <3>2
  <2>3. \A j, k \in late : j = k
    BY <2>2 DEF RestraintLog, Contacts, OneADay
  <2>4. Cardinality(late) <= 1
    BY <2>3, AtMostOne
  <2>5. late # {} => halted /\ condition \notin {"insufficient_funds"}
    BY <2>2
  <2>6. ASSUME phase = "decide", A3D(View).rule = 11
        PROVE  condition = "ambiguous_decline" \/ ~ep.card
    <3>1. /\ ep.sub = "halted"
          /\ condition \in CardBrokenKeys \cup {"ambiguous_decline"}
      BY <2>6, RescueRule DEF View, BuildView
    <3>2. ep.card => ep.cardAtOpening
      BY <3>1 DEF IInv, OutcomeShape
    <3> QED BY <3>1, <3>2 DEF RestraintLog, BrokenAtOpening
  <2> QED BY <2>4, <2>5, <2>6 DEF OnePostHaltContact
<1> QED BY <1>1, IInvAlways, RestraintLogAlways, PTL

=============================================================================
