--------------------------- MODULE A3RunnerProofs ----------------------------
(***************************************************************************)
(* Safety of run_episode_a3 for every configuration and every policy: the  *)
(* types, the exclusive outcomes, the contact budget and the acceptance of *)
(* the gate fallback, from one inductive invariant.                        *)
(***************************************************************************)
EXTENDS A3RunnerProperties, WorldProofs, FiniteSetTheorems

\* Where an episode can be: nothing decided, recovered, halted, or rescued
\* after the halt (or cancelled before it started).
OutcomeShape ==
  \/ condition = Cancelled /\ phase = "done"
       /\ ep.sub = "cancelled" /\ ~ep.invoice /\ ~halted
  \/ condition \in DeclineCodes /\
       \/ ep.sub = "pending" /\ ~ep.invoice /\ ~halted
       \/ ep.sub = "active" /\ ep.invoice /\ ~halted
       \/ ep.sub = "halted" /\ ~ep.invoice /\ halted
            /\ (ep.card => ep.cardAtOpening)
       \/ ep.sub = "active" /\ ~ep.invoice /\ halted
            /\ ep.card /\ ~ep.cardAtOpening

\* The wake-up test of the morning still holds when the policy is asked.
Spending ==
  /\ ep.contacts <= MaxContacts
  /\ phase = "decide" =>
       ep.contacts < MaxContacts /\ ep.sub \in {"pending", "halted"}

\* The ledger has the records of the days that are over.
RecordsWritten ==
  ticks = IF condition = Cancelled THEN 0
          ELSE IF phase = "done" THEN WindowDays + 1 ELSE day

IInv == TypeOK /\ OutcomeShape /\ Spending /\ RecordsWritten

\* A step keeps the messages sent.
HistoryKept ==
  /\ Len(ep.history) \in Nat
  /\ Len(ep'.history) \in Nat
  /\ Len(ep.history) <= Len(ep'.history)

-----------------------------------------------------------------------------
LEMMA OutputsAreTyped ==
  ASSUME NEW view, NEW out \in PolicyOutputs(view)
  PROVE  /\ out.proposal \in ProposalRecords
         /\ out.fallback \in FallbackReasons
<1>1. CASE Policy = "A3-D"
  BY <1>1, A3DIsTyped DEF PolicyOutputs, Output, FallbackReasons
<1>2. CASE Policy = "null"
  BY <1>2 DEF PolicyOutputs, Output, FallbackReasons, NullProposal, Proposal,
              ProposalRecords, ActionTypes, NoRemedy
<1>3. CASE Policy = "A3-LLM"
  <2>1. CASE \E p \in LLMAnswers(view) : out = Output(p, "none")
    BY <2>1 DEF LLMAnswers, Output, FallbackReasons, Proposal, ProposalRecords
  <2>2. CASE \E f \in PlannerFallbacks : out = Output(A3D(view), f)
    BY <2>2, A3DIsTyped DEF Output, FallbackReasons
  <2> QED BY <1>3, <2>1, <2>2 DEF PolicyOutputs
<1>4. CASE Policy = "any"
  <2>1. PICK p \in WildProposals : out = Output(p, "none")
    BY <1>4 DEF PolicyOutputs
  <2>2. p \in ProposalRecords
    BY DEF WildProposals, Proposal, ProposalRecords, ActionTypes
  <2> QED BY <2>1, <2>2 DEF Output, FallbackReasons
<1> QED BY <1>1, <1>2, <1>3, <1>4, RunnerAssumption

LEMMA BlankTickIsTyped ==
  ASSUME NEW type \in TickTypes, NEW budget \in 0..MaxContacts
  PROVE  BlankTick(type, budget) \in TickRecords
BY DEF BlankTick, TickRecords, NoProposal, Proposal, ProposalRecords, NoRemedy,
       GateRuleNames, FallbackReasons, ExecutedActions

LEMMA BudgetIsTyped ==
  ASSUME NEW e \in EpisodeState, e.contacts <= MaxContacts
  PROVE  Budget(e) \in 0..MaxContacts
BY WorldAssumption DEF Budget, EpisodeState

LEMMA AppendKeeps ==
  ASSUME ep \in EpisodeState, NEW record \in ContactRecord,
         ep'.history = Append(ep.history, record)
  PROVE  HistoryKept
<1>1. ep.history \in Seq(ContactRecord)
  BY DEF EpisodeState
<1>2. Len(ep.history) \in Nat /\ Len(ep'.history) = Len(ep.history) + 1
  BY <1>1, LenProperties, AppendProperties
<1> QED BY <1>2 DEF HistoryKept

LEMMA SameHistoryKept ==
  ASSUME ep \in EpisodeState, ep'.history = ep.history
  PROVE  HistoryKept
<1>1. ep.history \in Seq(ContactRecord)
  BY DEF EpisodeState
<1>2. Len(ep.history) \in Nat
  BY <1>1, LenProperties
<1> QED BY <1>2 DEF HistoryKept

\* The ranges of the counters and of the remembered lengths.
LEMMA RangesKept ==
  ASSUME TypeOK, HistoryKept, ep' \in EpisodeState,
         ep'.contacts <= MaxContacts, UNCHANGED <<day, ticks>>,
         lastWake' \in {lastWake, Len(ep.history)},
         shown' \in {shown, Len(ep.history)}
  PROVE  /\ ep'.contacts \in 0..MaxContacts
         /\ day' \in 0..WindowDays
         /\ ticks' \in 0..(WindowDays + 1)
         /\ lastWake' \in 0..Len(ep'.history)
         /\ shown' \in 0..Len(ep'.history)
<1>1. ep'.contacts \in 0..MaxContacts
  BY WorldAssumption DEF EpisodeState
<1>2. day' \in 0..WindowDays /\ ticks' \in 0..(WindowDays + 1)
  BY DEF TypeOK
<1>3. lastWake \in 0..Len(ep.history) /\ shown \in 0..Len(ep.history)
  BY DEF TypeOK
<1>4. lastWake' \in 0..Len(ep'.history) /\ shown' \in 0..Len(ep'.history)
  BY <1>3 DEF HistoryKept
<1> QED BY <1>1, <1>2, <1>4

\* An agent contact of this loop, with the flag it keeps beside it.
LEMMA ContactChanges ==
  ASSUME NEW e \in EpisodeState, NEW d \in Nat, NEW remedy \in AgentRemedies,
         NEW draw \in Draws
  PROVE  LET f == SendContact(condition, e, d, remedy, draw)
         IN /\ f \in EpisodeState
            /\ f.funds <= e.funds
            /\ e.card => f.card
            /\ f.cardAtOpening = e.cardAtOpening
            /\ f.invoice = e.invoice
            /\ f.blocked = e.blocked
            /\ f.mandate = e.mandate
            /\ f.contacts = e.contacts + 1
            /\ f.sub = IF e.sub = "halted" /\ f.card /\ ~f.cardAtOpening
                       THEN "active" ELSE e.sub
            /\ f.wrongCard = (e.wrongCard \/ (remedy = "card_change"
                                              /\ condition = "insufficient_funds"))
            /\ \E engaged \in BOOLEAN :
                 f.history = Append(e.history, [day |-> d, remedy |-> remedy,
                                                engaged |-> engaged])
<1> DEFINE f == SendContact(condition, e, d, remedy, draw)
<1>1. ContactOutcome(condition, e, d, remedy, f)
  BY ContactEffect
<1> HIDE DEF f
<1>2. /\ f \in EpisodeState
      /\ f.funds <= e.funds
      /\ e.card => f.card
      /\ f.cardAtOpening = e.cardAtOpening
      /\ f.invoice = e.invoice
      /\ f.blocked = e.blocked
      /\ f.mandate = e.mandate
      /\ f.contacts = e.contacts + 1
      /\ f.sub = IF e.sub = "halted" /\ f.card /\ ~f.cardAtOpening
                 THEN "active" ELSE e.sub
      /\ f.wrongCard = (e.wrongCard \/ (remedy = "card_change"
                                        /\ condition = "insufficient_funds"))
      /\ \E engaged \in BOOLEAN :
           f.history = Append(e.history, [day |-> d, remedy |-> remedy,
                                          engaged |-> engaged])
  BY <1>1 DEF ContactOutcome
<1> QED BY <1>2 DEF f

-----------------------------------------------------------------------------
LEMMA InitIInv == Init => IInv
<1> SUFFICES ASSUME Init PROVE IInv
  OBVIOUS
<1>1. condition \in OpeningConditions /\ condition \in Conditions
  BY RunnerAssumption DEF Init
<1>2. PICK latent \in LatentType : ep = Opening(condition, latent)
  BY <1>1, LatentStatesAreTyped DEF Init
<1>3. ep \in EpisodeState
  BY <1>2, EmptySeq DEF Opening, EpisodeState, LatentType, SubscriptionStates
<1>4. tick \in TickRecords
  <2>1. MaxContacts \in 0..MaxContacts
    BY WorldAssumption
  <2> QED BY <2>1, BlankTickIsTyped DEF Init, TickTypes
<1>5. TypeOK
  <2>1. day \in 0..WindowDays /\ ticks \in 0..(WindowDays + 1)
    BY RunnerAssumption DEF Init
  <2>2. ep.contacts = 0 /\ ep.history = <<>>
    BY <1>2 DEF Opening
  <2>3. ep.contacts \in 0..MaxContacts
    BY <2>2, WorldAssumption
  <2>4. 0 \in 0..Len(ep.history)
    BY <2>2, EmptySeq
  <2> QED BY <1>1, <1>3, <1>4, <2>1, <2>3, <2>4 DEF Init, TypeOK, Phases
<1>6. OutcomeShape
  BY <1>1, <1>2 DEF Init, Opening, OutcomeShape, OpeningConditions
<1>7. Spending
  BY <1>2, WorldAssumption DEF Init, Opening, Spending
<1>8. RecordsWritten
  BY DEF Init, RecordsWritten
<1> QED BY <1>5, <1>6, <1>7, <1>8 DEF IInv

-----------------------------------------------------------------------------
\* A message sent before or after the halt keeps the episode in one of the
\* shapes: only a halted subscription can change, and only to rescued.
LEMMA MessageKeepsOutcome ==
  ASSUME OutcomeShape, phase # "done", condition' = condition,
         halted' = halted, ep \in EpisodeState, ep' \in EpisodeState,
         ep'.invoice = ep.invoice, ep'.cardAtOpening = ep.cardAtOpening,
         ep.card => ep'.card,
         ep'.sub = IF ep.sub = "halted" /\ ep'.card /\ ~ep'.cardAtOpening
                   THEN "active" ELSE ep.sub
  PROVE  OutcomeShape'
BY DEF OutcomeShape, EpisodeState

LEMMA OpenDayIInv == IInv /\ OpenDay => IInv'
<1> SUFFICES ASSUME IInv, OpenDay PROVE IInv'
  OBVIOUS
<1> USE DEF IInv
<1>1. day \in Nat /\ ep \in EpisodeState
  BY RunnerAssumption DEF TypeOK
<1>2. /\ ep' \in EpisodeState
      /\ ep'.contacts = ep.contacts
      /\ ep'.invoice = ep.invoice
      /\ ep'.cardAtOpening = ep.cardAtOpening
      /\ ep.card => ep'.card
      /\ ep'.sub = IF ep.sub = "halted" /\ ep'.card /\ ~ep'.cardAtOpening
                   THEN "active" ELSE ep.sub
      /\ HistoryKept
  <2>1. CASE day = 0
    <3>1. PICK draw \in Draws : ep' = SendMessage(ep, day, AutoEmail, draw)
      BY <2>1 DEF OpenDay
    <3>2. AutoEmail \in Remedies /\ ~IsAgentContact(AutoEmail)
      BY DEF Remedies, IsAgentContact
    <3>3. ep.contacts + 0 = ep.contacts
      BY <1>1 DEF EpisodeState
    <3>4. HistoryKept
      <4>1. PICK engaged \in BOOLEAN :
              ep'.history = Append(ep.history, [day |-> day, remedy |-> AutoEmail,
                                                engaged |-> engaged])
        BY <1>1, <3>1, <3>2, MessageChanges
      <4>2. [day |-> day, remedy |-> AutoEmail, engaged |-> engaged]
              \in ContactRecord
        BY <1>1, <3>2 DEF ContactRecord
      <4> QED BY <1>1, <4>1, <4>2, AppendKeeps
    <3> QED BY <1>1, <3>1, <3>2, <3>3, <3>4, MessageChanges
  <2>2. CASE day # 0
    <3>1. ep' = ep
      BY <2>2 DEF OpenDay
    <3>2. HistoryKept
      BY <1>1, <3>1, SameHistoryKept
    <3> QED BY <1>1, <3>1, <3>2 DEF OutcomeShape
  <2> QED BY <2>1, <2>2
<1>3. Budget(ep') \in 0..MaxContacts /\ TickType(ep') \in TickTypes
  <2>1. ep'.contacts <= MaxContacts
    BY <1>2 DEF Spending
  <2>2. Budget(ep') \in 0..MaxContacts
    BY <1>2, <2>1, BudgetIsTyped
  <2> QED BY <2>2 DEF TickType, TickTypes
<1>4. tick' \in TickRecords
  BY <1>3, BlankTickIsTyped DEF OpenDay
<1>5. TypeOK'
  <2>1. ep'.contacts <= MaxContacts
    BY <1>2 DEF Spending
  <2>2. /\ ep'.contacts \in 0..MaxContacts
        /\ day' \in 0..WindowDays
        /\ ticks' \in 0..(WindowDays + 1)
        /\ lastWake' \in 0..Len(ep'.history)
        /\ shown' \in 0..Len(ep'.history)
    BY <1>2, <2>1, RangesKept DEF OpenDay
  <2> QED BY <1>2, <1>4, <2>2 DEF OpenDay, TypeOK, Phases
<1>6. OutcomeShape'
  BY <1>1, <1>2, MessageKeepsOutcome DEF OpenDay
<1>7. Spending'
  <2>1. ep'.contacts <= MaxContacts
    BY <1>2 DEF Spending
  <2>2. ASSUME phase' = "decide"
        PROVE  ep'.contacts < MaxContacts /\ ep'.sub \in {"pending", "halted"}
    <3>1. TickType(ep') = "wakeup"
      BY <2>2 DEF OpenDay
    <3>2. Budget(ep') # 0 /\ ~EpisodeOver(ep')
      BY <3>1 DEF TickType
    <3>3. ep'.contacts \in Nat /\ ep'.sub \in SubscriptionStates
      BY <1>2 DEF EpisodeState
    <3> QED BY <2>1, <3>2, <3>3, WorldAssumption
              DEF Budget, EpisodeOver, TerminalStates, SubscriptionStates
  <2> QED BY <2>1, <2>2 DEF Spending
<1>8. RecordsWritten'
  BY DEF OpenDay, RecordsWritten
<1> QED BY <1>5, <1>6, <1>7, <1>8

LEMMA DecideIInv == IInv /\ Decide => IInv'
<1> SUFFICES ASSUME IInv, Decide PROVE IInv'
  OBVIOUS
<1> USE DEF IInv
<1>1. /\ day \in Nat
      /\ ep \in EpisodeState
      /\ ep.contacts \in Nat
      /\ ep.history \in Seq(ContactRecord)
  BY RunnerAssumption DEF TypeOK, EpisodeState
<1>2. PICK out \in PolicyOutputs(View) : Decision(out, View)
  BY DEF Decide
<1> DEFINE exec == Survivor(out, View)
           executed == Executed(exec, View)
<1>3. tick' \in TickRecords
  <2>1. /\ out.proposal \in ProposalRecords
        /\ out.fallback \in FallbackReasons
    BY OutputsAreTyped
  <2>2. RuleFired(out.proposal, View) \in GateRuleNames
    BY RuleFiredIsTyped DEF GateRuleNames
  <2>3. executed \in ExecutedActions
    BY DEF Executed, ExecutedActions
  <2>4. FallbackReason(out, View) \in FallbackReasons
    BY <2>1 DEF FallbackReason, FallbackReasons
  <2>5. tick \in TickRecords
    BY DEF TypeOK
  <2> QED BY <1>2, <2>1, <2>2, <2>3, <2>4, <2>5 DEF Decision, TickRecords
<1>4. executed = "CONTACT" => exec.remedy \in AgentRemedies
  BY DEF Executed
<1>5. Execute(exec, executed)
  BY <1>2 DEF Decision
<1> HIDE DEF exec, executed
<1>6. /\ ep' \in EpisodeState
      /\ ep'.contacts <= ep.contacts + 1
      /\ ep'.invoice = ep.invoice
      /\ ep'.cardAtOpening = ep.cardAtOpening
      /\ ep.card => ep'.card
      /\ ep'.sub = IF ep.sub = "halted" /\ ep'.card /\ ~ep'.cardAtOpening
                   THEN "active" ELSE ep.sub
      /\ HistoryKept
  <2>1. CASE executed = "CONTACT"
    <3>1. PICK draw \in Draws :
            ep' = SendContact(condition, ep, day, exec.remedy, draw)
      BY <1>5, <2>1 DEF Execute
    <3>2. ep.contacts + 1 <= ep.contacts + 1
      BY <1>1
    <3>3. HistoryKept
      <4>1. exec.remedy \in AgentRemedies
        BY <1>4, <2>1
      <4>2. PICK engaged \in BOOLEAN :
              SendContact(condition, ep, day, exec.remedy, draw).history
                = Append(ep.history, [day |-> day, remedy |-> exec.remedy,
                                      engaged |-> engaged])
        BY <1>1, <4>1, ContactChanges
      <4>3. [day |-> day, remedy |-> exec.remedy, engaged |-> engaged]
              \in ContactRecord
        BY <1>1, <4>1 DEF ContactRecord, Remedies
      <4> QED BY <1>1, <3>1, <4>2, <4>3, AppendKeeps
    <3> QED BY <1>1, <1>4, <2>1, <3>1, <3>2, <3>3, ContactChanges
  <2>2. CASE executed # "CONTACT"
    <3>1. ep' = ep
      BY <1>5, <2>2 DEF Execute
    <3>2. HistoryKept
      BY <1>1, <3>1, SameHistoryKept
    <3> QED BY <1>1, <3>1, <3>2 DEF OutcomeShape
  <2> QED BY <2>1, <2>2
<1>7. Len(View.history) = Len(ep.history)
  BY DEF View, BuildView
<1>8. stopped' \in BOOLEAN
  BY <1>5 DEF Execute, TypeOK
<1>9. TypeOK'
  <2>1. ep'.contacts <= MaxContacts
    <3>1. ep'.contacts \in Nat
      BY <1>6 DEF EpisodeState
    <3> QED BY <1>1, <1>6, <3>1, WorldAssumption DEF Decide, Spending
  <2>2. /\ ep'.contacts \in 0..MaxContacts
        /\ day' \in 0..WindowDays
        /\ ticks' \in 0..(WindowDays + 1)
        /\ lastWake' \in 0..Len(ep'.history)
        /\ shown' \in 0..Len(ep'.history)
    BY <1>6, <1>7, <2>1, RangesKept DEF Decide
  <2> QED BY <1>3, <1>6, <1>8, <2>2 DEF Decide, TypeOK, Phases
<1>10. OutcomeShape'
  BY <1>1, <1>6, MessageKeepsOutcome DEF Decide
<1>11. Spending'
  <2>1. phase' = "retry" /\ ep.contacts < MaxContacts
    BY DEF Decide, Spending
  <2>2. ep'.contacts \in Nat
    BY <1>6 DEF EpisodeState
  <2> QED BY <1>1, <1>6, <2>1, <2>2, WorldAssumption DEF Spending
<1>12. RecordsWritten'
  BY DEF Decide, RecordsWritten, Spending
<1> QED BY <1>9, <1>10, <1>11, <1>12

LEMMA RetryIInv == IInv /\ Retry => IInv'
<1> SUFFICES ASSUME IInv, Retry PROVE IInv'
  OBVIOUS
<1> USE DEF IInv
<1>1. ep \in EpisodeState
  BY DEF TypeOK
<1>2. CASE ep' = ep
  BY <1>2 DEF Retry, TypeOK, Phases, OutcomeShape, Spending, RecordsWritten
<1>3. CASE /\ ~ep.invoice /\ ~halted
           /\ ep' = [ep EXCEPT !.invoice = TRUE, !.sub = "active"]
  <2>1. /\ ep' \in EpisodeState
        /\ ep'.invoice
        /\ ep'.sub = "active"
        /\ ep'.contacts = ep.contacts
        /\ ep'.history = ep.history
    BY <1>1, <1>3 DEF EpisodeState, SubscriptionStates
  <2>2. TypeOK'
    BY <2>1 DEF Retry, TypeOK, Phases
  <2>3. OutcomeShape'
    BY <1>3, <2>1 DEF Retry, OutcomeShape
  <2>4. Spending' /\ RecordsWritten'
    BY <2>1 DEF Retry, Spending, RecordsWritten
  <2> QED BY <2>2, <2>3, <2>4
<1> QED BY <1>2, <1>3 DEF Retry, AfterRetry

LEMMA HaltIInv == IInv /\ Halt => IInv'
<1> SUFFICES ASSUME IInv, Halt PROVE IInv'
  OBVIOUS
<1> USE DEF IInv
<1>1. ep \in EpisodeState /\ day \in Nat
  BY RunnerAssumption DEF TypeOK
<1>2. CASE ~HaltsNow(ep, day, halted)
  <2>1. ep' = ep /\ halted' = halted
    BY <1>2 DEF Halt
  <2> QED BY <2>1 DEF Halt, TypeOK, Phases, OutcomeShape, Spending,
                      RecordsWritten
<1>3. CASE HaltsNow(ep, day, halted)
  <2> DEFINE e == [ep EXCEPT !.sub = "halted"]
  <2>1. /\ e \in EpisodeState
        /\ e.sub = "halted"
        /\ e.invoice = ep.invoice
        /\ e.cardAtOpening = ep.cardAtOpening
        /\ e.contacts = ep.contacts
        /\ e.card = ep.card
        /\ e.history = ep.history
    BY <1>1 DEF EpisodeState, SubscriptionStates
  <2>2. PICK draw \in Draws : ep' = SendMessage(e, day, AutoEmail, draw)
    BY <1>3 DEF Halt, AfterHalt
  <2>3. AutoEmail \in Remedies /\ ~IsAgentContact(AutoEmail)
    BY DEF Remedies, IsAgentContact
  <2> HIDE DEF e
  <2>4. /\ ep' \in EpisodeState
        /\ ep'.contacts = ep.contacts
        /\ ep'.invoice = ep.invoice
        /\ ep'.cardAtOpening = ep.cardAtOpening
        /\ ep'.sub = IF ep'.card /\ ~ep'.cardAtOpening
                     THEN "active" ELSE "halted"
        /\ HistoryKept
    <3>1. ep.contacts + 0 = ep.contacts
      BY <1>1 DEF EpisodeState
    <3>2. HistoryKept
      <4>1. PICK engaged \in BOOLEAN :
              ep'.history = Append(e.history, [day |-> day, remedy |-> AutoEmail,
                                               engaged |-> engaged])
        BY <1>1, <2>1, <2>2, <2>3, MessageChanges
      <4>2. [day |-> day, remedy |-> AutoEmail, engaged |-> engaged]
              \in ContactRecord
        BY <1>1, <2>3 DEF ContactRecord
      <4> QED BY <1>1, <2>1, <4>1, <4>2, AppendKeeps
    <3> QED BY <1>1, <2>1, <2>2, <2>3, <3>1, <3>2, MessageChanges
  <2>5. TypeOK'
    <3>1. ep'.contacts <= MaxContacts
      BY <2>4 DEF Spending
    <3>2. /\ ep'.contacts \in 0..MaxContacts
          /\ day' \in 0..WindowDays
          /\ ticks' \in 0..(WindowDays + 1)
          /\ lastWake' \in 0..Len(ep'.history)
          /\ shown' \in 0..Len(ep'.history)
      BY <2>4, <3>1, RangesKept DEF Halt
    <3> QED BY <1>3, <2>4, <3>2 DEF Halt, TypeOK, Phases
  <2>6. OutcomeShape'
    <3>1. ~ep.invoice /\ ~halted
      BY <1>3 DEF HaltsNow
    <3>2. condition \in DeclineCodes /\ condition' = condition /\ halted'
      BY <1>3 DEF Halt, OutcomeShape
    <3> QED BY <2>4, <3>1, <3>2 DEF OutcomeShape, EpisodeState
  <2>7. Spending' /\ RecordsWritten'
    BY <2>4 DEF Halt, Spending, RecordsWritten
  <2> QED BY <2>5, <2>6, <2>7
<1> QED BY <1>2, <1>3

LEMMA WriteLedgerIInv == IInv /\ WriteLedger => IInv'
<1> SUFFICES ASSUME IInv, WriteLedger PROVE IInv'
  OBVIOUS
<1> USE DEF IInv
<1>1. ep' = ep /\ condition' = condition /\ halted' = halted
  BY DEF WriteLedger
<1>2. phase' \in {"open", "done"}
  BY DEF WriteLedger, NextDay
<1>3. day' \in 0..WindowDays
  BY RunnerAssumption DEF WriteLedger, NextDay, TypeOK
<1>4. tick' \in TickRecords
  <2>1. ep \in EpisodeState
    BY DEF TypeOK
  <2>2. Budget(ep) \in 0..MaxContacts
    BY <2>1, BudgetIsTyped DEF Spending
  <2> QED BY <2>2 DEF WriteLedger, Record, TypeOK, TickRecords
<1>5. condition # Cancelled /\ day \in 0..WindowDays
  BY DEF WriteLedger, TypeOK, OutcomeShape, DeclineCodes, CardBrokenKeys,
         Cancelled
<1>6. TypeOK'
  <2>1. ticks' \in 0..(WindowDays + 1)
    <3>1. ticks = day
      BY <1>5 DEF WriteLedger, RecordsWritten
    <3> QED BY <1>5, <3>1, RunnerAssumption DEF WriteLedger
  <2> QED BY <1>1, <1>2, <1>3, <1>4, <2>1 DEF WriteLedger, TypeOK, Phases
<1>7. OutcomeShape'
  BY <1>1 DEF WriteLedger, OutcomeShape
<1>8. Spending'
  BY <1>1, <1>2 DEF Spending
<1>9. RecordsWritten'
  BY <1>5, <1>1, RunnerAssumption DEF WriteLedger, NextDay, RecordsWritten
<1> QED BY <1>6, <1>7, <1>8, <1>9

LEMMA IInvInductive == IInv /\ [Next]_vars => IInv'
<1> SUFFICES ASSUME IInv, [Next]_vars PROVE IInv'
  OBVIOUS
<1>1. CASE UNCHANGED vars
  BY <1>1 DEF vars, IInv, TypeOK, OutcomeShape, Spending, RecordsWritten
<1> QED BY <1>1, OpenDayIInv, DecideIInv, RetryIInv, HaltIInv, WriteLedgerIInv
         DEF Next, Terminated

LEMMA IInvAlways == Spec => []IInv
BY InitIInv, IInvInductive, PTL DEF Spec

-----------------------------------------------------------------------------
\* The types of every variable, for every policy and configuration: no policy
\* sends more than MaxContacts messages or makes a budget column negative, the
\* ledger never has more records than the window has days, and no remembered
\* length passes the end of the history.
THEOREM TypeCorrect == Spec => []TypeOK
<1>1. IInv => TypeOK
  BY DEF IInv
<1> QED BY <1>1, IInvAlways, PTL

\* An invoice is recovered only if the subscription never halted, and an active
\* subscription without its invoice was rescued by a card repair: the two
\* headline outcomes of EpisodeResult never blur.
THEOREM OutcomesNeverBlur == Spec => []OutcomesAreExclusive
<1>1. IInv => OutcomesAreExclusive
  BY DEF IInv, OutcomeShape, OutcomesAreExclusive, Cancelled
<1> QED BY <1>1, IInvAlways, PTL

LEMMA FallbackAccepted == IInv => FallbackIsAccepted
<1> SUFFICES ASSUME IInv, phase = "decide" PROVE Accepts(A3D(View), View)
  BY DEF FallbackIsAccepted
<1>1. condition \in DeclineCodes
  BY DEF IInv, OutcomeShape
<1>2. ep.contacts \in Nat
  BY DEF IInv, TypeOK, EpisodeState
<1>3. /\ View.decline \in DeclineCodes
      /\ View.state \notin {"cancelled", "expired"}
      /\ View.budget \in Int
      /\ View.budget > 0
  BY <1>1, <1>2, WorldAssumption DEF IInv, Spending, View, BuildView
<1> QED BY <1>3, A3DIsGateCompliant

\* The A3-D proposal executed in place of a rejected one always passes the
\* gate, whatever policy proposed what.
THEOREM FallbackNeverRejected == Spec => []FallbackIsAccepted
BY FallbackAccepted, IInvAlways, PTL

\* An episode that reached "active" is never halted, never contacted and never
\* anything else again, whatever the policy keeps proposing.
THEOREM OutcomesAreFinal == Spec => OutcomeIsFinal
<1>1. IInv /\ [Next]_vars =>
        [ep.sub = "active" => ep'.sub = "active" /\ ep'.contacts = ep.contacts]_vars
  <2> SUFFICES ASSUME IInv, Next, ep.sub = "active"
               PROVE  ep'.sub = "active" /\ ep'.contacts = ep.contacts
    OBVIOUS
  <2>1. ep \in EpisodeState /\ day \in Nat
    BY RunnerAssumption DEF IInv, TypeOK
  <2>2. CASE OpenDay
    <3>1. CASE day = 0
      <4>1. PICK draw \in Draws : ep' = SendMessage(ep, day, AutoEmail, draw)
        BY <2>2, <3>1 DEF OpenDay
      <4>2. AutoEmail \in Remedies /\ ~IsAgentContact(AutoEmail)
        BY DEF Remedies, IsAgentContact
      <4>3. ep.contacts + 0 = ep.contacts
        BY <2>1 DEF EpisodeState
      <4> QED BY <2>1, <4>1, <4>2, <4>3, MessageChanges
    <3>2. CASE day # 0
      BY <2>2, <3>2 DEF OpenDay
    <3> QED BY <3>1, <3>2
  <2>3. CASE Decide
    BY <2>3 DEF Decide, IInv, Spending
  <2>4. CASE Retry
    <3>1. \/ ep' = ep
          \/ ep' = [ep EXCEPT !.invoice = TRUE, !.sub = "active"]
      BY <2>4 DEF Retry, AfterRetry
    <3> QED BY <2>1, <3>1 DEF EpisodeState
  <2>5. CASE Halt
    <3>1. ~HaltsNow(ep, day, halted)
      BY DEF IInv, OutcomeShape, HaltsNow
    <3> QED BY <2>5, <3>1 DEF Halt
  <2>6. CASE WriteLedger \/ Terminated
    BY <2>6 DEF WriteLedger, Terminated, vars
  <2> QED BY <2>2, <2>3, <2>4, <2>5, <2>6 DEF Next
<1> QED BY <1>1, IInvAlways, PTL DEF Spec, OutcomeIsFinal

-----------------------------------------------------------------------------
(***************************************************************************)
(* The safety gates of EVAL.md 5.2 are about the messages in the history,  *)
(* the code counts them in contacts_sent: GateLog ties the two together.   *)
(***************************************************************************)
GateLog ==
  /\ IsFiniteSet(AgentContacts) /\ Cardinality(AgentContacts) = ep.contacts
  /\ condition = "payment_risk_check_failed" => AgentContacts = {}
  /\ condition \in {"insufficient_funds", "transaction_limit_exceeded"} =>
       \A k \in AgentContacts : ep.history[k].remedy # "card_change"
  /\ condition = Cancelled => ep.history = <<>>
  /\ ~ep.wrongCard

\* The automatic email adds a message and no agent contact.
LEMMA EmailKeepsGateLog ==
  ASSUME GateLog, condition' = condition, condition # Cancelled,
         ep.history \in Seq(ContactRecord),
         NEW d, NEW engaged,
         ep'.history = Append(ep.history, [day |-> d, remedy |-> AutoEmail,
                                           engaged |-> engaged]),
         ep'.contacts = ep.contacts, ep'.wrongCard = ep.wrongCard
  PROVE  GateLog'
<1> DEFINE n == Len(ep.history) + 1
           record == [day |-> d, remedy |-> AutoEmail, engaged |-> engaged]
<1>1. /\ DOMAIN ep'.history = 1..n
      /\ DOMAIN ep.history = 1..Len(ep.history)
      /\ \A k \in 1..Len(ep.history) : ep'.history[k] = ep.history[k]
      /\ ep'.history[n] = record
      /\ Len(ep.history) \in Nat
  BY LenProperties
<1>2. ~IsAgentContact(ep'.history[n].remedy)
  BY <1>1 DEF IsAgentContact
<1>3. AgentContacts' = AgentContacts
  BY <1>1, <1>2 DEF AgentContacts
<1>4. \A k \in AgentContacts : ep'.history[k] = ep.history[k]
  BY <1>1 DEF AgentContacts
<1> QED BY <1>3, <1>4 DEF GateLog

\* An agent contact adds one message and one to the count.
LEMMA ContactKeepsGateLog ==
  ASSUME GateLog, condition' = condition, condition # Cancelled,
         ep.history \in Seq(ContactRecord), ep.contacts \in Nat,
         NEW d, NEW engaged, NEW remedy \in AgentRemedies,
         condition # "payment_risk_check_failed",
         condition \in {"insufficient_funds", "transaction_limit_exceeded"}
           => remedy # "card_change",
         ep'.history = Append(ep.history, [day |-> d, remedy |-> remedy,
                                           engaged |-> engaged]),
         ep'.contacts = ep.contacts + 1,
         ep'.wrongCard = (ep.wrongCard \/ (remedy = "card_change"
                                           /\ condition = "insufficient_funds"))
  PROVE  GateLog'
<1> DEFINE n == Len(ep.history) + 1
           record == [day |-> d, remedy |-> remedy, engaged |-> engaged]
<1>1. /\ DOMAIN ep'.history = 1..n
      /\ DOMAIN ep.history = 1..Len(ep.history)
      /\ \A k \in 1..Len(ep.history) : ep'.history[k] = ep.history[k]
      /\ ep'.history[n] = record
      /\ Len(ep.history) \in Nat
  BY LenProperties
<1>2. IsAgentContact(ep'.history[n].remedy)
  BY <1>1 DEF IsAgentContact, AgentRemedies, AutoEmail
<1>3. AgentContacts' = AgentContacts \cup {n} /\ n \notin AgentContacts
  BY <1>1, <1>2 DEF AgentContacts
<1>4. IsFiniteSet(AgentContacts') /\ Cardinality(AgentContacts') = ep'.contacts
  <2>1. IsFiniteSet(AgentContacts) /\ Cardinality(AgentContacts) = ep.contacts
    BY DEF GateLog
  <2>2. /\ IsFiniteSet(AgentContacts \cup {n})
        /\ Cardinality(AgentContacts \cup {n}) = Cardinality(AgentContacts) + 1
    BY <1>3, <2>1, FS_AddElement
  <2> QED BY <1>3, <2>1, <2>2
<1>5. condition' \in {"insufficient_funds", "transaction_limit_exceeded"} =>
        \A k \in AgentContacts' : ep'.history[k].remedy # "card_change"
  <2>1. \A k \in AgentContacts : ep'.history[k] = ep.history[k]
    BY <1>1 DEF AgentContacts
  <2>2. ep'.history[n].remedy = remedy
    BY <1>1
  <2> QED BY <1>3, <2>1, <2>2 DEF GateLog
<1> QED BY <1>4, <1>5 DEF GateLog

\* What the executor does with an accepted proposal is a message the gates allow.
LEMMA AcceptedContactIsAllowed ==
  ASSUME NEW p, Executed(p, View) = "CONTACT"
  PROVE  /\ p.remedy \in AgentRemedies
         /\ condition # "payment_risk_check_failed"
         /\ condition \in {"insufficient_funds", "transaction_limit_exceeded"}
              => p.remedy # "card_change"
<1>1. Accepts(p, View) /\ p.action = "CONTACT" /\ p.remedy \in AgentRemedies
  BY DEF Executed
<1>2. ~Fires("R4", p, View) /\ ~Fires("R3", p, View)
  <2>1. Precedence[2] = "R4" /\ Precedence[3] = "R3" /\ {2, 3} \subseteq DOMAIN Precedence
    BY DEF Precedence
  <2> QED BY <1>1, <2>1 DEF Accepts, Fired
<1> QED BY <1>1, <1>2 DEF Fires, View, BuildView

LEMMA GateLogStep == IInv /\ GateLog /\ [Next]_vars => GateLog'
<1> SUFFICES ASSUME IInv, GateLog, [Next]_vars PROVE GateLog'
  OBVIOUS
<1>1. /\ ep \in EpisodeState
      /\ ep.history \in Seq(ContactRecord)
      /\ ep.contacts \in Nat
      /\ day \in Nat
  BY RunnerAssumption DEF IInv, TypeOK, EpisodeState
<1>2. ASSUME /\ condition' = condition
             /\ ep'.history = ep.history
             /\ ep'.contacts = ep.contacts
             /\ ep'.wrongCard = ep.wrongCard
      PROVE  GateLog'
  BY <1>2 DEF GateLog, AgentContacts
<1>3. AutoEmail \in Remedies /\ ~IsAgentContact(AutoEmail)
  BY DEF Remedies, IsAgentContact
<1>4. phase # "done" => condition # Cancelled
  BY DEF IInv, OutcomeShape, DeclineCodes, CardBrokenKeys, Cancelled
<1>5. ep.contacts + 0 = ep.contacts
  BY <1>1
<1>6. CASE OpenDay
  <2>1. CASE day = 0
    <3>1. PICK draw \in Draws : ep' = SendMessage(ep, day, AutoEmail, draw)
      BY <1>6, <2>1 DEF OpenDay
    <3>2. /\ ep'.contacts = ep.contacts
          /\ ep'.wrongCard = ep.wrongCard
          /\ \E engaged \in BOOLEAN :
               ep'.history = Append(ep.history, [day |-> day,
                                remedy |-> AutoEmail, engaged |-> engaged])
      BY <1>1, <1>3, <1>5, <3>1, MessageChanges
    <3> QED BY <1>1, <1>4, <1>6, <3>2, EmailKeepsGateLog DEF OpenDay
  <2>2. CASE day # 0
    BY <1>2, <1>6, <2>2 DEF OpenDay
  <2> QED BY <2>1, <2>2
<1>7. CASE Decide
  <2>1. PICK p : Execute(p, Executed(p, View))
    BY <1>7 DEF Decide, Decision
  <2>2. CASE Executed(p, View) = "CONTACT"
    <3>1. PICK draw \in Draws :
            ep' = SendContact(condition, ep, day, p.remedy, draw)
      BY <2>1, <2>2 DEF Execute
    <3>2. /\ p.remedy \in AgentRemedies
          /\ condition # "payment_risk_check_failed"
          /\ condition \in {"insufficient_funds", "transaction_limit_exceeded"}
               => p.remedy # "card_change"
      BY <2>2, AcceptedContactIsAllowed
    <3>3. /\ ep'.contacts = ep.contacts + 1
          /\ ep'.wrongCard = (ep.wrongCard \/ (p.remedy = "card_change"
                                /\ condition = "insufficient_funds"))
          /\ \E engaged \in BOOLEAN :
               ep'.history = Append(ep.history, [day |-> day,
                                remedy |-> p.remedy, engaged |-> engaged])
      <4>1. p.remedy \in AgentRemedies
        BY <3>2
      <4>2. ep'.contacts = ep.contacts + 1
        BY <1>1, <3>1, <4>1, ContactChanges
      <4>3. ep'.wrongCard = (ep.wrongCard \/ (p.remedy = "card_change"
                               /\ condition = "insufficient_funds"))
        BY <1>1, <3>1, <4>1, ContactChanges
      <4>4. \E engaged \in BOOLEAN :
              ep'.history = Append(ep.history, [day |-> day,
                               remedy |-> p.remedy, engaged |-> engaged])
        <5>1. \A remedy \in AgentRemedies :
                \E engaged \in BOOLEAN :
                  SendContact(condition, ep, day, remedy, draw).history
                    = Append(ep.history, [day |-> day, remedy |-> remedy,
                                          engaged |-> engaged])
          BY <1>1, ContactChanges
        <5> QED BY <3>1, <4>1, <5>1
      <4> QED BY <4>2, <4>3, <4>4
    <3> QED BY <1>1, <1>4, <1>7, <3>2, <3>3, ContactKeepsGateLog DEF Decide
  <2>3. CASE Executed(p, View) # "CONTACT"
    BY <1>2, <1>7, <2>1, <2>3 DEF Execute, Decide
  <2> QED BY <2>2, <2>3
<1>8. CASE Retry
  <2>1. \/ ep' = ep
        \/ ep' = [ep EXCEPT !.invoice = TRUE, !.sub = "active"]
    BY <1>8 DEF Retry, AfterRetry
  <2>2. /\ ep'.history = ep.history
        /\ ep'.contacts = ep.contacts
        /\ ep'.wrongCard = ep.wrongCard
    BY <1>1, <2>1 DEF EpisodeState
  <2> QED BY <1>2, <1>8, <2>2 DEF Retry
<1>9. CASE Halt
  <2>1. CASE HaltsNow(ep, day, halted)
    <3> DEFINE e == [ep EXCEPT !.sub = "halted"]
    <3>1. /\ e \in EpisodeState
          /\ e.history = ep.history
          /\ e.contacts = ep.contacts
          /\ e.wrongCard = ep.wrongCard
      BY <1>1 DEF EpisodeState, SubscriptionStates
    <3>2. PICK draw \in Draws : ep' = SendMessage(e, day, AutoEmail, draw)
      BY <1>9, <2>1 DEF Halt, AfterHalt
    <3> HIDE DEF e
    <3>3. /\ ep'.contacts = ep.contacts
          /\ ep'.wrongCard = ep.wrongCard
          /\ \E engaged \in BOOLEAN :
               ep'.history = Append(ep.history, [day |-> day,
                                remedy |-> AutoEmail, engaged |-> engaged])
      <4>1. ep'.contacts = e.contacts + 0 /\ ep'.wrongCard = e.wrongCard
        BY <1>1, <1>3, <3>1, <3>2, MessageChanges
      <4>2. \E engaged \in BOOLEAN :
              ep'.history = Append(e.history, [day |-> day,
                               remedy |-> AutoEmail, engaged |-> engaged])
        BY <1>1, <1>3, <3>1, <3>2, MessageChanges
      <4> QED BY <1>5, <3>1, <4>1, <4>2
    <3> QED BY <1>1, <1>4, <1>9, <3>3, EmailKeepsGateLog DEF Halt
  <2>2. CASE ~HaltsNow(ep, day, halted)
    BY <1>2, <1>9, <2>2 DEF Halt
  <2> QED BY <2>1, <2>2
<1>10. CASE WriteLedger \/ Terminated \/ UNCHANGED vars
  BY <1>2, <1>10 DEF WriteLedger, Terminated, vars
<1> QED BY <1>6, <1>7, <1>8, <1>9, <1>10 DEF Next

\* The safety gates hold of the messages actually sent, for every policy, every
\* configuration and every contact budget.
THEOREM GatesHold == Spec => []SafetyGates
<1>1. Init => GateLog
  <2> SUFFICES ASSUME Init PROVE GateLog
    OBVIOUS
  <2>1. PICK latent : ep = Opening(condition, latent)
    BY DEF Init
  <2>2. AgentContacts = {}
    BY <2>1 DEF Opening, AgentContacts
  <2> QED BY <2>1, <2>2, FS_EmptySet DEF GateLog, Opening
<1>2. IInv /\ GateLog => SafetyGates
  BY DEF IInv, Spending, GateLog, SafetyGates
<1> QED BY <1>1, <1>2, IInvAlways, GateLogStep, PTL DEF Spec

-----------------------------------------------------------------------------
(***************************************************************************)
(* What the ledger can say of a decision.                                  *)
(***************************************************************************)
DecisionLog ==
  /\ tick.rule # NoRule => tick.proposal.rule = 0
  /\ Policy # "any" => tick.executed # "ENFORCEMENT_FAILURE"
  /\ Policy = "A3-D" => tick.fallback = "none"

\* Only a caller-supplied policy can ask for a contact the executor does not
\* know: A3-D, the null policy and the answer parser all name a legal remedy.
LEMMA OutputsAreLegal ==
  ASSUME NEW view, NEW out \in PolicyOutputs(view), Policy # "any",
         out.proposal.action = "CONTACT"
  PROVE  out.proposal.remedy \in AgentRemedies
<1>1. CASE Policy = "A3-D"
  BY <1>1, A3DIsTyped DEF PolicyOutputs, Output
<1>2. CASE Policy = "null"
  BY <1>2 DEF PolicyOutputs, Output, NullProposal, Proposal
<1>3. CASE Policy = "A3-LLM"
  <2>1. CASE \E p \in LLMAnswers(view) : out = Output(p, "none")
    BY <2>1 DEF LLMAnswers, Output, ParsesAs
  <2>2. CASE \E f \in PlannerFallbacks : out = Output(A3D(view), f)
    BY <2>2, A3DIsTyped DEF Output
  <2> QED BY <1>3, <2>1, <2>2 DEF PolicyOutputs
<1> QED BY <1>1, <1>2, <1>3, RunnerAssumption

\* A numbered proposal is A3-D's own.
LEMMA NumberedOutputsAreA3D ==
  ASSUME NEW view, NEW out \in PolicyOutputs(view), out.proposal.rule # 0
  PROVE  out.proposal = A3D(view)
<1>1. CASE Policy = "A3-D"
  BY <1>1 DEF PolicyOutputs, Output
<1>2. CASE Policy = "null"
  BY <1>2 DEF PolicyOutputs, Output, NullProposal, Proposal
<1>3. CASE Policy = "A3-LLM"
  <2>1. CASE \E p \in LLMAnswers(view) : out = Output(p, "none")
    BY <2>1 DEF LLMAnswers, Output, Proposal
  <2>2. CASE \E f \in PlannerFallbacks : out = Output(A3D(view), f)
    BY <2>2 DEF Output
  <2> QED BY <1>3, <2>1, <2>2 DEF PolicyOutputs
<1>4. CASE Policy = "any"
  BY <1>4 DEF PolicyOutputs, Output, WildProposals, Proposal
<1> QED BY <1>1, <1>2, <1>3, <1>4, RunnerAssumption

LEMMA DecisionLogStep == IInv /\ DecisionLog /\ [Next]_vars => DecisionLog'
<1> SUFFICES ASSUME IInv, DecisionLog, [Next]_vars PROVE DecisionLog'
  OBVIOUS
<1>1. CASE OpenDay
  BY <1>1 DEF OpenDay, BlankTick, DecisionLog
<1>2. CASE Decide
  <2>1. PICK out \in PolicyOutputs(View) : Decision(out, View)
    BY <1>2 DEF Decide
  <2> DEFINE exec == Survivor(out, View)
             executed == Executed(exec, View)
  <2>2. tick \in TickRecords
    BY DEF IInv, TypeOK
  <2>3. /\ tick'.proposal = out.proposal
        /\ tick'.rule = RuleFired(out.proposal, View)
        /\ tick'.executed = executed
        /\ Accepts(out.proposal, View) /\ executed # "ENFORCEMENT_FAILURE"
             => tick'.fallback = out.fallback
    BY <2>1, <2>2 DEF Decision, FallbackReason, TickRecords
  <2>4. Accepts(A3D(View), View)
    <3>1. FallbackIsAccepted
      BY FallbackAccepted
    <3> QED BY <1>2, <3>1 DEF FallbackIsAccepted, Decide
  <2>5. tick'.rule # NoRule => tick'.proposal.rule = 0
    BY <2>3, <2>4, NumberedOutputsAreA3D DEF RuleFired
  <2>6. Policy # "any" => executed # "ENFORCEMENT_FAILURE"
    <3>1. Policy # "any" /\ exec.action = "CONTACT" =>
            exec.remedy \in AgentRemedies
      BY OutputsAreLegal, A3DIsTyped DEF Survivor
    <3> HIDE DEF exec
    <3> QED BY <3>1 DEF Executed
  <2>7. Policy = "A3-D" => tick'.fallback = "none"
    <3> HAVE Policy = "A3-D"
    <3>1. out = Output(A3D(View), "none")
      BY DEF PolicyOutputs
    <3>2. out.proposal = A3D(View) /\ out.fallback = "none"
      BY <3>1 DEF Output
    <3> QED BY <2>3, <2>4, <2>6, <3>2
  <2> QED BY <2>3, <2>5, <2>6, <2>7 DEF DecisionLog
<1>3. CASE WriteLedger
  <2>1. tick \in TickRecords
    BY DEF IInv, TypeOK
  <2> QED BY <1>3, <2>1 DEF WriteLedger, Record, DecisionLog, TickRecords
<1>4. CASE Retry \/ Halt \/ Terminated \/ UNCHANGED vars
  BY <1>4 DEF Retry, Halt, Terminated, vars, DecisionLog
<1> QED BY <1>1, <1>2, <1>3, <1>4 DEF Next

LEMMA DecisionLogAlways == Spec => []DecisionLog
<1>1. Init => DecisionLog
  BY DEF Init, DecisionLog, BlankTick
<1> QED BY <1>1, IInvAlways, DecisionLogStep, PTL DEF Spec

\* A gate rejection originating from A3-D is a defect: it never happens.
THEOREM A3DNeverRejected ==
  ASSUME Policy = "A3-D"
  PROVE  Spec => []A3DIsNeverRejected
<1>1. DecisionLog => A3DIsNeverRejected
  BY DEF DecisionLog, A3DIsNeverRejected
<1> QED BY <1>1, DecisionLogAlways, PTL

\* A proposal the planner fell back to is never the one the gate rejects, so
\* the two causes of a fallback never compete for the one ledger column.
THEOREM PlannerFallbackNeverRejected == Spec => []PlannerFallbackIsNeverRejected
<1>1. DecisionLog => PlannerFallbackIsNeverRejected
  BY DEF DecisionLog, PlannerFallbackIsNeverRejected
<1> QED BY <1>1, DecisionLogAlways, PTL

\* Every answer the parser lets through has an executor mapping.
THEOREM ParsedAnswersAlwaysExecute ==
  ASSUME Policy = "A3-LLM"
  PROVE  Spec => []ParsedAnswersExecute
<1>1. DecisionLog => ParsedAnswersExecute
  BY DEF DecisionLog, ParsedAnswersExecute
<1> QED BY <1>1, DecisionLogAlways, PTL

-----------------------------------------------------------------------------
(***************************************************************************)
(* Refinement.  Before the first day nothing is halted, and once the halt  *)
(* boundary is behind nothing is open any more.                            *)
(***************************************************************************)
HaltDone ==
  /\ (day > HaltDay \/ (day = HaltDay /\ phase = "ledger") \/ phase = "done")
       => ep.sub # "pending"
  /\ phase = "open" /\ day = 0 => ~halted

LEMMA HaltDoneStep == IInv /\ HaltDone /\ [Next]_vars => HaltDone'
<1> SUFFICES ASSUME IInv, HaltDone, [Next]_vars PROVE HaltDone'
  OBVIOUS
<1> USE RunnerAssumption, WorldAssumption
<1>1. ep \in EpisodeState /\ day \in Nat /\ ep' \in EpisodeState
  BY IInvInductive DEF IInv, TypeOK
<1>2. CASE OpenDay
  <2>1. CASE day = 0
    <3>1. PICK draw \in Draws : ep' = SendMessage(ep, day, AutoEmail, draw)
      BY <1>2, <2>1 DEF OpenDay
    <3>2. AutoEmail \in Remedies
      BY DEF Remedies
    <3>3. ep'.sub = ep.sub \/ ep'.sub = "active"
      BY <1>1, <3>1, <3>2, MessageChanges
    <3> QED BY <1>2, <3>3 DEF OpenDay, HaltDone
  <2>2. CASE day # 0
    BY <1>2, <2>2 DEF OpenDay, HaltDone
  <2> QED BY <2>1, <2>2
<1>3. CASE Decide
  <2>1. ep'.sub = ep.sub \/ ep'.sub = "active"
    <3>1. PICK p : Execute(p, Executed(p, View))
      BY <1>3 DEF Decide, Decision
    <3>2. CASE Executed(p, View) = "CONTACT"
      <4>1. PICK draw \in Draws :
              ep' = SendContact(condition, ep, day, p.remedy, draw)
        BY <3>1, <3>2 DEF Execute
      <4>2. p.remedy \in AgentRemedies
        BY <3>2, AcceptedContactIsAllowed
      <4> QED BY <1>1, <4>1, <4>2, ContactChanges
    <3>3. CASE Executed(p, View) # "CONTACT"
      BY <3>1, <3>3 DEF Execute
    <3> QED BY <3>2, <3>3
  <2> QED BY <1>3, <2>1 DEF Decide, HaltDone
<1>4. CASE Retry
  <2>1. \/ ep' = ep
        \/ ep' = [ep EXCEPT !.invoice = TRUE, !.sub = "active"]
    BY <1>4 DEF Retry, AfterRetry
  <2>2. ep'.sub = ep.sub \/ ep'.sub = "active"
    BY <1>1, <2>1 DEF EpisodeState
  <2> QED BY <1>4, <2>2 DEF Retry, HaltDone
<1>5. CASE Halt
  <2>1. CASE HaltsNow(ep, day, halted)
    <3>1. ep'.sub # "pending"
      <4> DEFINE e == [ep EXCEPT !.sub = "halted"]
      <4>1. e \in EpisodeState /\ e.sub = "halted"
        BY <1>1 DEF EpisodeState, SubscriptionStates
      <4>2. PICK draw \in Draws : ep' = SendMessage(e, day, AutoEmail, draw)
        BY <1>5, <2>1 DEF Halt, AfterHalt
      <4>3. AutoEmail \in Remedies
        BY DEF Remedies
      <4> HIDE DEF e
      <4>4. ep'.sub = "halted" \/ ep'.sub = "active"
        BY <1>1, <4>1, <4>2, <4>3, MessageChanges
      <4> QED BY <4>4
    <3> QED BY <1>5, <3>1 DEF Halt, HaltDone
  <2>2. CASE ~HaltsNow(ep, day, halted)
    <3>1. ep' = ep
      BY <1>5, <2>2 DEF Halt
    <3>2. day = HaltDay => ep.sub # "pending"
      BY <2>2 DEF HaltsNow, IInv, OutcomeShape
    <3> QED BY <1>1, <1>5, <3>1, <3>2 DEF Halt, HaltDone
  <2> QED BY <2>1, <2>2
<1>6. CASE WriteLedger
  <2>1. day \in 0..WindowDays
    BY DEF IInv, TypeOK
  <2>2. day >= HaltDay => ep.sub # "pending"
    BY <1>1, <1>6 DEF WriteLedger, HaltDone
  <2> QED BY <1>1, <1>6, <2>1, <2>2 DEF WriteLedger, NextDay, HaltDone
<1>7. CASE Terminated \/ UNCHANGED vars
  BY <1>7 DEF Terminated, vars, HaltDone
<1> QED BY <1>2, <1>3, <1>4, <1>5, <1>6, <1>7 DEF Next

LEMMA InitContract == Init => Contract!ContractInit
<1> SUFFICES ASSUME Init PROVE Contract!ContractInit
  OBVIOUS
<1>1. PICK latent \in LatentType : ep = Opening(condition, latent)
  BY RunnerAssumption, LatentStatesAreTyped DEF Init
<1>2. /\ ep.sub = IF condition = Cancelled THEN "cancelled" ELSE "pending"
      /\ ep.contacts = 0
      /\ ep.cardAtOpening \in BOOLEAN
  BY <1>1 DEF Opening, LatentType
<1>3. Outcome = IF condition = Cancelled THEN "cancelled" ELSE "open"
  BY <1>2 DEF Outcome
<1> QED BY <1>2, <1>3 DEF Init, Contract!ContractInit

LEMMA OutcomeValues ==
  ASSUME IInv
  PROVE  /\ Outcome = "open"      <=> ep.sub = "pending"
         /\ Outcome = "halted"    <=> ep.sub = "halted"
         /\ Outcome = "cancelled" <=> ep.sub = "cancelled"
         /\ Outcome = "recovered" <=> ep.sub = "active" /\ ep.invoice
         /\ Outcome = "rescued"   <=> ep.sub = "active" /\ ~ep.invoice
BY DEF IInv, OutcomeShape, Outcome

LEMMA ContractStep ==
  IInv /\ HaltDone /\ [Next]_vars
    => [Contract!ContractNext]_(Contract!contractVars)
<1> SUFFICES ASSUME IInv, HaltDone, [Next]_vars
             PROVE  [Contract!ContractNext]_(Contract!contractVars)
  OBVIOUS
<1> USE RunnerAssumption, WorldAssumption
<1>1. IInv'
  BY IInvInductive
<1>2. /\ ep \in EpisodeState
      /\ ep' \in EpisodeState
      /\ ep.contacts \in Nat
      /\ day \in Nat
  BY <1>1 DEF IInv, TypeOK, EpisodeState
<1>3. ASSUME ep'.sub = ep.sub, ep'.invoice = ep.invoice,
             ep'.cardAtOpening = ep.cardAtOpening,
             ep'.contacts = ep.contacts,
             (phase' = "done") = (phase = "done")
      PROVE  UNCHANGED Contract!contractVars
  BY <1>3 DEF Contract!contractVars, Outcome
<1>4. CASE OpenDay
  <2>1. /\ ep'.contacts = ep.contacts
        /\ ep'.invoice = ep.invoice
        /\ ep'.cardAtOpening = ep.cardAtOpening
        /\ ep'.sub = ep.sub
    <3>1. CASE day = 0
      <4>1. PICK draw \in Draws : ep' = SendMessage(ep, day, AutoEmail, draw)
        BY <1>4, <3>1 DEF OpenDay
      <4>2. AutoEmail \in Remedies /\ ~IsAgentContact(AutoEmail)
        BY DEF Remedies, IsAgentContact
      <4>3. ep.contacts + 0 = ep.contacts
        BY <1>2
      <4>4. ep.sub # "halted"
        BY <1>4, <3>1 DEF OpenDay, HaltDone, IInv, OutcomeShape
      <4> QED BY <1>2, <4>1, <4>2, <4>3, <4>4, MessageChanges
    <3>2. CASE day # 0
      BY <1>4, <3>2 DEF OpenDay
    <3> QED BY <3>1, <3>2
  <2> QED BY <1>3, <1>4, <2>1 DEF OpenDay
<1>5. CASE Decide
  <2>1. PICK p : Execute(p, Executed(p, View))
    BY <1>5 DEF Decide, Decision
  <2>2. CASE Executed(p, View) = "CONTACT"
    <3>1. PICK draw \in Draws :
            ep' = SendContact(condition, ep, day, p.remedy, draw)
      BY <2>1, <2>2 DEF Execute
    <3>2. p.remedy \in AgentRemedies
      BY <2>2, AcceptedContactIsAllowed
    <3>3. /\ ep'.contacts = ep.contacts + 1
          /\ ep'.invoice = ep.invoice
          /\ ep'.cardAtOpening = ep.cardAtOpening
          /\ ep'.sub = IF ep.sub = "halted" /\ ep'.card /\ ~ep'.cardAtOpening
                       THEN "active" ELSE ep.sub
      BY <1>2, <3>1, <3>2, ContactChanges
    <3>4. ep.contacts < MaxContacts /\ ep.sub \in {"pending", "halted"}
      BY <1>5 DEF Decide, IInv, Spending
    <3>5. phase # "done" /\ phase' # "done"
      BY <1>5 DEF Decide
    <3>6. CASE ep.sub = "pending"
      <4>1. Outcome = "open" /\ Outcome' = "open"
        BY <3>3, <3>6 DEF Outcome
      <4> QED BY <3>3, <3>4, <3>5, <4>1
              DEF Contract!ContractNext, Contract!Contact
    <3>7. CASE ep.sub = "halted"
      <4>1. ~ep.invoice
        BY <3>7 DEF IInv, OutcomeShape
      <4>2. /\ Outcome = "halted"
            /\ \/ Outcome' = "halted"
               \/ Outcome' = "rescued" /\ ~ep.cardAtOpening
        BY <3>3, <3>7, <4>1 DEF Outcome
      <4> QED BY <3>3, <3>4, <3>5, <4>2
              DEF Contract!ContractNext, Contract!Contact, Contract!AfterRepair
    <3> QED BY <3>4, <3>6, <3>7
  <2>3. CASE Executed(p, View) # "CONTACT"
    <3>1. ep' = ep
      BY <2>1, <2>3 DEF Execute
    <3> QED BY <1>3, <1>5, <3>1 DEF Decide
  <2> QED BY <2>2, <2>3
<1>6. CASE Retry
  <2>1. CASE ep' = ep
    BY <1>3, <1>6, <2>1 DEF Retry
  <2>2. CASE /\ ~ep.invoice /\ ~halted
             /\ ep' = [ep EXCEPT !.invoice = TRUE, !.sub = "active"]
    <3>1. /\ ep'.invoice
          /\ ep'.sub = "active"
          /\ ep'.contacts = ep.contacts
          /\ ep'.cardAtOpening = ep.cardAtOpening
      BY <1>2, <2>2 DEF EpisodeState
    <3>2. ep.sub = "pending"
      BY <1>6, <2>2 DEF IInv, OutcomeShape, Retry
    <3>3. Outcome = "open" /\ Outcome' = "recovered"
      BY <3>1, <3>2 DEF Outcome
    <3> QED BY <1>6, <3>1, <3>3
            DEF Retry, Contract!ContractNext, Contract!Recover
  <2> QED BY <1>6, <2>1, <2>2 DEF Retry, AfterRetry
<1>7. CASE Halt
  <2>1. CASE HaltsNow(ep, day, halted)
    <3> DEFINE e == [ep EXCEPT !.sub = "halted"]
    <3>1. /\ e \in EpisodeState
          /\ e.sub = "halted"
          /\ e.invoice = ep.invoice
          /\ e.cardAtOpening = ep.cardAtOpening
          /\ e.contacts = ep.contacts
      BY <1>2 DEF EpisodeState, SubscriptionStates
    <3>2. PICK draw \in Draws : ep' = SendMessage(e, day, AutoEmail, draw)
      BY <1>7, <2>1 DEF Halt, AfterHalt
    <3>3. AutoEmail \in Remedies /\ ~IsAgentContact(AutoEmail)
      BY DEF Remedies, IsAgentContact
    <3> HIDE DEF e
    <3>4. /\ ep'.contacts = ep.contacts + 0
          /\ ep'.invoice = ep.invoice
          /\ ep'.cardAtOpening = ep.cardAtOpening
          /\ ep'.sub = IF ep'.card /\ ~ep'.cardAtOpening
                       THEN "active" ELSE "halted"
      BY <1>2, <3>1, <3>2, <3>3, MessageChanges
    <3>5. ~ep.invoice /\ ep.sub = "pending"
      BY <1>7, <2>1 DEF HaltsNow, IInv, OutcomeShape, Halt
    <3>6. /\ Outcome = "open"
          /\ \/ Outcome' = "halted"
             \/ Outcome' = "rescued" /\ ~ep.cardAtOpening
      BY <3>4, <3>5 DEF Outcome
    <3>7. ep'.contacts = ep.contacts
      BY <1>2, <3>4
    <3> QED BY <1>7, <3>4, <3>6, <3>7
            DEF Halt, Contract!ContractNext, Contract!GiveUp,
                Contract!AfterRepair
  <2>2. CASE ~HaltsNow(ep, day, halted)
    BY <1>3, <1>7, <2>2 DEF Halt
  <2> QED BY <2>1, <2>2
<1>8. CASE WriteLedger
  <2>1. ep' = ep
    BY <1>8 DEF WriteLedger
  <2>2. CASE phase' = "open"
    BY <1>3, <1>8, <2>1, <2>2 DEF WriteLedger
  <2>3. CASE phase' = "done"
    <3>1. day = WindowDays
      BY <1>8, <2>3 DEF WriteLedger, NextDay
    <3>2. ep.sub # "pending"
      BY <1>2, <1>8, <3>1 DEF HaltDone, WriteLedger
    <3>3. Outcome # "open" /\ Outcome' = Outcome
      BY <2>1, <3>2, OutcomeValues DEF Outcome
    <3> QED BY <1>8, <2>1, <2>3, <3>3
            DEF WriteLedger, Contract!ContractNext, Contract!Close
  <2> QED BY <1>8, <2>2, <2>3 DEF WriteLedger, NextDay
<1>9. CASE Terminated \/ UNCHANGED vars
  BY <1>3, <1>9 DEF Terminated, vars
<1> QED BY <1>4, <1>5, <1>6, <1>7, <1>8, <1>9 DEF Next

\* Every behaviour of the runner is, step by step, one of the contract (its
\* safety part; that the contract's fairness is met too is left to the runs).
THEOREM RunnerImplementsContract ==
  Spec => Contract!ContractInit
            /\ [][Contract!ContractNext]_(Contract!contractVars)
<1>1. Init => HaltDone
  <2> SUFFICES ASSUME Init PROVE HaltDone
    OBVIOUS
  <2>1. PICK latent : ep = Opening(condition, latent)
    BY DEF Init
  <2> QED BY <2>1, WorldAssumption DEF Init, Opening, HaltDone
<1> QED BY <1>1, InitContract, IInvAlways, HaltDoneStep, ContractStep, PTL
        DEF Spec

=============================================================================
