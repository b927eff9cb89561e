------------------------- MODULE EpisodeAuditProofs --------------------------
(***************************************************************************)
(* The ledger: its records chain day by day under every policy, and they   *)
(* reconcile with the episode under every policy but the caller-supplied   *)
(* one, whose unknown remedies are recorded as enforcement failures.       *)
(***************************************************************************)
EXTENDS EpisodeAudit, A3RunnerProofs

Counters == {"wakeups", "contacts", "waits", "stops", "escalations"}

\* Decided today and not yet in the ledger.
Pending(executed) ==
  IF phase \in {"retry", "halt", "ledger"} /\ tick.executed = executed
  THEN 1 ELSE 0

\* The record under construction: only a wake-up is executed, and a stopped
\* episode never wakes up again.
RecordShape ==
  /\ tick.type # "wakeup" => tick.executed = "none"
  /\ phase = "decide" =>
       tick.type = "wakeup" /\ tick.executed = "none" /\ ~stopped
  /\ phase \in {"retry", "halt", "ledger"} /\ tick.type = "wakeup" =>
       tick.executed \in {"CONTACT", "WAIT", "STOP"}

\* What the ledger shows is what happened, but for the record still pending.
Books ==
  /\ tally \in [Counters -> Nat]
  /\ tally.contacts + Pending("CONTACT") = ep.contacts
  /\ tally.stops + Pending("STOP") = IF stopped THEN 1 ELSE 0
  /\ tally.contacts + tally.waits + tally.stops = tally.wakeups

AuditInv == RecordShape /\ Books

\* The budget columns: what the record of today says was left, and was spent.
BudgetChain ==
  /\ phase = "open" /\ ticks > 0 => tick.after = Budget(ep)
  /\ phase = "decide" => tick.before = Budget(ep)
  /\ phase \in {"retry", "halt", "ledger"} =>
       tick.before - Budget(ep) = IF tick.executed = "CONTACT" THEN 1 ELSE 0

-----------------------------------------------------------------------------
\* Only a decision spends a contact: neither automatic email is one.
LEMMA OnlyDecisionsContact ==
  ASSUME IInv, OpenDay \/ Retry \/ Halt
  PROVE  ep'.contacts = ep.contacts
<1>1. /\ ep \in EpisodeState
      /\ day \in Nat
      /\ ep.contacts + 0 = ep.contacts
  BY RunnerAssumption DEF IInv, TypeOK, EpisodeState
<1>2. AutoEmail \in Remedies /\ ~IsAgentContact(AutoEmail)
  BY DEF Remedies, IsAgentContact
<1>3. CASE OpenDay
  BY <1>1, <1>2, <1>3, MessageChanges DEF OpenDay
<1>4. CASE Retry
  BY <1>1, <1>4 DEF Retry, AfterRetry, EpisodeState
<1>5. CASE Halt
  <2> DEFINE e == [ep EXCEPT !.sub = "halted"]
  <2>1. e \in EpisodeState /\ e.contacts = ep.contacts
    BY <1>1 DEF EpisodeState, SubscriptionStates
  <2>2. ep' = ep \/ \E draw \in Draws : ep' = SendMessage(e, day, AutoEmail, draw)
    BY <1>5 DEF Halt, AfterHalt
  <2> HIDE DEF e
  <2> QED BY <1>1, <1>2, <2>1, <2>2, MessageChanges
<1> QED BY <1>3, <1>4, <1>5

\* A decision spends one exactly when it is executed as a contact, and stops
\* the episode exactly when it is executed as a stop.
LEMMA DecisionIsRecorded ==
  ASSUME IInv, Decide
  PROVE  /\ tick'.type = tick.type
         /\ tick'.before = tick.before
         /\ tick'.executed \in ExecutedActions \ {"none"}
         /\ ep'.contacts = ep.contacts
                             + IF tick'.executed = "CONTACT" THEN 1 ELSE 0
         /\ stopped' = (stopped \/ tick'.executed = "STOP")
<1>1. /\ ep \in EpisodeState
      /\ day \in Nat
      /\ tick \in TickRecords
      /\ ep.contacts \in Nat
  BY RunnerAssumption DEF IInv, TypeOK, EpisodeState
<1>2. PICK out \in PolicyOutputs(View) : Decision(out, View)
  BY DEF Decide
<1> DEFINE exec == Survivor(out, View)
<1>3. /\ tick'.type = tick.type
      /\ tick'.before = tick.before
      /\ tick'.executed = Executed(exec, View)
      /\ Execute(exec, Executed(exec, View))
  BY <1>1, <1>2 DEF Decision, TickRecords
<1> HIDE DEF exec
<1>4. tick'.executed \in ExecutedActions \ {"none"}
  BY <1>3 DEF ExecutedActions, Executed
<1>5. CASE tick'.executed = "CONTACT"
  <2>1. PICK draw \in Draws :
          ep' = SendContact(condition, ep, day, exec.remedy, draw)
    BY <1>3, <1>5 DEF Execute
  <2>2. exec.remedy \in AgentRemedies
    BY <1>3, <1>5, AcceptedContactIsAllowed
  <2>3. ep'.contacts = ep.contacts + 1
    BY <1>1, <2>1, <2>2, ContactChanges
  <2> QED BY <1>3, <1>4, <1>5, <2>3 DEF Execute
<1>6. CASE tick'.executed # "CONTACT"
  <2>1. ep' = ep
    BY <1>3, <1>6 DEF Execute
  <2> QED BY <1>1, <1>3, <1>4, <1>6, <2>1 DEF Execute
<1> QED BY <1>5, <1>6

-----------------------------------------------------------------------------
LEMMA BudgetChainStep == IInv /\ BudgetChain /\ [Next]_vars => BudgetChain'
<1> SUFFICES ASSUME IInv, BudgetChain, [Next]_vars PROVE BudgetChain'
  OBVIOUS
<1>1. /\ ep.contacts \in Nat
      /\ ep'.contacts \in Nat
      /\ MaxContacts \in Nat
      /\ tick \in TickRecords
  BY WorldAssumption, IInvInductive DEF IInv, TypeOK, EpisodeState
<1>2. CASE OpenDay
  <2>1. tick'.before = Budget(ep') /\ tick'.executed = "none"
    BY <1>2 DEF OpenDay, BlankTick
  <2> QED BY <1>1, <1>2, <2>1 DEF OpenDay, BudgetChain, Budget
<1>3. CASE Decide
  <2>1. /\ tick'.before = tick.before
        /\ ep'.contacts = ep.contacts
                            + IF tick'.executed = "CONTACT" THEN 1 ELSE 0
    BY <1>3, DecisionIsRecorded
  <2>2. tick.before = MaxContacts - ep.contacts
    BY <1>3 DEF Decide, BudgetChain, Budget
  <2>3. tick'.before - (MaxContacts - ep'.contacts)
          = IF tick'.executed = "CONTACT" THEN 1 ELSE 0
    BY <1>1, <2>1, <2>2
  <2> QED BY <1>3, <2>3 DEF Decide, BudgetChain, Budget
<1>4. CASE Retry \/ Halt
  <2>1. ep'.contacts = ep.contacts
    BY <1>4, OnlyDecisionsContact
  <2> QED BY <1>4, <2>1 DEF Retry, Halt, BudgetChain, Budget
<1>5. CASE WriteLedger
  <2>1. tick'.after = Budget(ep')
    BY <1>1, <1>5 DEF WriteLedger, Record, TickRecords
  <2> QED BY <1>5, <2>1 DEF WriteLedger, NextDay, BudgetChain
<1>6. CASE Terminated \/ UNCHANGED vars
  BY <1>6 DEF Terminated, vars, BudgetChain
<1> QED BY <1>2, <1>3, <1>4, <1>5, <1>6 DEF Next

LEMMA RecordsWrittenAlways == Spec => []RecordsWritten
<1>1. IInv => RecordsWritten
  BY DEF IInv
<1> QED BY <1>1, IInvAlways, PTL

\* One record per day, in order, and the budget columns of consecutive records
\* form a chain that drops by one exactly at a contact, under every policy.
THEOREM AuditTrailAlways == Spec => AuditTrail
<1>1. Init => BudgetChain
  BY DEF Init, BudgetChain
<1>2. IInv /\ RecordsWritten /\ BudgetChain /\ [Next]_vars =>
        [AuditStep]_vars
  <2> SUFFICES ASSUME IInv, RecordsWritten, BudgetChain, Next
               PROVE  AuditStep \/ UNCHANGED vars
    OBVIOUS
  <2>1. CASE WriteLedger
    <3>1. condition # Cancelled
      BY <2>1 DEF WriteLedger, IInv, OutcomeShape, DeclineCodes,
                  CardBrokenKeys, Cancelled
    <3>2. /\ tick'.before = tick.before
          /\ tick'.after = Budget(ep)
          /\ tick'.executed = tick.executed
      BY <2>1 DEF WriteLedger, Record, IInv, TypeOK, TickRecords
    <3> QED BY <2>1, <3>1, <3>2
            DEF WriteLedger, RecordsWritten, BudgetChain, AuditStep
  <2>2. CASE OpenDay
    <3>1. ep'.contacts = ep.contacts
      BY <2>2, OnlyDecisionsContact
    <3>2. tick'.before = Budget(ep) /\ ticks' = ticks
      BY <2>2, <3>1 DEF OpenDay, BlankTick, Budget
    <3> QED BY <3>2 DEF BudgetChain, AuditStep
  <2>3. CASE Decide \/ Retry \/ Halt
    BY <2>3 DEF Decide, Retry, Halt, AuditStep
  <2>4. CASE Terminated
    BY <2>4 DEF Terminated
  <2> QED BY <2>1, <2>2, <2>3, <2>4 DEF Next
<1> QED BY <1>1, <1>2, IInvAlways, RecordsWrittenAlways, BudgetChainStep, PTL
        DEF Spec, AuditTrail

-----------------------------------------------------------------------------
LEMMA InitAuditInv == AuditInit => AuditInv
<1> SUFFICES ASSUME AuditInit PROVE AuditInv
  OBVIOUS
<1>1. PICK latent : ep = Opening(condition, latent)
  BY DEF AuditInit, Init
<1>2. ep.contacts = 0
  BY <1>1 DEF Opening
<1>3. RecordShape
  BY DEF AuditInit, Init, BlankTick, RecordShape
<1>4. Books
  BY <1>2 DEF AuditInit, Init, BlankTick, Books, Counters, Pending
<1> QED BY <1>3, <1>4 DEF AuditInv

LEMMA OpenDayAuditInv ==
  ASSUME IInv, AuditInv, OpenDay, UNCHANGED tally
  PROVE  AuditInv'
<1>1. ep'.contacts = ep.contacts
  BY OnlyDecisionsContact
<1>2. tick'.type = TickType(ep') /\ tick'.executed = "none"
  BY DEF OpenDay, BlankTick
<1>3. RecordShape'
  BY <1>2 DEF OpenDay, RecordShape, TickType, EpisodeOver
<1>4. Books'
  BY <1>1, <1>2 DEF OpenDay, AuditInv, Books, Pending
<1> QED BY <1>3, <1>4 DEF AuditInv

LEMMA DecideAuditInv ==
  ASSUME IInv, DecisionLog', AuditInv, Decide, UNCHANGED tally, Policy # "any"
  PROVE  AuditInv'
<1>1. /\ tick'.type = tick.type
      /\ tick'.executed \in {"CONTACT", "WAIT", "STOP"}
      /\ ep'.contacts = ep.contacts
                          + IF tick'.executed = "CONTACT" THEN 1 ELSE 0
      /\ stopped' = (stopped \/ tick'.executed = "STOP")
  BY DecisionIsRecorded DEF DecisionLog, ExecutedActions
<1>2. tick.type = "wakeup" /\ ~stopped
  BY DEF Decide, AuditInv, RecordShape
<1>3. RecordShape'
  BY <1>1, <1>2 DEF Decide, RecordShape
<1>4. Books'
  <2>1. tally.contacts \in Nat /\ tally.stops \in Nat /\ ep.contacts \in Nat
    BY DEF AuditInv, Books, Counters, IInv, TypeOK, EpisodeState
  <2>2. Pending("CONTACT") = 0 /\ Pending("STOP") = 0
    BY DEF Decide, Pending
  <2>3. tally.contacts = ep.contacts /\ tally.stops = 0
    BY <1>2, <2>1, <2>2 DEF AuditInv, Books
  <2>4. /\ Pending("CONTACT")' = IF tick'.executed = "CONTACT" THEN 1 ELSE 0
        /\ Pending("STOP")' = IF tick'.executed = "STOP" THEN 1 ELSE 0
    BY DEF Decide, Pending
  <2>5. tally.contacts + Pending("CONTACT")' = ep'.contacts
    BY <1>1, <2>3, <2>4
  <2>6. tally.stops + Pending("STOP")' = IF stopped' THEN 1 ELSE 0
    <3>1. stopped' <=> tick'.executed = "STOP"
      BY <1>1, <1>2
    <3> QED BY <2>3, <2>4, <3>1
  <2> QED BY <2>5, <2>6 DEF AuditInv, Books
<1> QED BY <1>3, <1>4 DEF AuditInv

LEMMA LaterStepsAuditInv ==
  ASSUME IInv, AuditInv, Retry \/ Halt, UNCHANGED tally
  PROVE  AuditInv'
<1>1. ep'.contacts = ep.contacts
  BY OnlyDecisionsContact
<1>2. /\ phase \in {"retry", "halt"} /\ phase' \in {"halt", "ledger"}
      /\ UNCHANGED <<condition, day, stopped, tick, ticks>>
  BY DEF Retry, Halt
<1>3. RecordShape'
  BY <1>2 DEF AuditInv, RecordShape
<1>4. Books'
  BY <1>1, <1>2 DEF AuditInv, Books, Pending
<1> QED BY <1>3, <1>4 DEF AuditInv

LEMMA WriteLedgerAuditInv ==
  ASSUME IInv, AuditInv, WriteLedger, tally' = Tallied(tick')
  PROVE  AuditInv'
<1>1. /\ tick'.type = tick.type
      /\ tick'.executed = tick.executed
      /\ phase' \in {"open", "done"}
      /\ day \in Nat
      /\ UNCHANGED <<condition, ep, stopped>>
  BY RunnerAssumption
     DEF WriteLedger, Record, NextDay, IInv, TypeOK, TickRecords
<1>2. RecordShape'
  BY <1>1 DEF AuditInv, RecordShape
<1>3. Books'
  <2>1. tally \in [Counters -> Nat]
    BY DEF AuditInv, Books
  <2>2. /\ Pending("CONTACT") = IF tick.executed = "CONTACT" THEN 1 ELSE 0
        /\ Pending("STOP") = IF tick.executed = "STOP" THEN 1 ELSE 0
        /\ Pending("CONTACT")' = 0
        /\ Pending("STOP")' = 0
    BY <1>1 DEF WriteLedger, Pending
  <2>3. CASE tick.type # "wakeup"
    <3>1. tally' = tally /\ tick.executed = "none"
      BY <1>1, <2>3 DEF Tallied, AuditInv, RecordShape
    <3> QED BY <1>1, <2>2, <3>1 DEF AuditInv, Books
  <2>4. CASE tick.type = "wakeup"
    <3>1. tick.executed \in {"CONTACT", "WAIT", "STOP"}
      BY <2>4 DEF WriteLedger, AuditInv, RecordShape
    <3>2. /\ tally' \in [Counters -> Nat]
          /\ tally'.wakeups = tally.wakeups + 1
          /\ tally'.contacts = tally.contacts + Counted("CONTACT", tick')
          /\ tally'.waits = tally.waits + Counted("WAIT", tick')
          /\ tally'.stops = tally.stops + Counted("STOP", tick')
      <4> DEFINE escalated == IF Escalates(tick') THEN 1 ELSE 0
                 contact   == Counted("CONTACT", tick')
                 wait      == Counted("WAIT", tick')
                 stop      == Counted("STOP", tick')
      <4>1. /\ escalated \in Nat /\ contact \in Nat
            /\ wait \in Nat /\ stop \in Nat
        BY DEF Counted
      <4>2. tally' = [tally EXCEPT !.wakeups     = @ + 1,
                                   !.contacts    = @ + contact,
                                   !.waits       = @ + wait,
                                   !.stops       = @ + stop,
                                   !.escalations = @ + escalated]
        BY <1>1, <2>4 DEF Tallied
      <4> HIDE DEF escalated, contact, wait, stop
      <4>3. tally' \in [Counters -> Nat]
        <5>1. /\ tally.wakeups + 1 \in Nat
              /\ tally.contacts + contact \in Nat
              /\ tally.waits + wait \in Nat
              /\ tally.stops + stop \in Nat
              /\ tally.escalations + escalated \in Nat
          BY <2>1, <4>1 DEF Counters
        <5> QED BY <2>1, <4>2, <5>1 DEF Counters
      <4>4. /\ tally'.wakeups = tally.wakeups + 1
            /\ tally'.contacts = tally.contacts + contact
            /\ tally'.waits = tally.waits + wait
            /\ tally'.stops = tally.stops + stop
        BY <2>1, <4>2 DEF Counters
      <4> QED BY <4>3, <4>4 DEF contact, wait, stop
    <3>3. /\ Counted("CONTACT", tick') = Pending("CONTACT")
          /\ Counted("STOP", tick') = Pending("STOP")
          /\ Counted("CONTACT", tick') + Counted("WAIT", tick')
               + Counted("STOP", tick') = 1
      BY <1>1, <2>2, <3>1 DEF Counted
    <3>4. /\ Counted("CONTACT", tick') \in Nat
          /\ Counted("WAIT", tick') \in Nat
          /\ Counted("STOP", tick') \in Nat
          /\ tally.wakeups \in Nat /\ tally.contacts \in Nat
          /\ tally.waits \in Nat /\ tally.stops \in Nat
      BY <2>1 DEF Counted, Counters
    <3>5. /\ tally'.contacts + 0 = ep'.contacts
          /\ tally'.stops + 0 = IF stopped' THEN 1 ELSE 0
      BY <1>1, <3>2, <3>3, <3>4 DEF AuditInv, Books
    <3>6. tally'.contacts + tally'.waits + tally'.stops = tally'.wakeups
      BY <3>2, <3>3, <3>4 DEF AuditInv, Books
    <3> QED BY <2>2, <3>2, <3>5, <3>6 DEF Books
  <2> QED BY <2>3, <2>4
<1> QED BY <1>2, <1>3 DEF AuditInv

LEMMA AuditInvInductive ==
  ASSUME Policy # "any"
  PROVE  IInv /\ DecisionLog' /\ AuditInv /\ [AuditNext]_auditVars => AuditInv'
<1> SUFFICES ASSUME IInv, DecisionLog', AuditInv, [AuditNext]_auditVars
             PROVE  AuditInv'
  OBVIOUS
<1>1. CASE (Terminated /\ UNCHANGED tally) \/ UNCHANGED auditVars
  BY <1>1 DEF Terminated, auditVars, vars, AuditInv, RecordShape, Books, Pending
<1> QED BY <1>1, OpenDayAuditInv, DecideAuditInv, LaterStepsAuditInv,
           WriteLedgerAuditInv DEF AuditNext

\* The ledger reconciles with the episode under A3-D, under any answers of a
\* language model, and under the null policy.
THEOREM LedgerAlwaysReconciles ==
  ASSUME Policy # "any"
  PROVE  AuditSpec => []LedgerReconciles
<1>1. AuditInit => Init
  BY DEF AuditInit
<1>2. [AuditNext]_auditVars => [Next]_vars
  BY DEF AuditNext, auditVars, Next
<1>3. AuditSpec => Spec
  BY <1>1, <1>2, PTL DEF AuditSpec, Spec
<1>4. RecordsWritten /\ AuditInv => LedgerReconciles
  <2> SUFFICES ASSUME RecordsWritten, AuditInv PROVE LedgerReconciles
    OBVIOUS
  <2>1. /\ tally.contacts \in Nat
        /\ tally.stops \in Nat
    BY DEF AuditInv, Books, Counters
  <2>2. phase = "done" => Pending("CONTACT") = 0 /\ Pending("STOP") = 0
    BY DEF Pending
  <2>3. phase = "done" => AuditCoverage
    BY DEF RecordsWritten, AuditCoverage
  <2> QED BY <2>1, <2>2, <2>3 DEF AuditInv, Books, LedgerReconciles
<1> QED BY <1>3, <1>4, IInvAlways, DecisionLogAlways, RecordsWrittenAlways,
           InitAuditInv, AuditInvInductive, PTL DEF AuditSpec

=============================================================================
