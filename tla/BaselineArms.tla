----------------------------- MODULE BaselineArms -----------------------------
(***************************************************************************)
(* The arms A3-D is compared with: A0, A1, the three A2 schedules (fixed   *)
(* schedules run by run_episode, sim/engine.py) and A4, the oracle that    *)
(* reads the latent state (baselines/a4.py).  A day of each loop is a pure *)
(* operator on a lane, the loop's local variables, given the world: the    *)
(* draws of the episode.                                                   *)
(*                                                                         *)
(* Common random numbers.  A draw is keyed by its own index (message       *)
(* number, top-up number) and never by the arm, so a world fixes what each *)
(* index would yield.  level[k] ranks the uniform draw that decides        *)
(* whether message k engages: it does when its level is below the appeal   *)
(* of the message actually sent, and an appeal falls with every earlier    *)
(* agent contact (fatigue) and is least for the automatic email.           *)
(***************************************************************************)
EXTENDS AgentPolicy

ScheduledArms ==
  {"A0", "A1", "A2", "A2_CORRECTED_V1", "A2_STRENGTHENED"}

NoContact == "none"

(***************************************************************************)
(* The schedules: (condition, day, subscription state) -> content or none. *)
(***************************************************************************)
A1(condition, day, state) ==
  IF day \in {0, 3} THEN "card_change" ELSE NoContact

CardPromptOn(days, day) == IF day \in days THEN "card_change" ELSE NoContact

\* Mutant: a broken card is first sent a balance reminder.
A2TopupFirst(condition, day, state) ==
  CASE condition \in CardBrokenKeys \cup {"ambiguous_decline"} ->
         IF day = 0 THEN "topup_reminder" ELSE CardPromptOn({5}, day)
    [] condition \in {"insufficient_funds", "transaction_limit_exceeded"} ->
         IF day = 1 THEN "topup_reminder" ELSE NoContact
    [] OTHER -> NoContact

\* Mutant: the card fallback the schedule was first dictated with.
A2WithFallback(condition, day, state) ==
  CASE condition \in CardBrokenKeys -> CardPromptOn({0, 5}, day)
    [] condition \in {"insufficient_funds", "transaction_limit_exceeded"} ->
         IF day = 1 THEN "topup_reminder"
         ELSE IF state \in {"pending", "halted"}
              THEN CardPromptOn({5}, day) ELSE NoContact
    [] condition = "ambiguous_decline" -> CardPromptOn({0, 7}, day)
    [] condition = "bank_technical_error" -> CardPromptOn({5}, day)
    [] OTHER -> NoContact

A2(condition, day, state) ==
  LET unresolved == state \in {"pending", "halted"}
  IN CASE condition \in CardBrokenKeys -> CardPromptOn({0, 5}, day)
       [] condition = "insufficient_funds" ->
            IF day = 1 THEN "topup_reminder" ELSE NoContact
       [] condition = "transaction_limit_exceeded" ->
            IF day = 1 THEN "topup_reminder"
            ELSE IF unresolved THEN CardPromptOn({5}, day) ELSE NoContact
       [] condition = "ambiguous_decline" -> CardPromptOn({0, 7}, day)
       [] condition = "bank_technical_error" -> CardPromptOn({5}, day)
       [] condition \in {Cancelled, "payment_risk_check_failed"} -> NoContact

A2Corrected(condition, day, state) ==
  CASE condition \in CardBrokenKeys -> CardPromptOn({0, 3}, day)
    [] condition = "bank_technical_error" ->
         IF state \in {"pending", "halted"}
         THEN CardPromptOn({5}, day) ELSE NoContact
    [] condition = "transaction_limit_exceeded" ->
         IF day = 1 THEN "topup_reminder" ELSE NoContact
    [] OTHER -> A2(condition, day, state)

\* Mutant: the third prompt replaces the second instead of joining it.
A2StrengthenedMoved(condition, day, state) ==
  IF condition \in CardBrokenKeys THEN CardPromptOn({0, 5}, day)
  ELSE A2Corrected(condition, day, state)

A2Strengthened(condition, day, state) ==
  IF condition \in CardBrokenKeys THEN CardPromptOn({0, 3, 5}, day)
  ELSE A2Corrected(condition, day, state)

Scheduled(arm, condition, day, state) ==
  CASE arm = "A0" -> NoContact
    [] arm = "A1" -> A1(condition, day, state)
    [] arm = "A2" -> A2(condition, day, state)
    [] arm = "A2_CORRECTED_V1" -> A2Corrected(condition, day, state)
    [] arm = "A2_STRENGTHENED" -> A2Strengthened(condition, day, state)

(***************************************************************************)
(* A4's lever, decided once from the latent state at opening.              *)
(***************************************************************************)
\* Mutant: the ambiguous bucket is not counted as fund-driven.
A4ContentInsufficientOnly(condition, latent) ==
  LET halt == HaltDay * TicksPerDay
  IN IF ~latent.card THEN "card_change"
     ELSE IF condition = "insufficient_funds" /\ latent.funds > halt
          THEN "topup_reminder" ELSE NoContact

A4Content(condition, latent) ==
  LET halt       == HaltDay * TicksPerDay
      certain    == latent.funds <= halt /\ latent.blocked <= halt
      fundDriven == condition \in {"insufficient_funds", "ambiguous_decline"}
  IN IF ~latent.card THEN "card_change"
     ELSE IF ~certain /\ fundDriven /\ latent.funds > halt
          THEN "topup_reminder" ELSE NoContact

A4Sends(content, ep, day) ==
  /\ content # NoContact
  /\ day \in {0, 1, 2}
  /\ ep.contacts < MaxContacts
  /\ ~ep.invoice
  /\ content = "card_change" => ~ep.card

(***************************************************************************)
(* The world of one episode and the draw a message of a lane meets in it.  *)
(***************************************************************************)
MessageIndexes == 0..(MaxContacts + 1)   \* the agent's and the two automatic

Appeal(remedy, ep) ==
  IF IsAgentContact(remedy) THEN 1 + MaxContacts - ep.contacts ELSE 1

NobodyEngages == MaxContacts + 1         \* a level no appeal reaches

DrawFor(world, ep, remedy) ==
  LET k == Len(ep.history)
  IN [engaged   |-> world.level[k] < Appeal(remedy, ep),
      completes |-> world.completes[k],
      topup     |-> world.topup[ep.topups]]

(***************************************************************************)
(* One day of run_episode and of run_a4_episode.                           *)
(***************************************************************************)
\* The locals of the three day loops; the last four are run_episode_a3's own:
\* two of its variables and, of its ledger, the records written and the gate
\* rules that rejected a proposal.
Lane(ep) == [ep |-> ep, halted |-> FALSE, stopped |-> FALSE, lastWake |-> 0,
             records |-> 0, rejectedBy |-> {}]

OpeningEmail(world, ep, day) ==
  IF day = 0 THEN SendMessage(ep, day, AutoEmail, DrawFor(world, ep, AutoEmail))
  ELSE ep

Contacted(world, ep, day, content) ==
  IF content = NoContact THEN ep
  ELSE SendContact(world.condition, ep, day, content,
                   DrawFor(world, ep, content))

CloseDay(world, lane, ep, day) ==
  LET retried == AfterRetry(ep, day, lane.halted)
      halts   == HaltsNow(retried, day, lane.halted)
  IN [lane EXCEPT
        !.halted = @ \/ halts,
        !.ep = IF halts
               THEN AfterHalt(retried, day, DrawFor(world, retried, AutoEmail))
               ELSE retried]

ScheduledDay(arm, world, lane, day) ==
  LET opened  == OpeningEmail(world, lane.ep, day)
      content == IF opened.contacts < MaxContacts
                 THEN Scheduled(arm, world.condition, day, opened.sub)
                 ELSE NoContact
  IN CloseDay(world, lane, Contacted(world, opened, day, content), day)

A4Day(world, lane, day) ==
  LET opened  == OpeningEmail(world, lane.ep, day)
      lever   == A4Content(world.condition, world.latent)
      content == IF A4Sends(lever, opened, day) THEN lever ELSE NoContact
  IN CloseDay(world, lane, Contacted(world, opened, day, content), day)

=============================================================================
