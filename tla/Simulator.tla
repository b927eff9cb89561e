------------------------------ MODULE Simulator ------------------------------
(***************************************************************************)
(* The simulated world of one subscription whose invoice failed at T+0:    *)
(* the hidden physical state drawn at opening (sim/latent.py), the         *)
(* messages and their effects, the automatic retries and the halt at T+3   *)
(* (sim/engine.py).  These are the primitives every episode loop of the    *)
(* repository is built from: run_episode, run_a4_episode, run_episode_a3.  *)
(*                                                                         *)
(* Time.  The code compares whole days with real-valued instants           *)
(* (funds_available_from, blocked_until).  Here an instant is a natural    *)
(* number of ticks and a day is TicksPerDay of them, so two instants can   *)
(* fall inside the same day and be compared.                               *)
(*                                                                         *)
(* Randomness.  A draw that decides something is a field of a `draw`       *)
(* record chosen by the caller: whether the customer engages, whether the  *)
(* card change completes, and how soon a top-up lands (0 = no top-up).     *)
(***************************************************************************)
EXTENDS Integers, Sequences, FiniteSets

CONSTANTS
  TicksPerDay,     \* resolution of an instant inside a day
  RetryDays,       \* razorpay_retry_engine.card_schedule_days
  HaltDay,         \* payment_method_change_effect.halt_boundary_day
  MaxContacts,     \* agent_budget.max_contacts_per_episode
  FundsTimes,      \* instants balance_restore_delay can draw
  ClearanceTimes,  \* instants bank_technical_error_clearance can draw
  AccelDelays,     \* ticks topup_acceleration's exponential can draw
  Never            \* BLOCKED_INDEFINITELY: later than every retry

ASSUME WorldAssumption ==
  /\ TicksPerDay \in Nat \ {0}
  /\ HaltDay \in Nat
  /\ RetryDays \subseteq 0..HaltDay
  /\ MaxContacts \in Nat
  /\ FundsTimes \subseteq Nat
  /\ ClearanceTimes \subseteq Nat
  /\ AccelDelays \subseteq Nat \ {0}   \* an exponential draw is positive
  /\ Never \in Nat
  /\ \A d \in RetryDays : d * TicksPerDay < Never

(***************************************************************************)
(* Opening conditions and the latent state each one opens with.            *)
(***************************************************************************)
CardBrokenKeys ==
  {"card_expired", "debit_instrument_blocked", "card_not_enabled_group"}

DeclineCodes ==
  CardBrokenKeys \cup
  {"insufficient_funds", "ambiguous_decline", "bank_technical_error",
   "transaction_limit_exceeded", "payment_risk_check_failed"}

Cancelled == "subscription_cancelled_by_customer"

OpeningConditions == DeclineCodes \cup {Cancelled}

Latent(card, funds, blocked, mandate) ==
  [card |-> card, funds |-> funds, blocked |-> blocked, mandate |-> mandate]

LatentStates(condition) ==
  LET waitingForFunds == {Latent(TRUE, f, 0, TRUE) : f \in FundsTimes}
      brokenCard      == {Latent(FALSE, 0, 0, TRUE)}
  IN CASE condition = "insufficient_funds" -> waitingForFunds
       [] condition = "ambiguous_decline"  -> waitingForFunds \cup brokenCard
       [] condition \in CardBrokenKeys     -> brokenCard
       [] condition = "bank_technical_error" ->
            {Latent(TRUE, 0, b, TRUE) : b \in ClearanceTimes}
       [] condition \in {"transaction_limit_exceeded",
                         "payment_risk_check_failed"} ->
            {Latent(TRUE, 0, Never, TRUE)}
       [] condition = Cancelled -> {Latent(TRUE, 0, 0, FALSE)}

(***************************************************************************)
(* The mutable per-episode state (_EpisodeState).  message_index is        *)
(* Len(history), and agent_contact_count is contacts: the code increments  *)
(* each pair together.                                                     *)
(***************************************************************************)
SubscriptionStates == {"pending", "halted", "active", "cancelled"}

AgentRemedies == {"card_change", "topup_reminder"}
AutoEmail == "both"      \* the automatic email names the card and the dues
Remedies  == AgentRemedies \cup {AutoEmail}

ContactRecord == [day : Nat, remedy : Remedies, engaged : BOOLEAN]

EpisodeState ==
  [card : BOOLEAN, cardAtOpening : BOOLEAN, funds : Nat, blocked : Nat,
   mandate : BOOLEAN, sub : SubscriptionStates, invoice : BOOLEAN,
   contacts : Nat, wasted : Nat, topups : Nat, wrongCard : BOOLEAN,
   history : Seq(ContactRecord)]

Opening(condition, latent) ==
  [card          |-> latent.card,
   cardAtOpening |-> latent.card,
   funds         |-> latent.funds,
   blocked       |-> latent.blocked,
   mandate       |-> latent.mandate,
   sub           |-> IF condition = Cancelled THEN "cancelled" ELSE "pending",
   invoice       |-> FALSE,
   contacts      |-> 0,
   wasted        |-> 0,
   topups        |-> 0,
   wrongCard     |-> FALSE,
   history       |-> <<>>]

(***************************************************************************)
(* Messages.                                                               *)
(***************************************************************************)
NamesCard(remedy) == remedy \in {"card_change", AutoEmail}
NamesDues(remedy) == remedy \in {"topup_reminder", AutoEmail}
IsAgentContact(remedy) == remedy # AutoEmail

Draws == [engaged : BOOLEAN, completes : BOOLEAN, topup : {0} \cup AccelDelays]

CardEffect(ep, draw) == [ep EXCEPT !.card = @ \/ draw.completes]

\* Mutants: the minimum with the original instant is dropped; the top-up lands
\* at the very instant of the engagement.
DuesEffectNoMinimum(ep, day, draw) ==
  IF day > HaltDay THEN ep
  ELSE [ep EXCEPT !.topups = @ + 1,
                  !.funds  = IF draw.topup > 0
                             THEN day * TicksPerDay + draw.topup ELSE @]

DuesEffectInstant(ep, day, draw) ==
  IF day > HaltDay THEN ep
  ELSE [ep EXCEPT !.topups = @ + 1,
                  !.funds  = IF draw.topup > 0 /\ day * TicksPerDay < @
                             THEN day * TicksPerDay ELSE @]

\* The guard is on the day alone: `day > halt_boundary_day`.
DuesEffect(ep, day, draw) ==
  LET candidate == day * TicksPerDay + draw.topup
      sooner    == draw.topup > 0 /\ candidate < ep.funds
  IN IF day > HaltDay THEN ep
     ELSE [ep EXCEPT !.topups = @ + 1,
                     !.funds  = IF sooner THEN candidate ELSE @]

MessageEffect(ep, day, remedy, draw) ==
  LET afterCard == IF draw.engaged /\ NamesCard(remedy)
                   THEN CardEffect(ep, draw) ELSE ep
  IN IF draw.engaged /\ NamesDues(remedy)
     THEN DuesEffect(afterCard, day, draw) ELSE afterCard

\* Mutant: any chargeable card is rescued.
RescuedByAnyCard(ep) == ep.sub = "halted" /\ ep.card

RescuedBy(ep) == ep.sub = "halted" /\ ep.card /\ ~ep.cardAtOpening

SendMessage(ep, day, remedy, draw) ==
  LET after   == MessageEffect(ep, day, remedy, draw)
      changed == after.card # ep.card \/ after.funds # ep.funds
      agent   == IsAgentContact(remedy)
  IN [after EXCEPT
        !.contacts = IF agent THEN @ + 1 ELSE @,
        !.wasted   = IF agent /\ ~changed THEN @ + 1 ELSE @,
        !.history  = Append(@, [day |-> day, remedy |-> remedy,
                                engaged |-> draw.engaged]),
        !.sub      = IF RescuedBy(after) THEN "active" ELSE @]

\* An agent contact as both day loops send it: the message, then the flag
\* that counts card prompts sent for a balance problem.
SendContact(condition, ep, day, remedy, draw) ==
  [SendMessage(ep, day, remedy, draw) EXCEPT
     !.wrongCard = @ \/ (remedy = "card_change"
                         /\ condition = "insufficient_funds")]

(***************************************************************************)
(* Automatic retries and the halt, identical in the three day loops.       *)
(***************************************************************************)
\* Mutant: a block that clears exactly at the retry still blocks it.
RetrySucceedsStrictly(ep, day) ==
  ep.card /\ day * TicksPerDay >= ep.funds /\ ep.mandate
  /\ day * TicksPerDay > ep.blocked

RetrySucceeds(ep, day) ==
  /\ ep.card
  /\ day * TicksPerDay >= ep.funds
  /\ ep.mandate
  /\ day * TicksPerDay >= ep.blocked

AfterRetry(ep, day, halted) ==
  IF day \in RetryDays /\ ~ep.invoice /\ ~halted /\ RetrySucceeds(ep, day)
  THEN [ep EXCEPT !.invoice = TRUE, !.sub = "active"]
  ELSE ep

\* Mutant: the halt forgets that the invoice was recovered.
HaltsRecovered(ep, day, halted) == day = HaltDay /\ ~halted

HaltsNow(ep, day, halted) == day = HaltDay /\ ~ep.invoice /\ ~halted

AfterHalt(ep, day, draw) ==
  SendMessage([ep EXCEPT !.sub = "halted"], day, AutoEmail, draw)

AnyEngaged(history) == \E k \in DOMAIN history : history[k].engaged

=============================================================================
