----------------------------- MODULE WorldProofs ------------------------------
(***************************************************************************)
(* The primitives every episode loop is built from: what a message, a      *)
(* retry and the halt may change in an episode's state, and A3-D's rule    *)
(* table against the gate and the reason-code vocabulary, for every view   *)
(* and not only those an episode reaches.                                  *)
(***************************************************************************)
EXTENDS AgentPolicy, SequenceTheorems, WellFoundedInduction, TLAPS

DrawsType == [engaged : BOOLEAN, completes : BOOLEAN, topup : Nat]

LEMMA DrawsAreTyped == Draws \subseteq DrawsType
<1>1. {0} \cup AccelDelays \subseteq Nat
  BY WorldAssumption
<1> QED BY <1>1 DEF Draws, DrawsType

\* The fields a message's effect leaves alone.
SameBooks(f, e) ==
  /\ f.cardAtOpening = e.cardAtOpening
  /\ f.blocked = e.blocked
  /\ f.mandate = e.mandate
  /\ f.sub = e.sub
  /\ f.invoice = e.invoice
  /\ f.contacts = e.contacts
  /\ f.wasted = e.wasted
  /\ f.wrongCard = e.wrongCard
  /\ f.history = e.history

\* A message's effect, before any bookkeeping: it can repair the card and
\* bring the funds forward, and touches nothing else but the draw counter.
LEMMA EffectOnlyHelps ==
  ASSUME NEW e \in EpisodeState, NEW d \in Nat, NEW remedy, NEW draw \in Draws
  PROVE  LET f == MessageEffect(e, d, remedy, draw)
         IN /\ f \in EpisodeState
            /\ f.funds <= e.funds
            /\ e.card => f.card
            /\ SameBooks(f, e)
<1> DEFINE g == IF draw.engaged /\ NamesCard(remedy)
                THEN CardEffect(e, draw) ELSE e
           h == DuesEffect(g, d, draw)
           f == MessageEffect(e, d, remedy, draw)
<1>1. draw \in DrawsType
  BY DrawsAreTyped
<1>2. /\ g \in EpisodeState
      /\ g.funds = e.funds
      /\ e.card => g.card
      /\ SameBooks(g, e)
  BY <1>1 DEF CardEffect, EpisodeState, DrawsType, SameBooks
<1>3. /\ d * TicksPerDay + draw.topup \in Nat
      /\ g.funds \in Nat
      /\ g.topups \in Nat
  <2>1. d * TicksPerDay \in Nat
    BY WorldAssumption
  <2>2. draw.topup \in Nat
    BY <1>1 DEF DrawsType
  <2>3. g.funds \in Nat /\ g.topups \in Nat
    <3> HIDE DEF g
    <3> QED BY <1>2 DEF EpisodeState
  <2> HIDE DEF g
  <2> QED BY <2>1, <2>2, <2>3
<1> HIDE DEF g
<1>4. /\ h \in EpisodeState
      /\ h.funds <= g.funds
      /\ h.card = g.card
      /\ SameBooks(h, g)
  <2> DEFINE candidate == d * TicksPerDay + draw.topup
             m == IF draw.topup > 0 /\ candidate < g.funds
                  THEN candidate ELSE g.funds
  <2>1. m \in Nat /\ m <= g.funds
    BY <1>3
  <2>2. h = IF d > HaltDay THEN g
            ELSE [g EXCEPT !.topups = @ + 1, !.funds = m]
    BY DEF DuesEffect
  <2> HIDE DEF m
  <2>3. CASE d > HaltDay
    <3>1. h = g
      BY <2>2, <2>3
    <3> QED BY <1>2, <1>3, <3>1 DEF SameBooks
  <2>4. CASE ~(d > HaltDay)
    <3>1. h = [g EXCEPT !.topups = @ + 1, !.funds = m]
      BY <2>2, <2>4
    <3> HIDE DEF h, f
    <3>2. h \in EpisodeState
      <4>1. g.topups + 1 \in Nat
        BY <1>3
      <4> QED BY <1>2, <2>1, <3>1, <4>1 DEF EpisodeState
    <3>3. SameBooks(h, g) /\ h.funds = m /\ h.card = g.card
      BY <1>2, <3>1 DEF EpisodeState, SameBooks
    <3> QED BY <2>1, <3>2, <3>3
  <2> QED BY <2>3, <2>4
<1>5. f = IF draw.engaged /\ NamesDues(remedy) THEN h ELSE g
  BY DEF MessageEffect, g
<1> HIDE DEF f, h
<1>6. f.funds <= e.funds
  BY <1>2, <1>4, <1>5 DEF EpisodeState
<1>7. SameBooks(f, e)
  BY <1>2, <1>4, <1>5 DEF SameBooks
<1> QED BY <1>2, <1>4, <1>5, <1>6, <1>7 DEF f


\* What a message leaves behind: at most one contact more, one history record
\* more, and a subscription state that can only go from halted to active.
LEMMA MessageChanges ==
  ASSUME NEW e \in EpisodeState, NEW d \in Nat, NEW remedy \in Remedies,
         NEW draw \in Draws
  PROVE  LET f == SendMessage(e, d, remedy, draw)
         IN /\ f \in EpisodeState
            /\ f.funds <= e.funds
            /\ e.card => f.card
            /\ f.cardAtOpening = e.cardAtOpening
            /\ f.invoice = e.invoice
            /\ f.blocked = e.blocked
            /\ f.mandate = e.mandate
            /\ f.wrongCard = e.wrongCard
            /\ f.contacts = e.contacts + (IF IsAgentContact(remedy)
                                          THEN 1 ELSE 0)
            /\ f.sub = IF e.sub = "halted" /\ f.card /\ ~f.cardAtOpening
                       THEN "active" ELSE e.sub
            /\ \E engaged \in BOOLEAN :
                 f.history = Append(e.history, [day |-> d, remedy |-> remedy,
                                                engaged |-> engaged])
<1> DEFINE g == MessageEffect(e, d, remedy, draw)
           f == SendMessage(e, d, remedy, draw)
           record == [day |-> d, remedy |-> remedy, engaged |-> draw.engaged]
           contacts == IF IsAgentContact(remedy) THEN g.contacts + 1
                       ELSE g.contacts
           wasted == IF IsAgentContact(remedy)
                        /\ ~(g.card # e.card \/ g.funds # e.funds)
                     THEN g.wasted + 1 ELSE g.wasted
           sub == IF g.sub = "halted" /\ g.card /\ ~g.cardAtOpening
                  THEN "active" ELSE g.sub
           history == Append(g.history, record)
<1>1. /\ g \in EpisodeState
      /\ g.funds <= e.funds
      /\ e.card => g.card
      /\ SameBooks(g, e)
  BY EffectOnlyHelps
<1>2. f = [g EXCEPT !.contacts = contacts, !.wasted = wasted,
                    !.history = history, !.sub = sub]
  BY DEF SendMessage, RescuedBy
<1>3. draw.engaged \in BOOLEAN
  BY DrawsAreTyped DEF DrawsType
<1>4. record \in ContactRecord
  BY <1>3 DEF ContactRecord
<1>5. /\ contacts \in Nat
      /\ wasted \in Nat
      /\ sub \in SubscriptionStates
      /\ g.history \in Seq(ContactRecord)
  BY <1>1 DEF EpisodeState, SubscriptionStates
<1>6. history \in Seq(ContactRecord)
  BY <1>4, <1>5, AppendProperties
<1>7. contacts = e.contacts + (IF IsAgentContact(remedy) THEN 1 ELSE 0)
  BY <1>1 DEF SameBooks, EpisodeState
<1> HIDE DEF g, contacts, wasted, sub, history
<1>8. f \in EpisodeState
  BY <1>1, <1>2, <1>5, <1>6 DEF EpisodeState
<1>9. /\ f.contacts = contacts
      /\ f.sub = sub
      /\ f.history = history
      /\ f.card = g.card
      /\ f.funds = g.funds
      /\ f.cardAtOpening = g.cardAtOpening
      /\ f.invoice = g.invoice
      /\ f.blocked = g.blocked
      /\ f.mandate = g.mandate
      /\ f.wrongCard = g.wrongCard
  BY <1>1, <1>2 DEF EpisodeState
<1>10. f.history = Append(e.history, record)
  BY <1>1, <1>9 DEF history, SameBooks
<1> QED BY <1>1, <1>3, <1>7, <1>8, <1>9, <1>10 DEF sub, SameBooks

\* An agent contact, with the flag both loops keep beside it.
ContactOutcome(c, e, d, remedy, f) ==
  /\ f \in EpisodeState
  /\ f.funds <= e.funds
  /\ e.card => f.card
  /\ f.cardAtOpening = e.cardAtOpening
  /\ f.invoice = e.invoice
  /\ f.blocked = e.blocked
  /\ f.mandate = e.mandate
  /\ f.contacts = e.contacts + 1
  /\ f.sub = IF e.sub = "halted" /\ f.card /\ ~f.cardAtOpening
             THEN "active" ELSE e.sub
  /\ f.wrongCard = (e.wrongCard \/ (remedy = "card_change"
                                    /\ c = "insufficient_funds"))
  /\ \E engaged \in BOOLEAN :
       f.history = Append(e.history, [day |-> d, remedy |-> remedy,
                                      engaged |-> engaged])

LEMMA ContactEffect ==
  ASSUME NEW c, NEW e \in EpisodeState, NEW d \in Nat,
         NEW remedy \in AgentRemedies, NEW draw \in Draws
  PROVE  ContactOutcome(c, e, d, remedy,
                        SendContact(c, e, d, remedy, draw))
<1> DEFINE g == SendMessage(e, d, remedy, draw)
           f == SendContact(c, e, d, remedy, draw)
           wrong == g.wrongCard \/ (remedy = "card_change"
                                    /\ c = "insufficient_funds")
<1>1. remedy \in Remedies /\ IsAgentContact(remedy)
  BY DEF Remedies, AgentRemedies, IsAgentContact, AutoEmail
<1>2. /\ g \in EpisodeState
      /\ g.funds <= e.funds
      /\ e.card => g.card
      /\ g.cardAtOpening = e.cardAtOpening
      /\ g.invoice = e.invoice
      /\ g.blocked = e.blocked
      /\ g.mandate = e.mandate
      /\ g.contacts = e.contacts + 1
      /\ g.sub = IF e.sub = "halted" /\ g.card /\ ~g.cardAtOpening
                 THEN "active" ELSE e.sub
      /\ g.wrongCard = e.wrongCard
      /\ \E engaged \in BOOLEAN :
           g.history = Append(e.history, [day |-> d, remedy |-> remedy,
                                          engaged |-> engaged])
  BY <1>1, MessageChanges
<1>3. f = [g EXCEPT !.wrongCard = wrong]
  BY DEF SendContact
<1>4. wrong \in BOOLEAN
  BY <1>2 DEF EpisodeState
<1> HIDE DEF f, g, wrong
<1>5. /\ f \in EpisodeState
      /\ f.funds = g.funds
      /\ f.card = g.card
      /\ f.cardAtOpening = g.cardAtOpening
      /\ f.invoice = g.invoice
      /\ f.blocked = g.blocked
      /\ f.mandate = g.mandate
      /\ f.contacts = g.contacts
      /\ f.sub = g.sub
      /\ f.history = g.history
      /\ f.wrongCard = wrong
  BY <1>2, <1>3, <1>4 DEF EpisodeState
<1> QED BY <1>2, <1>5 DEF f, wrong, ContactOutcome

-----------------------------------------------------------------------------
LatentType == [card : BOOLEAN, funds : Nat, blocked : Nat, mandate : BOOLEAN]

LEMMA LatentIsTyped ==
  ASSUME NEW card \in BOOLEAN, NEW funds \in Nat, NEW blocked \in Nat,
         NEW mandate \in BOOLEAN
  PROVE  Latent(card, funds, blocked, mandate) \in LatentType
BY DEF Latent, LatentType

LEMMA LatentStatesAreTyped ==
  ASSUME NEW c \in OpeningConditions, NEW latent \in LatentStates(c)
  PROVE  latent \in LatentType
<1>1. /\ \A f \in FundsTimes : f \in Nat
      /\ \A b \in ClearanceTimes : b \in Nat
      /\ Never \in Nat
  BY WorldAssumption
<1>2. \/ \E f \in FundsTimes : latent = Latent(TRUE, f, 0, TRUE)
      \/ latent = Latent(FALSE, 0, 0, TRUE)
      \/ \E b \in ClearanceTimes \cup {Never} : latent = Latent(TRUE, 0, b, TRUE)
      \/ latent = Latent(TRUE, 0, 0, FALSE)
  BY DEF LatentStates, OpeningConditions, DeclineCodes, CardBrokenKeys, Cancelled
<1> QED BY <1>1, <1>2, LatentIsTyped

-----------------------------------------------------------------------------
Contactable == CardBrokenKeys \cup {"insufficient_funds", "ambiguous_decline"}

\* What the table proposes, given whether restraint withholds the contact.
Choice(view, w) == FirstMatch(A3DTable(view, w))

RuleNumbers(view, w) ==
  {r.proposal.rule : r \in {q \in A3DTable(view, w) : q.when}}

\* A non-empty set of natural numbers has a least element.
LEMMA LeastNumber ==
  ASSUME NEW S \in SUBSET Nat, S # {}
  PROVE  \E m \in S : \A n \in S : m <= n
<1> DEFINE less == {ss \in Nat \X Nat : ss[1] < ss[2]}
<1>1. IsWellFoundedOn(less, Nat)
  BY NatLessThanWellFounded DEF OpToRel
<1>2. PICK m \in S : \A n \in S : ~(<<n, m>> \in less)
  BY <1>1, WFMin
<1>3. ASSUME NEW n \in S PROVE m <= n
  <2>1. m \in Nat /\ n \in Nat
    OBVIOUS
  <2>2. n < m => <<n, m>> \in less
    BY <2>1
  <2> QED BY <1>2, <2>1, <2>2
<1> QED BY <1>3

\* The table is total (R-16 always applies) and ordered: it proposes the
\* proposal of a rule that applies, the least numbered one.
LEMMA TableChooses ==
  ASSUME NEW view, NEW w
  PROVE  \E r \in A3DTable(view, w) :
           /\ r.when
           /\ Choice(view, w) = r.proposal
           /\ \A s \in A3DTable(view, w) :
                s.when => r.proposal.rule <= s.proposal.rule
<1> DEFINE matches == {r \in A3DTable(view, w) : r.when}
<1>1. RuleNumbers(view, w) \in SUBSET Nat
  BY DEF RuleNumbers, A3DRules, A3DTable, Rule, Proposal
<1>2. RuleNumbers(view, w) # {}
  <2>1. Rule(16, TRUE, "WAIT", NoRemedy, Restraint) \in A3DTable(view, w)
    BY DEF A3DTable
  <2>2. Rule(16, TRUE, "WAIT", NoRemedy, Restraint).when
    BY DEF Rule
  <2> QED BY <2>1, <2>2 DEF RuleNumbers
<1>3. PICK m \in RuleNumbers(view, w) : \A n \in RuleNumbers(view, w) : m <= n
  BY <1>1, <1>2, LeastNumber
<1>4. \E r \in matches : \A s \in matches : r.proposal.rule <= s.proposal.rule
  BY <1>3 DEF RuleNumbers
<1> QED BY <1>4 DEF Choice, FirstMatch

\* Only a balance problem, a broken card or the ambiguous bucket is ever
\* contacted, and the card is never named for a balance problem.
LEMMA ContactsMatch ==
  ASSUME NEW view, NEW w, NEW r \in A3DTable(view, w), r.when,
         r.proposal.action = "CONTACT"
  PROVE  \/ /\ r.proposal.remedy = "topup_reminder"
            /\ view.decline \in {"insufficient_funds", "ambiguous_decline"}
         \/ /\ r.proposal.remedy = "card_change"
            /\ view.decline \in CardBrokenKeys \cup {"ambiguous_decline"}
<1>1. r.proposal.rule \in {8, 9, 11, 12, 13, 14, 15}
  BY DEF A3DTable, Rule, Proposal
<1>2. CASE r.proposal.rule = 8
  <2>1. r = Rule(8, view.decline = "insufficient_funds" /\ view.day = 0,
             "CONTACT", "topup_reminder", "remedy_match_topup")
    BY <1>2 DEF A3DTable, Rule, Proposal
  <2> QED BY <2>1 DEF Rule, Proposal, CARD_BROKEN, CardBrokenKeys
<1>3. CASE r.proposal.rule = 9
  <2>1. r = Rule(9, view.decline = "insufficient_funds" /\ view.day = 2
               /\ ~w,
             "CONTACT", "topup_reminder", IF AnyEngaged(view.history)
               THEN "engagement_observed" ELSE "remedy_match_topup")
    BY <1>3 DEF A3DTable, Rule, Proposal
  <2> QED BY <2>1 DEF Rule, Proposal, CARD_BROKEN, CardBrokenKeys
<1>4. CASE r.proposal.rule = 11
  <2>1. r = Rule(11, (view.decline \in CARD_BROKEN
                  \/ view.decline = "ambiguous_decline")
               /\ PostHaltRescueDue(view),
             "CONTACT", "card_change", "post_halt_rescue")
    BY <1>4 DEF A3DTable, Rule, Proposal
  <2> QED BY <2>1 DEF Rule, Proposal, CARD_BROKEN, CardBrokenKeys
<1>5. CASE r.proposal.rule = 12
  <2>1. r = Rule(12, view.decline \in CARD_BROKEN /\ view.day = 0,
             "CONTACT", "card_change", "remedy_match_card")
    BY <1>5 DEF A3DTable, Rule, Proposal
  <2> QED BY <2>1 DEF Rule, Proposal, CARD_BROKEN, CardBrokenKeys
<1>6. CASE r.proposal.rule = 13
  <2>1. r = Rule(13, view.decline \in CARD_BROKEN /\ view.day = 3
               /\ ~w,
             "CONTACT", "card_change", IF AnyEngaged(view.history)
               THEN "engagement_observed" ELSE "remedy_match_card")
    BY <1>6 DEF A3DTable, Rule, Proposal
  <2> QED BY <2>1 DEF Rule, Proposal, CARD_BROKEN, CardBrokenKeys
<1>7. CASE r.proposal.rule = 14
  <2>1. r = Rule(14, view.decline = "ambiguous_decline" /\ view.day = 0,
             "CONTACT", "card_change", "remedy_match_card")
    BY <1>7 DEF A3DTable, Rule, Proposal
  <2> QED BY <2>1 DEF Rule, Proposal, CARD_BROKEN, CardBrokenKeys
<1>8. CASE r.proposal.rule = 15
  <2>1. r = Rule(15, view.decline = "ambiguous_decline" /\ view.day = 2
               /\ ~w,
             "CONTACT", "topup_reminder", "remedy_match_topup")
    BY <1>8 DEF A3DTable, Rule, Proposal
  <2> QED BY <2>1 DEF Rule, Proposal, CARD_BROKEN, CardBrokenKeys
<1> QED BY <1>1, <1>2, <1>3, <1>4, <1>5, <1>6, <1>7, <1>8

\* Every rule that applies proposes something the gate accepts.
LEMMA RulesAreGateCompliant ==
  ASSUME NEW view, NEW w, NEW r \in A3DTable(view, w), r.when,
         view.decline \in DeclineCodes,
         view.state \notin {"cancelled", "expired"},
         view.budget \in Int, view.budget > 0
  PROVE  Accepts(r.proposal, view)
<1>1. r.proposal.action \in ActionTypes
  BY DEF A3DTable, Rule, Proposal, ActionTypes
<1>2. SendHour \in QuietHours
  BY DEF SendHour, QuietHours
<1>3. ~BudgetSpent(view)
  BY DEF BudgetSpent
<1>4. r.proposal.action = "CONTACT" =>
        /\ view.decline \in DeclineCodes \ {"payment_risk_check_failed"}
        /\ r.proposal.remedy = "card_change" =>
             view.decline \notin {"insufficient_funds",
                                  "transaction_limit_exceeded"}
  BY ContactsMatch DEF CardBrokenKeys
<1>5. ASSUME NEW rule PROVE ~Fires(rule, r.proposal, view)
  BY <1>1, <1>2, <1>3, <1>4 DEF Fires
<1> QED BY <1>5 DEF Accepts, Fired

LEMMA ChoiceIsGateCompliant ==
  ASSUME NEW view, NEW w, view.decline \in DeclineCodes,
         view.state \notin {"cancelled", "expired"},
         view.budget \in Int, view.budget > 0
  PROVE  Accepts(Choice(view, w), view)
BY TableChooses, RulesAreGateCompliant

LEMMA ChoiceIsTyped ==
  ASSUME NEW view, NEW w
  PROVE  /\ Choice(view, w) \in ProposalRecords
         /\ Choice(view, w).rule \in 1..16
         /\ Choice(view, w).action = "CONTACT" => Choice(view, w).remedy \in AgentRemedies
<1>1. PICK r \in A3DTable(view, w) : Choice(view, w) = r.proposal
  BY TableChooses
<1>2. /\ r.proposal.rule \in 1..16
      /\ r.proposal.action = "CONTACT" => r.proposal.remedy \in AgentRemedies
  BY DEF A3DTable, Rule, Proposal, AgentRemedies
<1>3. r.proposal \in ProposalRecords
  BY DEF A3DTable, Rule, Proposal, ProposalRecords, AgentRemedies, NoRemedy,
         Restraint, ActionTypes, ReasonCodes
<1> QED BY <1>1, <1>2, <1>3

\* The days on which restraint decides.
Decisive(view) ==
  \/ view.day = 2 /\ view.decline \in {"insufficient_funds", "ambiguous_decline"}
  \/ view.day = 3 /\ view.decline \in CardBrokenKeys

\* When the table contacts: on day 0, on day 2 or 3 unless restraint withholds
\* it, and on day 5 after the halt.
LEMMA ChoiceTimes ==
  ASSUME NEW view, NEW w, Choice(view, w).action = "CONTACT"
  PROVE  /\ view.decline \in Contactable
         /\ \/ view.day = 0
            \/ Decisive(view) /\ ~w
            \/ /\ view.day = 5 /\ view.state = "halted"
               /\ view.decline # "insufficient_funds"
<1>1. PICK r \in A3DTable(view, w) : r.when /\ Choice(view, w) = r.proposal
  BY TableChooses
<1>2. view.decline \in Contactable
  BY <1>1, ContactsMatch DEF Contactable
<1>3. r.proposal.rule \in {8, 9, 11, 12, 13, 14, 15}
  BY <1>1 DEF A3DTable, Rule, Proposal
<1>4. CASE r.proposal.rule = 8
  <2>1. r = Rule(8, view.decline = "insufficient_funds" /\ view.day = 0,
                 "CONTACT", "topup_reminder", "remedy_match_topup")
    BY <1>4 DEF A3DTable, Rule, Proposal
  <2> QED BY <1>1, <1>2, <2>1 DEF Rule, Decisive, CARD_BROKEN, CardBrokenKeys
<1>5. CASE r.proposal.rule = 9
  <2>1. r = Rule(9, view.decline = "insufficient_funds" /\ view.day = 2
                      /\ ~w,
                 "CONTACT", "topup_reminder", IF AnyEngaged(view.history)
                   THEN "engagement_observed" ELSE "remedy_match_topup")
    BY <1>5 DEF A3DTable, Rule, Proposal
  <2> QED BY <1>1, <1>2, <2>1 DEF Rule, Decisive, CARD_BROKEN, CardBrokenKeys
<1>6. CASE r.proposal.rule = 11
  <2>1. r = Rule(11, (view.decline \in CARD_BROKEN
                        \/ view.decline = "ambiguous_decline")
                      /\ PostHaltRescueDue(view),
                 "CONTACT", "card_change", "post_halt_rescue")
    BY <1>6 DEF A3DTable, Rule, Proposal
  <2> QED BY <1>1, <1>2, <2>1 DEF Rule, PostHaltRescueDue, CARD_BROKEN
<1>7. CASE r.proposal.rule = 12
  <2>1. r = Rule(12, view.decline \in CARD_BROKEN /\ view.day = 0,
                 "CONTACT", "card_change", "remedy_match_card")
    BY <1>7 DEF A3DTable, Rule, Proposal
  <2> QED BY <1>1, <1>2, <2>1 DEF Rule, Decisive, CARD_BROKEN, CardBrokenKeys
<1>8. CASE r.proposal.rule = 13
  <2>1. r = Rule(13, view.decline \in CARD_BROKEN /\ view.day = 3
                      /\ ~w,
                 "CONTACT", "card_change", IF AnyEngaged(view.history)
                   THEN "engagement_observed" ELSE "remedy_match_card")
    BY <1>8 DEF A3DTable, Rule, Proposal
  <2> QED BY <1>1, <1>2, <2>1 DEF Rule, Decisive, CARD_BROKEN, CardBrokenKeys
<1>9. CASE r.proposal.rule = 14
  <2>1. r = Rule(14, view.decline = "ambiguous_decline" /\ view.day = 0,
                 "CONTACT", "card_change", "remedy_match_card")
    BY <1>9 DEF A3DTable, Rule, Proposal
  <2> QED BY <1>1, <1>2, <2>1 DEF Rule, Decisive, CARD_BROKEN, CardBrokenKeys
<1>10. CASE r.proposal.rule = 15
  <2>1. r = Rule(15, view.decline = "ambiguous_decline" /\ view.day = 2
                      /\ ~w,
                 "CONTACT", "topup_reminder", "remedy_match_topup")
    BY <1>10 DEF A3DTable, Rule, Proposal
  <2> QED BY <1>1, <1>2, <2>1 DEF Rule, Decisive, CARD_BROKEN, CardBrokenKeys
<1> QED BY <1>3, <1>4, <1>5, <1>6, <1>7, <1>8, <1>9, <1>10

\* A balance reminder goes to a balance problem, and to the ambiguous bucket on
\* day 2 alone.
LEMMA ChoiceReminds ==
  ASSUME NEW view, NEW w, Choice(view, w).action = "CONTACT",
         Choice(view, w).remedy = "topup_reminder"
  PROVE  \/ view.decline = "insufficient_funds"
         \/ view.decline = "ambiguous_decline" /\ view.day = 2
<1>1. PICK r \in A3DTable(view, w) : r.when /\ Choice(view, w) = r.proposal
  BY TableChooses
<1>2. r.proposal.rule \in {8, 9, 15}
  BY <1>1 DEF A3DTable, Rule, Proposal
<1>3. CASE r.proposal.rule = 8
  <2>1. r = Rule(8, view.decline = "insufficient_funds" /\ view.day = 0,
                 "CONTACT", "topup_reminder", "remedy_match_topup")
    BY <1>3 DEF A3DTable, Rule, Proposal
  <2> QED BY <1>1, <2>1 DEF Rule
<1>4. CASE r.proposal.rule = 9
  <2>1. r = Rule(9, view.decline = "insufficient_funds" /\ view.day = 2
                      /\ ~w,
                 "CONTACT", "topup_reminder", IF AnyEngaged(view.history)
                   THEN "engagement_observed" ELSE "remedy_match_topup")
    BY <1>4 DEF A3DTable, Rule, Proposal
  <2> QED BY <1>1, <2>1 DEF Rule
<1>5. CASE r.proposal.rule = 15
  <2>1. r = Rule(15, view.decline = "ambiguous_decline" /\ view.day = 2
                      /\ ~w,
                 "CONTACT", "topup_reminder", "remedy_match_topup")
    BY <1>5 DEF A3DTable, Rule, Proposal
  <2> QED BY <1>1, <2>1 DEF Rule
<1> QED BY <1>2, <1>3, <1>4, <1>5

\* Where the card may be broken A3-D opens with a card prompt.
LEMMA ChoiceOpens ==
  ASSUME NEW view, NEW w, view.day = 0, view.state = "pending",
         view.decline \in CardBrokenKeys \cup {"ambiguous_decline"}
  PROVE  Choice(view, w).action = "CONTACT" /\ Choice(view, w).remedy = "card_change"
<1> DEFINE twelve   == Rule(12, view.decline \in CARD_BROKEN /\ view.day = 0,
                            "CONTACT", "card_change", "remedy_match_card")
           fourteen == Rule(14, view.decline = "ambiguous_decline"
                                  /\ view.day = 0,
                            "CONTACT", "card_change", "remedy_match_card")
<1>1. PICK r \in A3DTable(view, w) :
        /\ r.when
        /\ Choice(view, w) = r.proposal
        /\ \A s \in A3DTable(view, w) :
             s.when => r.proposal.rule <= s.proposal.rule
  BY TableChooses
<1>2. twelve \in A3DTable(view, w) /\ fourteen \in A3DTable(view, w)
  BY DEF A3DTable
<1>3. twelve.when \/ fourteen.when
  BY DEF Rule, CARD_BROKEN, CardBrokenKeys
<1>4. twelve.proposal.rule = 12 /\ fourteen.proposal.rule = 14
  BY DEF Rule, Proposal
<1>5. r.proposal.rule \in 1..14
  <2>1. r.proposal.rule \in 1..16
    BY <1>1, ChoiceIsTyped
  <2>2. r.proposal.rule <= 12 \/ r.proposal.rule <= 14
    BY <1>1, <1>2, <1>3, <1>4
  <2> QED BY <2>1, <2>2
<1> HIDE DEF twelve, fourteen
<1>6. r.proposal.rule \in {12, 13, 14}
  <2>1. r.proposal.rule = 1 => view.state = "active"
    <3>1. r.proposal.rule = 1 =>
            r = Rule(1, view.state = "active", "STOP", NoRemedy, Restraint)
      BY <1>1 DEF A3DTable, Rule, Proposal
    <3>2. Rule(1, view.state = "active", "STOP", NoRemedy, Restraint).when
            = (view.state = "active")
      BY DEF Rule
    <3> QED BY <1>1, <3>1, <3>2
  <2>2. r.proposal.rule = 2 => view.decline = "payment_risk_check_failed"
    BY <1>1 DEF A3DTable, Rule, Proposal
  <2>3. r.proposal.rule = 3 => view.decline = "transaction_limit_exceeded"
    BY <1>1 DEF A3DTable, Rule, Proposal
  <2>4. r.proposal.rule \in {4, 5} => view.decline = "bank_technical_error"
    BY <1>1 DEF A3DTable, Rule, Proposal
  <2>5. r.proposal.rule \in 6..10 => view.decline = "insufficient_funds"
    BY <1>1 DEF A3DTable, Rule, Proposal
  <2>6. r.proposal.rule = 11 => view.state = "halted"
    BY <1>1 DEF A3DTable, Rule, Proposal, PostHaltRescueDue
  <2> QED BY <1>5, <2>1, <2>2, <2>3, <2>4, <2>5, <2>6 DEF CardBrokenKeys
<1>7. r.proposal.action = "CONTACT" /\ r.proposal.remedy = "card_change"
  BY <1>6 DEF A3DTable, Rule, Proposal
<1> QED BY <1>1, <1>7

\* A rule's number tells what it does.
RuleAction(n) ==
  IF n \in {8, 9, 11, 12, 13, 14, 15} THEN "CONTACT"
  ELSE IF n \in {4, 10, 16} THEN "WAIT" ELSE "STOP"

RuleRemedy(n) ==
  IF n \in {8, 9, 15} THEN "topup_reminder"
  ELSE IF n \in {11, 12, 13, 14} THEN "card_change" ELSE NoRemedy

LEMMA RulesAct ==
  ASSUME NEW view, NEW w, NEW r \in A3DTable(view, w)
  PROVE  /\ r.proposal.action = RuleAction(r.proposal.rule)
         /\ r.proposal.remedy = RuleRemedy(r.proposal.rule)
BY DEF A3DTable, Rule, Proposal, RuleAction, RuleRemedy

\* Away from those days the table proposes the same whether restraint withholds
\* or not; only the reason of a wait may differ.
SameAct(p, q) == p.action = q.action /\ p.remedy = q.remedy

LEMMA RuleSurvives ==
  ASSUME NEW view, NEW w, NEW v, ~Decisive(view),
         NEW r \in A3DTable(view, w), r.when
  PROVE  \E s \in A3DTable(view, v) :
           s.when /\ s.proposal.rule = r.proposal.rule
<1>1. CASE r.proposal.rule \in {9, 13, 15}
  <2>9. r.proposal.rule = 9 => Decisive(view)
    <3> DEFINE s == Rule(9, view.decline = "insufficient_funds" /\ view.day = 2 /\ ~w,
                         "CONTACT", "topup_reminder", IF AnyEngaged(view.history)
                         THEN "engagement_observed" ELSE "remedy_match_topup")
    <3>1. r.proposal.rule = 9 => r = s
      BY DEF A3DTable, Rule, Proposal
    <3>2. s.when => Decisive(view)
      BY DEF Rule, Decisive, CARD_BROKEN, CardBrokenKeys
    <3> HIDE DEF s
    <3> QED BY <3>1, <3>2
  <2>13. r.proposal.rule = 13 => Decisive(view)
    <3> DEFINE s == Rule(13, view.decline \in CARD_BROKEN /\ view.day = 3 /\ ~w,
                         "CONTACT", "card_change", IF AnyEngaged(view.history)
                         THEN "engagement_observed" ELSE "remedy_match_card")
    <3>1. r.proposal.rule = 13 => r = s
      BY DEF A3DTable, Rule, Proposal
    <3>2. s.when => Decisive(view)
      BY DEF Rule, Decisive, CARD_BROKEN, CardBrokenKeys
    <3> HIDE DEF s
    <3> QED BY <3>1, <3>2
  <2>15. r.proposal.rule = 15 => Decisive(view)
    <3> DEFINE s == Rule(15, view.decline = "ambiguous_decline" /\ view.day = 2 /\ ~w,
                         "CONTACT", "topup_reminder", "remedy_match_topup")
    <3>1. r.proposal.rule = 15 => r = s
      BY DEF A3DTable, Rule, Proposal
    <3>2. s.when => Decisive(view)
      BY DEF Rule, Decisive, CARD_BROKEN, CardBrokenKeys
    <3> HIDE DEF s
    <3> QED BY <3>1, <3>2
  <2> QED BY <1>1, <2>9, <2>13, <2>15
<1>2. CASE r.proposal.rule = 10
  <2> DEFINE s == Rule(10, view.decline = "insufficient_funds", "WAIT", NoRemedy,
                       IF v THEN Restraint ELSE "retry_window_open")
  <2>1. s \in A3DTable(view, v)
    BY DEF A3DTable
  <2>2. r = Rule(10, view.decline = "insufficient_funds", "WAIT", NoRemedy,
                 IF w THEN Restraint ELSE "retry_window_open")
    BY <1>2 DEF A3DTable, Rule, Proposal
  <2>3. s.when /\ s.proposal.rule = r.proposal.rule
    BY <2>2 DEF Rule, Proposal
  <2> QED BY <2>1, <2>3
<1>3. CASE r.proposal.rule \notin {9, 10, 13, 15}
  <2>1. r \in A3DTable(view, v)
    BY <1>3 DEF A3DTable, Rule, Proposal
  <2> QED BY <2>1
<1> QED BY <1>1, <1>2, <1>3

LEMMA RestraintIsLocal ==
  ASSUME NEW view, NEW w, NEW v, ~Decisive(view)
  PROVE  SameAct(Choice(view, w), Choice(view, v))
<1>1. PICK r \in A3DTable(view, w) :
        /\ r.when
        /\ Choice(view, w) = r.proposal
        /\ \A s \in A3DTable(view, w) :
             s.when => r.proposal.rule <= s.proposal.rule
  BY TableChooses
<1>2. PICK q \in A3DTable(view, v) :
        /\ q.when
        /\ Choice(view, v) = q.proposal
        /\ \A s \in A3DTable(view, v) :
             s.when => q.proposal.rule <= s.proposal.rule
  BY TableChooses
<1>3. \E s \in A3DTable(view, v) : s.when /\ s.proposal.rule = r.proposal.rule
  BY <1>1, RuleSurvives
<1>4. \E x \in A3DTable(view, w) : x.when /\ x.proposal.rule = q.proposal.rule
  BY <1>2, RuleSurvives
<1>5. r.proposal.rule \in Int /\ q.proposal.rule \in Int
  BY <1>1, <1>2, ChoiceIsTyped
<1>6. r.proposal.rule = q.proposal.rule
  <2>1. r.proposal.rule <= q.proposal.rule
    BY <1>1, <1>4
  <2>2. q.proposal.rule <= r.proposal.rule
    BY <1>2, <1>3
  <2> QED BY <1>5, <2>1, <2>2
<1> QED BY <1>1, <1>2, <1>6, RulesAct DEF SameAct

\* Where the balance is short A3-D opens with a reminder.
LEMMA ChoiceOpensDues ==
  ASSUME NEW view, NEW w, view.day = 0, view.state = "pending",
         view.decline = "insufficient_funds"
  PROVE  Choice(view, w).action = "CONTACT"
<1> DEFINE eight == Rule(8, view.decline = "insufficient_funds" /\ view.day = 0,
                         "CONTACT", "topup_reminder", "remedy_match_topup")
<1>1. PICK r \in A3DTable(view, w) :
        /\ r.when
        /\ Choice(view, w) = r.proposal
        /\ \A s \in A3DTable(view, w) :
             s.when => r.proposal.rule <= s.proposal.rule
  BY TableChooses
<1>2. eight \in A3DTable(view, w)
  BY DEF A3DTable
<1>3. eight.when /\ eight.proposal.rule = 8
  BY DEF Rule, Proposal
<1> HIDE DEF eight
<1>4. r.proposal.rule \in 1..8
  <2>1. r.proposal.rule \in 1..16
    BY <1>1, ChoiceIsTyped
  <2>2. r.proposal.rule <= 8
    BY <1>1, <1>2, <1>3
  <2> QED BY <2>1, <2>2
<1>5. r.proposal.rule # 1
  <2>1. r.proposal.rule = 1 =>
          r = Rule(1, view.state = "active", "STOP", NoRemedy, Restraint)
    BY <1>1 DEF A3DTable, Rule, Proposal
  <2>2. Rule(1, view.state = "active", "STOP", NoRemedy, Restraint).when
          = (view.state = "active")
    BY DEF Rule
  <2> QED BY <1>1, <2>1, <2>2
<1>6. r.proposal.rule \notin {2, 3, 4, 5}
  BY <1>1 DEF A3DTable, Rule, Proposal
<1>7. r.proposal.rule # 6
  BY <1>1 DEF A3DTable, Rule, Proposal
<1>8. r.proposal.rule # 7
  BY <1>1 DEF A3DTable, Rule, Proposal
<1>9. r.proposal.rule = 8
  BY <1>4, <1>5, <1>6, <1>7, <1>8
<1> QED BY <1>1, <1>9 DEF A3DTable, Rule, Proposal

\* A broken card is never given up.
LEMMA ChoiceStops ==
  ASSUME NEW view, NEW w, Choice(view, w).action = "STOP",
         view.decline \in CardBrokenKeys \cup {"ambiguous_decline"}
  PROVE  view.state = "active"
<1>1. PICK r \in A3DTable(view, w) : r.when /\ Choice(view, w) = r.proposal
  BY TableChooses
<1>2. r.proposal.rule \in {1, 2, 3, 5, 6, 7}
  BY <1>1 DEF A3DTable, Rule, Proposal
<1>3. r.proposal.rule = 1 => view.state = "active"
  <2>1. r.proposal.rule = 1 =>
          r = Rule(1, view.state = "active", "STOP", NoRemedy, Restraint)
    BY <1>1 DEF A3DTable, Rule, Proposal
  <2>2. Rule(1, view.state = "active", "STOP", NoRemedy, Restraint).when
          = (view.state = "active")
    BY DEF Rule
  <2> QED BY <1>1, <2>1, <2>2
<1>4. r.proposal.rule = 2 => view.decline = "payment_risk_check_failed"
  <2> DEFINE s == Rule(2, view.decline = "payment_risk_check_failed",
                       "STOP", NoRemedy, "risk_flagged")
  <2>1. r.proposal.rule = 2 => r = s
    BY <1>1 DEF A3DTable, Rule, Proposal
  <2>2. s.when <=> view.decline = "payment_risk_check_failed"
    BY DEF Rule
  <2> HIDE DEF s
  <2> QED BY <1>1, <2>1, <2>2
<1>5. r.proposal.rule = 3 => view.decline = "transaction_limit_exceeded"
  <2> DEFINE s == Rule(3, view.decline = "transaction_limit_exceeded",
                       "STOP", NoRemedy, Restraint)
  <2>1. r.proposal.rule = 3 => r = s
    BY <1>1 DEF A3DTable, Rule, Proposal
  <2>2. s.when <=> view.decline = "transaction_limit_exceeded"
    BY DEF Rule
  <2> HIDE DEF s
  <2> QED BY <1>1, <2>1, <2>2
<1>6. r.proposal.rule = 5 => view.decline = "bank_technical_error"
  <2> DEFINE s == Rule(5, view.decline = "bank_technical_error",
                       "STOP", NoRemedy, Restraint)
  <2>1. r.proposal.rule = 5 => r = s
    BY <1>1 DEF A3DTable, Rule, Proposal
  <2>2. s.when <=> view.decline = "bank_technical_error"
    BY DEF Rule
  <2> HIDE DEF s
  <2> QED BY <1>1, <2>1, <2>2
<1>7. r.proposal.rule = 6 => view.decline = "insufficient_funds"
  <2> DEFINE s == Rule(6, view.decline = "insufficient_funds" /\ view.state = "halted",
                       "STOP", NoRemedy, Restraint)
  <2>1. r.proposal.rule = 6 => r = s
    BY <1>1 DEF A3DTable, Rule, Proposal
  <2>2. s.when <=> view.decline = "insufficient_funds" /\ view.state = "halted"
    BY DEF Rule
  <2> HIDE DEF s
  <2> QED BY <1>1, <2>1, <2>2
<1>8. r.proposal.rule = 7 => view.decline = "insufficient_funds"
  <2> DEFINE s == Rule(7, view.decline = "insufficient_funds" /\ view.day >= 3,
                       "STOP", NoRemedy, Restraint)
  <2>1. r.proposal.rule = 7 => r = s
    BY <1>1 DEF A3DTable, Rule, Proposal
  <2>2. s.when <=> view.decline = "insufficient_funds" /\ view.day >= 3
    BY DEF Rule
  <2> HIDE DEF s
  <2> QED BY <1>1, <2>1, <2>2
<1> QED BY <1>2, <1>3, <1>4, <1>5, <1>6, <1>7, <1>8 DEF CardBrokenKeys

\* The second prompt to a customer with a broken card.
LEMMA ChoicePersists ==
  ASSUME NEW view, NEW w, view.day = 3, view.state = "pending",
         view.decline \in CardBrokenKeys, ~w
  PROVE  Choice(view, w).action = "CONTACT" /\ Choice(view, w).remedy = "card_change"
<1> DEFINE reason == IF AnyEngaged(view.history) THEN "engagement_observed"
                     ELSE "remedy_match_card"
           when == view.decline \in CARD_BROKEN /\ view.day = 3 /\ ~w
           thirteen == Rule(13, when, "CONTACT", "card_change", reason)
<1>1. PICK r \in A3DTable(view, w) :
        /\ r.when
        /\ Choice(view, w) = r.proposal
        /\ \A s \in A3DTable(view, w) :
             s.when => r.proposal.rule <= s.proposal.rule
  BY TableChooses
<1>2. thirteen \in A3DTable(view, w)
  BY DEF A3DTable
<1>3. when
  BY DEF CARD_BROKEN, CardBrokenKeys
<1> HIDE DEF when
<1>4. thirteen.when /\ thirteen.proposal.rule = 13
  BY <1>3 DEF Rule, Proposal
<1> HIDE DEF thirteen
<1>5. r.proposal.rule \in 1..13
  <2>1. r.proposal.rule \in 1..16
    BY <1>1, ChoiceIsTyped
  <2>2. r.proposal.rule <= 13
    BY <1>1, <1>2, <1>4
  <2> QED BY <2>1, <2>2
<1>6. r.proposal.rule = 13
  <2>1. r.proposal.rule = 1 => view.state = "active"
    <3>1. r.proposal.rule = 1 =>
            r = Rule(1, view.state = "active", "STOP", NoRemedy, Restraint)
      BY <1>1 DEF A3DTable, Rule, Proposal
    <3>2. Rule(1, view.state = "active", "STOP", NoRemedy, Restraint).when
            = (view.state = "active")
      BY DEF Rule
    <3> QED BY <1>1, <3>1, <3>2
  <2>2. r.proposal.rule = 2 => view.decline = "payment_risk_check_failed"
    BY <1>1 DEF A3DTable, Rule, Proposal
  <2>3. r.proposal.rule = 3 => view.decline = "transaction_limit_exceeded"
    BY <1>1 DEF A3DTable, Rule, Proposal
  <2>4. r.proposal.rule \in {4, 5} => view.decline = "bank_technical_error"
    BY <1>1 DEF A3DTable, Rule, Proposal
  <2>5. r.proposal.rule \in 6..10 => view.decline = "insufficient_funds"
    BY <1>1 DEF A3DTable, Rule, Proposal
  <2>6. r.proposal.rule = 11 => view.state = "halted"
    BY <1>1 DEF A3DTable, Rule, Proposal, PostHaltRescueDue
  <2>7. r.proposal.rule = 12 => view.day = 0
    BY <1>1 DEF A3DTable, Rule, Proposal
  <2> QED BY <1>5, <2>1, <2>2, <2>3, <2>4, <2>5, <2>6, <2>7 DEF CardBrokenKeys
<1>7. r.proposal.action = "CONTACT" /\ r.proposal.remedy = "card_change"
  BY <1>6 DEF A3DTable, Rule, Proposal
<1> QED BY <1>1, <1>7

\* What a contact of the table is about.
LEMMA ChoiceFits ==
  ASSUME NEW view, NEW w, Choice(view, w).action = "CONTACT"
  PROVE  /\ view.decline = "insufficient_funds" =>
              Choice(view, w).remedy = "topup_reminder"
         /\ view.decline \in CardBrokenKeys => Choice(view, w).remedy = "card_change"
<1>1. PICK r \in A3DTable(view, w) : r.when /\ Choice(view, w) = r.proposal
  BY TableChooses
<1>2. \/ /\ r.proposal.remedy = "topup_reminder"
         /\ view.decline \in {"insufficient_funds", "ambiguous_decline"}
      \/ /\ r.proposal.remedy = "card_change"
         /\ view.decline \in CardBrokenKeys \cup {"ambiguous_decline"}
  BY <1>1, ContactsMatch
<1> QED BY <1>1, <1>2 DEF CardBrokenKeys

-----------------------------------------------------------------------------
(***************************************************************************)
(* The same of A3-D, whose table tests the withholding for two messages.   *)
(***************************************************************************)
LEMMA A3DIsChoice ==
  ASSUME NEW view
  PROVE  A3D(view) = Choice(view, WithholdApplies(view))
BY DEF A3D, A3DRules, Choice

LEMMA A3DChooses ==
  ASSUME NEW view
  PROVE  \E r \in A3DRules(view) :
           /\ r.when
           /\ A3D(view) = r.proposal
           /\ \A s \in A3DRules(view) :
                s.when => r.proposal.rule <= s.proposal.rule
BY TableChooses, A3DIsChoice DEF A3DRules

\* A3D's proposal is always accepted by the gate: on every view of a live
\* subscription with budget left, whatever its day, history or decline code.
\* The runner relies on it when it executes A3-D's proposal in place of a
\* rejected one (runner.py, "gate-rejection fallback hook").
THEOREM A3DIsGateCompliant ==
  ASSUME NEW view, view.decline \in DeclineCodes,
         view.state \notin {"cancelled", "expired"},
         view.budget \in Int, view.budget > 0
  PROVE  Accepts(A3D(view), view)
BY ChoiceIsGateCompliant, A3DIsChoice

LEMMA A3DIsTyped ==
  ASSUME NEW view
  PROVE  /\ A3D(view) \in ProposalRecords
         /\ A3D(view).rule \in 1..16
         /\ A3D(view).action = "CONTACT" => A3D(view).remedy \in AgentRemedies
BY ChoiceIsTyped, A3DIsChoice

LEMMA ContactTimes ==
  ASSUME NEW view, A3D(view).action = "CONTACT"
  PROVE  /\ view.decline \in Contactable
         /\ \/ view.day = 0
            \/ view.day \in {2, 3} /\ ~WithholdApplies(view)
            \/ /\ view.day = 5 /\ view.state = "halted"
               /\ view.decline # "insufficient_funds"
<1> DEFINE w == WithholdApplies(view)
<1>1. Choice(view, w).action = "CONTACT"
  BY A3DIsChoice
<1> HIDE DEF w
<1> QED BY <1>1, ChoiceTimes DEF w, Decisive

\* RuleFired names a rule, the first one that fires, exactly when some rule does.
LEMMA RuleFiredIsTyped ==
  ASSUME NEW p, NEW view
  PROVE  RuleFired(p, view) \in
           {NoRule} \cup {Precedence[k] : k \in DOMAIN Precedence}
<1>1. CASE Accepts(p, view)
  BY <1>1 DEF RuleFired
<1>2. CASE ~Accepts(p, view)
  <2>1. Fired(p, view) \subseteq Nat /\ Fired(p, view) # {}
    BY <1>2 DEF Accepts, Fired, Precedence
  <2>2. \E k \in Fired(p, view) : \A l \in Fired(p, view) : k <= l
    BY <2>1, LeastNumber
  <2>3. RuleFired(p, view) = Precedence[CHOOSE k \in Fired(p, view) :
                                  \A l \in Fired(p, view) : k <= l]
    BY <1>2 DEF RuleFired
  <2> QED BY <2>2, <2>3 DEF Fired
<1> QED BY <1>1, <1>2

=============================================================================
