------------------------- MODULE PlannerReplayProofs -------------------------
(***************************************************************************)
(* The planner and its cache, for any number of decision points, any kinds *)
(* of text and any number of runs: a replay repeats the run it reproduces  *)
(* as far as it gets, it stops only where that run got no text, and a run  *)
(* continued after a quota error repeats what was paid for.                *)
(***************************************************************************)
EXTENDS PlannerReplay, SequenceTheorems, TLAPS

\* The prompt of a run's k-th decision point.
Before(outcomes, k) == [i \in 1..(k - 1) |-> outcomes[i].proposal]

HasText(file, prompt) == file[prompt] \notin {Absent, NoText}

\* An outcome is the stored text's, or there is none and it fell back.
ExplainedAt(file, prompt, outcome) ==
  IF HasText(file, prompt)
  THEN outcome = Parsed(prompt, file[prompt])
  ELSE \/ outcome.fallback = "timeout"
       \/ outcome.fallback = "unparseable" /\ file[prompt] = NoText

Explained(file, outcomes) ==
  \A k \in DOMAIN outcomes : ExplainedAt(file, Before(outcomes, k), outcomes[k])

\* The cache keeps the texts of a run that was cut short; the calls that
\* brought none may have been made again since.
CutRemembered ==
  /\ Len(cut) <= DecisionPoints
  /\ \A k \in DOMAIN cut :
       LET prompt == Before(cut, k)
       IN \/ Textless(cut[k])
          \/ HasText(cache, prompt) /\ cut[k] = Parsed(prompt, cache[prompt])

\* What is written down is a whole run and the cache that explains it.
BookIsWhole ==
  /\ book = NothingRecorded \/ Len(book.log) = DecisionPoints
  /\ Explained(book.file, book.log)

ReplayReadsTheBook ==
  session.replay =>
    /\ cache = book.file /\ cut = <<>>
    /\ Len(book.log) = DecisionPoints

MissIsInReplay ==
  status = "CacheMissDuringReplayError" =>
    /\ session.replay
    /\ Len(log) < DecisionPoints
    /\ ~HasText(cache, Prompt)

Inv ==
  /\ TypeOK
  /\ Explained(cache, log)
  /\ CutRemembered
  /\ BookIsWhole
  /\ ReplayReadsTheBook
  /\ MissIsInReplay
  /\ ReplayNeverDiverges
  /\ ResumedRunsAgree

-----------------------------------------------------------------------------
(***************************************************************************)
(* Prompts and outcomes.                                                   *)
(***************************************************************************)
LEMMA Positions ==
  ASSUME NEW s \in Seq(Outcomes)
  PROVE  /\ Len(s) \in Nat /\ DOMAIN s = 1..Len(s)
         /\ \A k \in 1..Len(s) : s[k] \in Outcomes
         /\ \A o \in Outcomes :
              /\ Append(s, o) \in Seq(Outcomes)
              /\ Len(Append(s, o)) = Len(s) + 1
              /\ DOMAIN Append(s, o) = 1..(Len(s) + 1)
              /\ \A k \in 1..Len(s) : Append(s, o)[k] = s[k]
              /\ Append(s, o)[Len(s) + 1] = o
BY LenProperties, ElementOfSeq, AppendProperties

\* The prompt now is the one before the next decision.
LEMMA PromptIsBefore ==
  ASSUME log \in Seq(Outcomes)
  PROVE  Prompt = Before(log, Len(log) + 1)
<1>1. Len(log) \in Nat /\ DOMAIN log = 1..Len(log)
  BY Positions
<1>2. 1..(Len(log) + 1 - 1) = DOMAIN log
  BY <1>1
<1>3. QED
  BY <1>2 DEF Prompt, PromptOf, Before

LEMMA PromptsOfRun ==
  ASSUME NEW s \in Seq(Outcomes), NEW k \in 1..(Len(s) + 1), k <= DecisionPoints
  PROVE  Before(s, k) \in Prompts
<1>1. k - 1 \in 0..(DecisionPoints - 1) /\ k \in Nat /\ Len(s) \in Nat
  BY Positions, PlannerAssumption
<1>2. \A i \in 1..(k - 1) : s[i].proposal \in Proposals
  <2>1. \A i \in 1..(k - 1) : i \in 1..Len(s)
    BY <1>1
  <2>2. \A i \in 1..Len(s) : s[i] \in Outcomes
    BY Positions
  <2>3. QED
    BY <2>1, <2>2 DEF Outcomes
<1>3. Before(s, k) \in [1..(k - 1) -> Proposals]
  BY <1>2 DEF Before
<1>4. QED
  BY <1>1, <1>3 DEF Prompts

\* Prompts at different positions differ in their length.
LEMMA PromptsDiffer ==
  ASSUME NEW s, NEW t, NEW j \in Nat, NEW k \in Nat, j < k
  PROVE  Before(s, j + 1) # Before(t, k + 1)
<1>1. DOMAIN Before(s, j + 1) = 1..j /\ DOMAIN Before(t, k + 1) = 1..k
  BY DEF Before
<1>2. k \in 1..k /\ k \notin 1..j
  OBVIOUS
<1>3. QED
  BY <1>1, <1>2

\* A prefix of the run was asked the same.
LEMMA SamePrompts ==
  ASSUME NEW s \in Seq(Outcomes), NEW t \in Seq(Outcomes), PrefixOf(s, t),
         NEW k \in 1..(Len(s) + 1)
  PROVE  Before(t, k) = Before(s, k)
<1>1. \A i \in 1..(k - 1) : s[i] = t[i]
  BY Positions DEF PrefixOf
<1>2. QED
  BY <1>1 DEF Before

LEMMA PrefixGrows ==
  ASSUME NEW s \in Seq(Outcomes), NEW o \in Outcomes
  PROVE  /\ PrefixOf(s, Append(s, o))
         /\ \A t \in Seq(Outcomes) :
              /\ PrefixOf(t, s) => PrefixOf(t, Append(s, o))
              /\ PrefixOf(s, t) /\ Len(s) < Len(t) /\ t[Len(s) + 1] = o =>
                   PrefixOf(Append(s, o), t)
<1>1. PrefixOf(s, Append(s, o))
  BY Positions DEF PrefixOf
<1>2. ASSUME NEW t \in Seq(Outcomes), PrefixOf(t, s)
      PROVE  PrefixOf(t, Append(s, o))
  BY <1>2, Positions DEF PrefixOf
<1>3. ASSUME NEW t \in Seq(Outcomes), PrefixOf(s, t), Len(s) < Len(t),
             t[Len(s) + 1] = o
      PROVE  PrefixOf(Append(s, o), t)
  <2>1. Len(s) + 1 <= Len(t)
    BY <1>3, Positions
  <2>2. \A k \in 1..(Len(s) + 1) : k \in 1..Len(s) \/ k = Len(s) + 1
    BY Positions
  <2>3. \A k \in 1..(Len(s) + 1) : Append(s, o)[k] = t[k]
    BY <1>3, <2>2, Positions DEF PrefixOf
  <2>4. QED
    BY <2>1, <2>3, Positions DEF PrefixOf
<1>4. QED
  BY <1>1, <1>2, <1>3

\* Whatever the text, an outcome is a proposal with a reason.
LEMMA ParsedIsOutcome ==
  ASSUME NEW prompt, NEW raw \in Texts
  PROVE  /\ Parsed(prompt, raw) \in Outcomes
         /\ raw = NoText => Parsed(prompt, raw).fallback = "unparseable"
         /\ Outcome(A3DProposal(prompt), "timeout") \in Outcomes
         /\ Outcome(A3DProposal(prompt), "timeout").fallback = "timeout"
<1>1. A3DProposal(prompt) \in Proposals
  BY DEF A3DProposal, Proposals
<1>2. \A o \in Proposals, r \in Reasons : Outcome(o, r) \in Outcomes
  BY DEF Outcome, Outcomes
<1>3. \A o, r : Outcome(o, r).fallback = r
  BY DEF Outcome
<1>4. CASE raw \in Proposals
  <2>1. Parsed(prompt, raw) = Outcome(raw, "none") /\ raw # NoText
    BY <1>4 DEF Parsed, Proposals, NoText
  <2>2. QED
    BY <1>1, <1>2, <1>3, <1>4, <2>1 DEF Reasons
<1>5. CASE raw \in {"garbled", NoText}
  <2>1. Parsed(prompt, raw) = Outcome(A3DProposal(prompt), "unparseable")
    BY <1>5 DEF Parsed, Proposals, NoText
  <2>2. QED
    BY <1>1, <1>2, <1>3, <2>1 DEF Reasons
<1>6. CASE raw = "off_schema"
  <2>1. /\ Parsed(prompt, raw) = Outcome(A3DProposal(prompt), "schema_violation")
        /\ raw # NoText
    BY <1>6 DEF Parsed, Proposals, NoText
  <2>2. QED
    BY <1>1, <1>2, <1>3, <2>1 DEF Reasons
<1>7. QED
  BY <1>4, <1>5, <1>6 DEF Texts

\* One outcome more is explained, if only its own entry of the cache changed.
LEMMA ExplainedGrows ==
  ASSUME NEW s \in Seq(Outcomes), NEW o \in Outcomes, Len(s) < DecisionPoints,
         NEW file, NEW after, Explained(file, s),
         \A p \in Prompts : p = Before(s, Len(s) + 1) \/ after[p] = file[p],
         ExplainedAt(after, Before(s, Len(s) + 1), o)
  PROVE  Explained(after, Append(s, o))
<1> DEFINE t == Append(s, o)
<1>1. /\ t \in Seq(Outcomes) /\ PrefixOf(s, t)
      /\ Len(s) \in Nat /\ DOMAIN s = 1..Len(s)
      /\ DOMAIN t = 1..(Len(s) + 1)
      /\ \A k \in 1..Len(s) : t[k] = s[k]
      /\ t[Len(s) + 1] = o
  BY Positions, PrefixGrows
<1>2. SUFFICES ASSUME NEW k \in 1..(Len(s) + 1)
               PROVE  ExplainedAt(after, Before(t, k), t[k])
  BY <1>1 DEF Explained
<1> HIDE DEF t
<1>3. Before(t, k) = Before(s, k)
  BY <1>1, SamePrompts
<1>4. CASE k = Len(s) + 1
  BY <1>1, <1>3, <1>4
<1>5. CASE k \in 1..Len(s)
  <2>1. k \in Nat /\ k - 1 \in Nat /\ k - 1 < Len(s) /\ k <= DecisionPoints
        /\ k - 1 + 1 = k
    BY <1>1, <1>5, PlannerAssumption
  <2>2. Before(s, k) # Before(s, Len(s) + 1)
    BY <1>1, <2>1, PromptsDiffer
  <2>3. Before(s, k) \in Prompts
    BY <2>1, PromptsOfRun
  <2>4. after[Before(s, k)] = file[Before(s, k)]
    BY <2>2, <2>3
  <2>5. ExplainedAt(file, Before(s, k), s[k])
    BY <1>1, <1>5 DEF Explained
  <2>6. QED
    BY <1>1, <1>3, <1>5, <2>4, <2>5 DEF ExplainedAt, HasText
<1>6. QED
  BY <1>1, <1>4, <1>5

-----------------------------------------------------------------------------
(***************************************************************************)
(* Steps.                                                                  *)
(***************************************************************************)
\* What a run is at when it is asked.
LEMMA AskedNow ==
  ASSUME Inv, Asked
  PROVE  /\ log \in Seq(Outcomes) /\ Len(log) \in Nat /\ Len(log) < DecisionPoints
         /\ Prompt = Before(log, Len(log) + 1)
         /\ Prompt \in Prompts
         /\ cache \in [Prompts -> Texts \cup {Absent}]
         /\ HasText(cache, Prompt) <=> Lookup(Prompt) # NoText
<1>1. log \in Seq(Outcomes) /\ cache \in [Prompts -> Texts \cup {Absent}]
  BY DEF Inv, TypeOK
<1>2. Len(log) \in Nat /\ Len(log) < DecisionPoints
  BY <1>1, Positions DEF Asked
<1>3. Prompt = Before(log, Len(log) + 1)
  BY <1>1, PromptIsBefore
<1>4. Prompt \in Prompts
  BY <1>1, <1>2, <1>3, PromptsOfRun, PlannerAssumption
<1>5. HasText(cache, Prompt) <=> Lookup(Prompt) # NoText
  BY DEF HasText, Lookup, Absent, NoText
<1>6. QED
  BY <1>1, <1>2, <1>3, <1>4, <1>5

\* A decision that agrees with what the cache then holds, and changes nothing
\* in it but a prompt without a text.
Decided(o) ==
  /\ Asked
  /\ log' = Append(log, o)
  /\ cache' \in [Prompts -> Texts \cup {Absent}]
  /\ \A p \in Prompts : p = Prompt \/ cache'[p] = cache[p]
  /\ HasText(cache, Prompt) => cache' = cache
  /\ session.replay => HasText(cache, Prompt)
  /\ ExplainedAt(cache', Prompt, o)
  /\ UNCHANGED <<session, status, book, cut, sessions>>

LEMMA CutRememberedGrows ==
  ASSUME Inv, NEW o \in Outcomes, Decided(o)
  PROVE  CutRemembered'
<1>1. /\ cut \in Seq(Outcomes) /\ cut' = cut
      /\ DOMAIN cut = 1..Len(cut) /\ Len(cut) \in Nat
      /\ Len(cut) <= DecisionPoints
      /\ Prompt = Before(log, Len(log) + 1)
  BY Positions, AskedNow DEF Inv, TypeOK, Decided, CutRemembered
<1>2. ASSUME NEW k \in DOMAIN cut
      PROVE  \/ Textless(cut[k])
             \/ /\ HasText(cache', Before(cut, k))
                /\ cut[k] = Parsed(Before(cut, k), cache'[Before(cut, k)])
  <2>1. Before(cut, k) \in Prompts
    BY <1>1, PromptsOfRun, PlannerAssumption
  <2>2. \/ Textless(cut[k])
        \/ /\ HasText(cache, Before(cut, k))
           /\ cut[k] = Parsed(Before(cut, k), cache[Before(cut, k)])
    BY DEF Inv, CutRemembered
  <2>3. HasText(cache, Before(cut, k)) => cache'[Before(cut, k)] = cache[Before(cut, k)]
    BY <2>1 DEF Decided
  <2>4. QED
    BY <2>2, <2>3 DEF HasText
<1>3. QED
  BY <1>1, <1>2 DEF CutRemembered

\* The decision is the one the interrupted run took here, if that had a text.
LEMMA ResumedAgreeGrows ==
  ASSUME Inv, NEW o \in Outcomes, Decided(o)
  PROVE  ResumedRunsAgree'
<1>1. /\ cut \in Seq(Outcomes) /\ cut' = cut /\ session' = session
      /\ Len(cut) \in Nat /\ DOMAIN cut = 1..Len(cut)
      /\ log \in Seq(Outcomes) /\ Len(log) \in Nat
      /\ log' = Append(log, o)
      /\ Prompt = Before(log, Len(log) + 1)
  BY Positions, AskedNow DEF Inv, TypeOK, Decided
<1>2. SUFFICES ASSUME ~session.replay, \A k \in DOMAIN cut : ~Textless(cut[k])
               PROVE  PrefixOf(log', cut) \/ PrefixOf(cut, log')
  BY <1>1 DEF ResumedRunsAgree
<1>3. PrefixOf(log, cut) \/ PrefixOf(cut, log)
  BY <1>2 DEF Inv, ResumedRunsAgree
<1>4. CASE PrefixOf(cut, log)
  BY <1>1, <1>4, PrefixGrows
<1>5. CASE PrefixOf(log, cut) /\ Len(log) >= Len(cut)
  <2>1. PrefixOf(cut, log)
    BY <1>1, <1>5, Positions DEF PrefixOf
  <2>2. QED
    BY <1>1, <2>1, PrefixGrows
<1>6. CASE PrefixOf(log, cut) /\ Len(log) < Len(cut)
  <2>1. Len(log) + 1 \in DOMAIN cut
    BY <1>1, <1>6
  <2>2. Before(cut, Len(log) + 1) = Prompt
    <3>1. Len(log) + 1 \in 1..(Len(log) + 1)
      BY <1>1
    <3>2. QED
      BY <1>1, <1>6, <3>1, SamePrompts
  <2>3. HasText(cache, Prompt) /\ cut[Len(log) + 1] = Parsed(Prompt, cache[Prompt])
    BY <1>2, <2>1, <2>2 DEF Inv, CutRemembered
  <2>4. o = cut[Len(log) + 1]
    BY <2>3 DEF Decided, ExplainedAt
  <2>5. QED
    BY <1>1, <1>6, <2>4, PrefixGrows
<1>7. QED
  BY <1>1, <1>3, <1>4, <1>5, <1>6

\* A replay answers what the recorded run was answered.
LEMMA ReplayGrows ==
  ASSUME Inv, NEW o \in Outcomes, Decided(o)
  PROVE  ReplayNeverDiverges'
<1>1. SUFFICES ASSUME session.replay
               PROVE  PrefixOf(log', book.log)
  BY DEF ReplayNeverDiverges, Decided
<1>2. /\ log \in Seq(Outcomes) /\ book.log \in Seq(Outcomes)
      /\ log' = Append(log, o)
      /\ Prompt = Before(log, Len(log) + 1)
      /\ Len(log) \in Nat /\ Len(log) < Len(book.log)
      /\ DOMAIN book.log = 1..Len(book.log) /\ Len(book.log) \in Nat
      /\ cache = book.file /\ cache' = cache /\ HasText(cache, Prompt)
      /\ PrefixOf(log, book.log)
  BY <1>1, AskedNow, Positions DEF Inv, TypeOK, Decided, ReplayReadsTheBook,
     ReplayNeverDiverges
<1>3. Len(log) + 1 \in DOMAIN book.log /\ Len(log) + 1 \in 1..(Len(log) + 1)
  BY <1>2
<1>4. Before(book.log, Len(log) + 1) = Prompt
  BY <1>2, <1>3, SamePrompts
<1>5. ExplainedAt(cache, Prompt, book.log[Len(log) + 1])
  BY <1>2, <1>3, <1>4 DEF Inv, BookIsWhole, Explained
<1>6. o = book.log[Len(log) + 1]
  BY <1>2, <1>5 DEF Decided, ExplainedAt
<1>7. QED
  BY <1>2, <1>6, PrefixGrows

LEMMA DecisionKeepsInv ==
  ASSUME Inv, NEW o \in Outcomes, Decided(o)
  PROVE  Inv'
<1>1. /\ log \in Seq(Outcomes) /\ Len(log) \in Nat /\ Len(log) < DecisionPoints
      /\ Prompt = Before(log, Len(log) + 1)
      /\ status = "running" /\ log' = Append(log, o) /\ DecisionPoints \in Nat
  BY AskedNow, PlannerAssumption DEF Decided, Asked
<1>2. TypeOK'
  <2>1. log' \in Seq(Outcomes) /\ Len(log') <= DecisionPoints
    BY <1>1, Positions
  <2>2. QED
    BY <2>1 DEF Inv, TypeOK, Decided
<1>3. Explained(cache, log)'
  BY <1>1, ExplainedGrows DEF Inv, Decided
<1>4. BookIsWhole' /\ MissIsInReplay'
  BY <1>1 DEF Inv, BookIsWhole, MissIsInReplay, Decided
<1>5. ReplayReadsTheBook'
  BY DEF Inv, ReplayReadsTheBook, Decided
<1>6. QED
  BY <1>2, <1>3, <1>4, <1>5, CutRememberedGrows, ReplayGrows, ResumedAgreeGrows
     DEF Inv

\* Nothing is decided yet: an empty log agrees with everything.
LEMMA EmptyRun ==
  /\ <<>> \in Seq(Outcomes) /\ Len(<<>>) = 0
  /\ \A file : Explained(file, <<>>)
  /\ \A s \in Seq(Outcomes) : PrefixOf(<<>>, s)
BY EmptySeq, Positions DEF Explained, PrefixOf

LEMMA NothingRecordedYet ==
  /\ [p \in Prompts |-> Absent] \in [Prompts -> Texts \cup {Absent}]
  /\ NothingRecorded.log = <<>>
  /\ NothingRecorded.file = [p \in Prompts |-> Absent]
BY DEF NothingRecorded

\* A new run, over the cache as it is, an empty one, or the book's.
LEMMA RunStarts ==
  ASSUME Inv, NEW config \in [allowLive : BOOLEAN, replay : BOOLEAN],
         StartWith(config),
         cache' \in [Prompts -> Texts \cup {Absent}],
         \/ cache' = cache /\ cut' = cut
         \/ cut' = <<>>,
         config.replay => /\ cache' = book.file /\ cut' = <<>>
                          /\ Len(book.log) = DecisionPoints
  PROVE  Inv'
<1>1. /\ log' = <<>> /\ session' = config /\ book' = book
      /\ status' = "running" /\ sessions' = sessions + 1
      /\ sessions < MaxSessions
  BY DEF StartWith
<1>2. TypeOK'
  <2>1. log' \in Seq(Outcomes) /\ Len(log') <= DecisionPoints
    BY <1>1, EmptyRun, PlannerAssumption
  <2>2. cut' \in Seq(Outcomes)
    BY EmptyRun DEF Inv, TypeOK
  <2>3. sessions' \in 1..MaxSessions
    <3>1. sessions \in 1..MaxSessions
      BY DEF Inv, TypeOK
    <3>2. QED
      BY <1>1, <3>1, PlannerAssumption
  <2>4. QED
    BY <1>1, <2>1, <2>2, <2>3 DEF Inv, TypeOK
<1>3. Explained(cache, log)'
  BY <1>1, EmptyRun
<1>4. CutRemembered'
  <2>1. CASE cache' = cache /\ cut' = cut
    BY <2>1 DEF Inv, CutRemembered
  <2>2. CASE cut' = <<>>
    BY <2>2, EmptyRun, PlannerAssumption DEF CutRemembered
  <2>3. QED
    BY <2>1, <2>2
<1>5. BookIsWhole' /\ MissIsInReplay'
  BY <1>1 DEF Inv, BookIsWhole, MissIsInReplay
<1>6. ReplayReadsTheBook'
  BY <1>1 DEF ReplayReadsTheBook
<1>7. ReplayNeverDiverges' /\ ResumedRunsAgree'
  <2>1. book'.log \in Seq(Outcomes) /\ cut' \in Seq(Outcomes)
    BY <1>2 DEF TypeOK
  <2>2. QED
    BY <1>1, <2>1, EmptyRun DEF ReplayNeverDiverges, ResumedRunsAgree
<1>8. QED
  BY <1>2, <1>3, <1>4, <1>5, <1>6, <1>7 DEF Inv

\* Every step keeps the invariant.
LEMMA InvKept == Inv /\ [Next]_vars => Inv'
<1> SUFFICES ASSUME Inv, [Next]_vars
             PROVE  Inv'
  OBVIOUS
<1>1. CASE Hit
  <2>1. Asked /\ HasText(cache, Prompt)
    BY <1>1, AskedNow DEF Hit
  <2> DEFINE o == Parsed(Prompt, cache[Prompt])
  <2>2. o \in Outcomes
    <3>1. cache[Prompt] \in Texts
      BY <2>1, AskedNow DEF HasText
    <3>2. QED
      BY <3>1, ParsedIsOutcome
  <2>3. Lookup(Prompt) = cache[Prompt]
    BY <2>1 DEF Lookup, HasText
  <2>4. log' = Append(log, o) /\ cache' = cache
    BY <1>1, <2>3 DEF Hit, Answer
  <2>5. ExplainedAt(cache', Prompt, o)
    BY <2>1, <2>4 DEF ExplainedAt
  <2> HIDE DEF o
  <2>6. Decided(o)
    BY <1>1, <2>1, <2>4, <2>5, AskedNow DEF Hit, Decided
  <2>7. QED
    BY <2>2, <2>6, DecisionKeepsInv
<1>2. CASE Refuse
  <2>1. /\ Asked /\ ~HasText(cache, Prompt)
        /\ Len(log) < DecisionPoints
        /\ status' \in {"CacheMissDuringReplayError", "LiveCallNotAllowedError"}
        /\ status' = "CacheMissDuringReplayError" => session.replay
        /\ UNCHANGED <<cache, session, log, book, cut, sessions>>
    BY <1>2, AskedNow DEF Refuse
  <2>2. Prompt' = Prompt
    BY <2>1 DEF Prompt
  <2>3. MissIsInReplay'
    BY <2>1, <2>2 DEF MissIsInReplay
  <2>4. TypeOK'
    BY <2>1 DEF Inv, TypeOK, Errors
  <2>5. QED
    BY <2>1, <2>3, <2>4 DEF Inv, CutRemembered, BookIsWhole, ReplayReadsTheBook,
       ReplayNeverDiverges, ResumedRunsAgree
<1>3. CASE Completion
  <2>1. /\ Asked /\ ~HasText(cache, Prompt) /\ ~session.replay
        /\ UNCHANGED <<session, status, book, cut, sessions>>
    BY <1>3, AskedNow DEF Completion, LiveCall
  <2>2. PICK raw \in Returned : /\ cache' = [cache EXCEPT ![Prompt] = raw]
                                /\ log' = Append(log, Parsed(Prompt, raw))
    BY <1>3 DEF Completion, Put, Answer
  <2>3. raw \in Texts /\ raw # Absent
    BY PlannerAssumption DEF Texts, Absent, Proposals, NoText
  <2>4. /\ cache' \in [Prompts -> Texts \cup {Absent}]
        /\ \A p \in Prompts : p = Prompt \/ cache'[p] = cache[p]
        /\ cache'[Prompt] = raw
    BY <2>1, <2>2, <2>3, AskedNow
  <2> DEFINE o == Parsed(Prompt, raw)
  <2>5. o \in Outcomes /\ (raw = NoText => o.fallback = "unparseable")
    BY <2>3, ParsedIsOutcome
  <2>6. ExplainedAt(cache', Prompt, o)
    BY <2>3, <2>4, <2>5 DEF ExplainedAt, HasText
  <2> HIDE DEF o
  <2>7. Decided(o)
    BY <2>1, <2>2, <2>4, <2>6 DEF Decided, o
  <2>8. QED
    BY <2>5, <2>7, DecisionKeepsInv
<1>4. CASE Timeout
  <2>1. /\ Asked /\ ~HasText(cache, Prompt) /\ ~session.replay
        /\ UNCHANGED <<cache, session, status, book, cut, sessions>>
    BY <1>4, AskedNow DEF Timeout, LiveCall
  <2> DEFINE o == Outcome(A3DProposal(Prompt), "timeout")
  <2>2. o \in Outcomes /\ o.fallback = "timeout"
    <3>1. NoText \in Texts
      BY DEF Texts
    <3>2. QED
      BY <3>1, ParsedIsOutcome
  <2>3. log' = Append(log, o)
    BY <1>4 DEF Timeout, Answer
  <2> HIDE DEF o
  <2>4. Decided(o)
    BY <2>1, <2>2, <2>3, AskedNow DEF Decided, ExplainedAt
  <2>5. QED
    BY <2>2, <2>4, DecisionKeepsInv
<1>5. CASE Quota
  <2>1. /\ ~session.replay /\ cut' = log /\ status' = "QuotaExhaustedError"
        /\ UNCHANGED <<cache, session, log, book, sessions>>
    BY <1>5 DEF Quota, LiveCall
  <2>2. TypeOK' /\ MissIsInReplay'
    BY <2>1 DEF Inv, TypeOK, MissIsInReplay, Errors
  <2>3. CutRemembered'
    <3>1. ASSUME NEW k \in DOMAIN log
          PROVE  \/ Textless(log[k])
                 \/ /\ HasText(cache, Before(log, k))
                    /\ log[k] = Parsed(Before(log, k), cache[Before(log, k)])
      BY DEF Inv, Explained, ExplainedAt, Textless
    <3>2. Len(log) <= DecisionPoints
      BY DEF Inv, TypeOK
    <3>3. QED
      BY <2>1, <3>1, <3>2 DEF CutRemembered
  <2>4. ResumedRunsAgree'
    <3>1. log \in Seq(Outcomes)
      BY DEF Inv, TypeOK
    <3>2. PrefixOf(log, log)
      BY <3>1, Positions DEF PrefixOf
    <3>3. QED
      BY <2>1, <3>2 DEF ResumedRunsAgree
  <2>5. QED
    BY <2>1, <2>2, <2>3, <2>4 DEF Inv, BookIsWhole, ReplayReadsTheBook,
       ReplayNeverDiverges
<1>6. CASE Finish
  <2>1. /\ Len(log) = DecisionPoints /\ status' = "complete"
        /\ book' = IF session.replay THEN book ELSE [log |-> log, file |-> cache]
        /\ UNCHANGED <<cache, session, log, cut, sessions>>
    BY <1>6 DEF Finish
  <2>2. /\ book'.log = IF session.replay THEN book.log ELSE log
        /\ book'.file = IF session.replay THEN book.file ELSE cache
    BY <2>1
  <2>3. TypeOK'
    BY <2>1, <2>2 DEF Inv, TypeOK
  <2>4. BookIsWhole'
    BY <2>1, <2>2 DEF Inv, BookIsWhole
  <2>5. ReplayReadsTheBook' /\ ReplayNeverDiverges'
    BY <2>1, <2>2 DEF Inv, ReplayReadsTheBook, ReplayNeverDiverges
  <2>6. QED
    BY <2>1, <2>3, <2>4, <2>5 DEF Inv, CutRemembered, MissIsInReplay,
       ResumedRunsAgree
<1>7. CASE Continue
  <2>1. PICK allowLive \in BOOLEAN : StartWith(Session(allowLive, session.replay))
    BY <1>7 DEF Continue
  <2> DEFINE config == Session(allowLive, session.replay)
  <2>2. /\ config \in [allowLive : BOOLEAN, replay : BOOLEAN]
        /\ config.replay = session.replay
    BY DEF Inv, TypeOK, Session
  <2>3. cache' = cache /\ cut' = cut
    BY <1>7 DEF Continue
  <2> HIDE DEF config
  <2>4. session.replay => /\ cache' = book.file /\ cut' = <<>>
                          /\ Len(book.log) = DecisionPoints
    BY <2>3 DEF Inv, ReplayReadsTheBook
  <2>5. StartWith(config)
    BY <2>1 DEF config
  <2>6. cache' \in [Prompts -> Texts \cup {Absent}]
    BY <2>3 DEF Inv, TypeOK
  <2>7. QED
    BY <2>2, <2>3, <2>4, <2>5, <2>6, RunStarts
<1>8. CASE Fresh
  <2> DEFINE config == Session(TRUE, FALSE)
  <2>1. /\ config \in [allowLive : BOOLEAN, replay : BOOLEAN]
        /\ ~config.replay
    BY DEF Session
  <2>2. StartWith(config) /\ cut' = <<>>
    BY <1>8 DEF Fresh
  <2>3. cache' \in [Prompts -> Texts \cup {Absent}]
    BY <1>8, NothingRecordedYet DEF Fresh
  <2> HIDE DEF config
  <2>4. QED
    BY <2>1, <2>2, <2>3, RunStarts
<1>9. CASE Replay
  <2>1. PICK allowLive \in BOOLEAN : StartWith(Session(allowLive, TRUE))
    BY <1>9 DEF Replay
  <2> DEFINE config == Session(allowLive, TRUE)
  <2>2. config \in [allowLive : BOOLEAN, replay : BOOLEAN]
    BY DEF Session
  <2>3. /\ cache' = book.file /\ cut' = <<>>
        /\ Len(book.log) = DecisionPoints
    BY <1>9 DEF Replay, Inv, BookIsWhole
  <2>4. StartWith(config)
    BY <2>1
  <2>5. cache' \in [Prompts -> Texts \cup {Absent}]
    BY <2>3 DEF Inv, TypeOK
  <2> HIDE DEF config
  <2>6. QED
    BY <2>2, <2>3, <2>4, <2>5, RunStarts
<1>10. CASE UNCHANGED vars
  BY <1>10 DEF vars, Inv, TypeOK, CutRemembered, BookIsWhole, ReplayReadsTheBook,
     MissIsInReplay, ReplayNeverDiverges, ResumedRunsAgree, Prompt
<1>11. QED
  BY <1>1, <1>2, <1>3, <1>4, <1>5, <1>6, <1>7, <1>8, <1>9, <1>10 DEF Next, Ended

LEMMA InvInitially == Init => Inv
<1> SUFFICES ASSUME Init
             PROVE  Inv
  OBVIOUS
<1>1. /\ cache = [p \in Prompts |-> Absent] /\ log = <<>> /\ cut = <<>>
      /\ status = "running" /\ ~session.replay
      /\ book.log = <<>> /\ book.file = cache /\ book = NothingRecorded
  BY NothingRecordedYet DEF Init, Session
<1>2. TypeOK
  <2>1. session \in [allowLive : BOOLEAN, replay : BOOLEAN]
    <3>1. \A a, b \in BOOLEAN :
            Session(a, b) \in [allowLive : BOOLEAN, replay : BOOLEAN]
      BY DEF Session
    <3>2. QED
      BY <3>1 DEF Init
  <2>2. sessions \in 1..MaxSessions /\ Len(log) <= DecisionPoints
    BY <1>1, EmptyRun, PlannerAssumption DEF Init
  <2>3. QED
    BY <1>1, <2>1, <2>2, EmptyRun, NothingRecordedYet DEF TypeOK
<1>3. CutRemembered
  BY <1>1, EmptyRun, PlannerAssumption DEF CutRemembered
<1>4. QED
  BY <1>1, <1>2, <1>3, EmptyRun DEF Inv, BookIsWhole, ReplayReadsTheBook,
     MissIsInReplay, ReplayNeverDiverges, ResumedRunsAgree

-----------------------------------------------------------------------------
\* The invariant of the planner and its cache: what a run decided is what the
\* cache holds for its prompts, for the run in progress, for the one that was
\* cut short and for the one that is written down.
THEOREM ReplayInvariant == Spec => []Inv
BY InvInitially, InvKept, PTL DEF Spec

\* Types, for every number of decision points and of runs.
THEOREM ReplayTypes == Spec => []TypeOK
<1>1. Inv => TypeOK
  BY DEF Inv
<1>2. QED
  BY <1>1, ReplayInvariant, PTL

\* A replay never decides otherwise than the run it reproduces.
THEOREM ReplayIsFaithful == Spec => []ReplayNeverDiverges
<1>1. Inv => ReplayNeverDiverges
  BY DEF Inv
<1>2. QED
  BY <1>1, ReplayInvariant, PTL

\* It stops short only where the recorded run got no text to store.
THEOREM ReplayStopsRightly == Spec => []ReplayStopsOnlyWithoutText
<1>1. ASSUME Inv, status = "CacheMissDuringReplayError"
      PROVE  /\ Len(log) < Len(book.log)
             /\ \/ book.log[Len(log) + 1].fallback = "timeout"
                \/ /\ book.log[Len(log) + 1].fallback = "unparseable"
                   /\ book.file[Prompt] = NoText
  <2>1. /\ log \in Seq(Outcomes) /\ Len(log) \in Nat /\ Len(log) < Len(book.log)
        /\ book.log \in Seq(Outcomes)
        /\ DOMAIN book.log = 1..Len(book.log) /\ Len(book.log) \in Nat
        /\ PrefixOf(log, book.log)
        /\ ~HasText(book.file, Prompt)
        /\ Prompt = Before(log, Len(log) + 1)
    BY <1>1, Positions, PromptIsBefore DEF Inv, TypeOK, MissIsInReplay,
       ReplayReadsTheBook, ReplayNeverDiverges
  <2>2. Len(log) + 1 \in DOMAIN book.log /\ Len(log) + 1 \in 1..(Len(log) + 1)
    BY <2>1
  <2>3. Before(book.log, Len(log) + 1) = Prompt
    BY <2>1, <2>2, SamePrompts
  <2>4. ExplainedAt(book.file, Prompt, book.log[Len(log) + 1])
    BY <1>1, <2>2, <2>3 DEF Inv, BookIsWhole, Explained
  <2>5. QED
    BY <2>1, <2>4 DEF ExplainedAt
<1>2. Inv => ReplayStopsOnlyWithoutText
  BY <1>1 DEF ReplayStopsOnlyWithoutText
<1>3. QED
  BY <1>2, ReplayInvariant, PTL

\* A run continued after a quota error repeats what it had decided on a text.
THEOREM ResumedRunsRepeat == Spec => []ResumedRunsAgree
<1>1. Inv => ResumedRunsAgree
  BY DEF Inv
<1>2. QED
  BY <1>1, ReplayInvariant, PTL

\* The gap between the claim and the code, for every instance: a recorded run
\* in which every call brought a text is replayed to its end.
THEOREM TextsMakeReplaysWhole ==
  Spec => []((\A k \in DOMAIN book.log : ~Textless(book.log[k])) =>
               status # "CacheMissDuringReplayError")
<1>1. ASSUME Inv, ReplayStopsOnlyWithoutText,
             \A k \in DOMAIN book.log : ~Textless(book.log[k])
      PROVE  status # "CacheMissDuringReplayError"
  <2>1. SUFFICES ASSUME status = "CacheMissDuringReplayError"
                 PROVE  FALSE
    OBVIOUS
  <2>2. Len(log) + 1 \in DOMAIN book.log
    BY <1>1, <2>1, Positions DEF Inv, TypeOK, ReplayStopsOnlyWithoutText
  <2>3. QED
    BY <1>1, <2>1, <2>2 DEF ReplayStopsOnlyWithoutText, Textless
<1>2. Inv /\ ReplayStopsOnlyWithoutText =>
        ((\A k \in DOMAIN book.log : ~Textless(book.log[k])) =>
           status # "CacheMissDuringReplayError")
  BY <1>1
<1>3. QED
  BY <1>2, ReplayInvariant, ReplayStopsRightly, PTL

=============================================================================
