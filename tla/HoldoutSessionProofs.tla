------------------------ MODULE HoldoutSessionProofs -------------------------
(***************************************************************************)
(* The guarded holdout execution, for any scope of arms, any number of     *)
(* sessions and any number of commits: what the log, the run directories   *)
(* and the manifests say is what happened, and no commit is run twice.     *)
(***************************************************************************)
EXTENDS HoldoutSession, SequenceTheorems, TLAPS

Manifests == [config : Surfaces \cup {"none"}, git_sha : Nat]

RunDirs == [made : {TRUE}, written : SUBSET Files, torn : SUBSET Files,
            ran : Surfaces, manifest : Manifests, session : Nat,
            calm : BOOLEAN]

\* Types, a run directory's fields included.
Typed ==
  /\ head \in 1..MaxHead /\ tag \in 0..head
  /\ committed \in Surfaces /\ worktree \in Surfaces /\ unsaved \in BOOLEAN
  /\ dirs \in [Arms -> RunDirs \cup {NoDir}]
  /\ lines \in [Arms -> {"none", "COMPLETE", "CRASHED"}]
  /\ stage \in {"idle", "arm", "cohort", "files"}
  /\ index \in DOMAIN HOLDOUT_ARMS /\ left \in Seq(Files)
  /\ loaded \in Surfaces
  /\ refusal \in {"none", "working tree", "surface", "tag", "directories"}
  /\ ending \in {"none", "done", "raised"} \cup Endings
  /\ session \in [head : 0..MaxHead, disturbed : BOOLEAN]

\* The files of the current arm: those written are the ones before "left".
Done == Len(FilesOf(Arm)) - Len(left)

Filling ==
  stage = "files" =>
    /\ dirs[Arm].made /\ dirs[Arm].torn = {}
    /\ Done \in Nat
    /\ \A k \in DOMAIN left : left[k] = FilesOf(Arm)[Done + k]
    /\ dirs[Arm].written = {FilesOf(Arm)[k] : k \in 1..Done}

\* The arms before the current one are complete or gone, those after it have
\* not been started, and the current one not before its directory is made.
InOrder ==
  \A k \in DOMAIN HOLDOUT_ARMS :
    LET arm == HOLDOUT_ARMS[k]
    IN /\ k < index /\ dirs[arm].made => Complete(arm)
       /\ k > index => ~dirs[arm].made
       /\ k = index /\ stage \in {"arm", "cohort"} => ~dirs[arm].made

\* The lines of the session: COMPLETE for the arms it is through with, none
\* for those to come; and its ending says whether all are there.
Logged ==
  /\ CompleteLineMeansArtifacts
  /\ Running => /\ ending = "none"
                /\ \A k \in DOMAIN HOLDOUT_ARMS :
                     lines[HOLDOUT_ARMS[k]] = IF k < index THEN "COMPLETE"
                                                           ELSE "none"
  /\ ~Running => \/ ending = "done" /\ \A arm \in Arms : lines[arm] = "COMPLETE"
                 \/ ending # "done" /\ lines[Arm] # "COMPLETE"

\* What the checks established holds until somebody edits or commits.
Undisturbed ==
  /\ Running /\ ~session.disturbed =>
       committed = "frozen" /\ worktree = "frozen" /\ head = session.head
  /\ stage = "cohort" /\ ~session.disturbed => loaded = "frozen"
  /\ stage = "files" /\ dirs[Arm].calm =>
       ~session.disturbed /\ dirs[Arm].session = session.head

\* The commits that were run, with the entry of the last one not committed.
Accounted ==
  /\ used \subseteq 1..head
  /\ head \in used => unsaved

Inv == /\ Typed /\ Filling /\ RunParamsSealTheDirectory /\ InOrder /\ Logged
       /\ Undisturbed /\ OnlyTheFrozenSurfaceRuns /\ Accounted

-----------------------------------------------------------------------------
\* Sequences without repetition.
Injective(s) == \A i, j \in DOMAIN s : s[i] = s[j] => i = j

\* One after the other, two sequences without a common element are such a one.
LEMMA JoinedInOrder ==
  ASSUME NEW S, NEW T, NEW s \in Seq(S), NEW t \in Seq(T),
         Injective(s), Injective(t), S \cap T = {}
  PROVE  s \o t \in Seq(S \cup T) /\ Injective(s \o t)
<1>1. /\ Len(s) \in Nat /\ DOMAIN s = 1..Len(s)
      /\ Len(t) \in Nat /\ DOMAIN t = 1..Len(t)
      /\ \A i \in DOMAIN s : s[i] \in S
      /\ \A i \in DOMAIN t : t[i] \in T
  BY LenProperties, ElementOfSeq
<1>2. s \in Seq(S \cup T) /\ t \in Seq(S \cup T)
  BY SeqMonotonic
<1>3. /\ s \o t \in Seq(S \cup T)
      /\ Len(s \o t) = Len(s) + Len(t)
      /\ \A i \in 1..Len(s) + Len(t) :
           (s \o t)[i] = IF i <= Len(s) THEN s[i] ELSE t[i - Len(s)]
  BY <1>2, ConcatProperties
<1>4. DOMAIN (s \o t) = 1..Len(s) + Len(t)
  BY <1>3, LenProperties
<1>5. QED
  BY <1>1, <1>3, <1>4 DEF Injective

\* At most one arm.
LEMMA OneArm ==
  ASSUME NEW arm
  PROVE  InScope(arm) \in Seq({arm}) /\ Injective(InScope(arm))
<1>1. CASE arm \in Scope
  <2>1. <<arm>> \in Seq({arm}) /\ DOMAIN <<arm>> = {1}
    OBVIOUS
  <2>2. QED
    BY <1>1, <2>1 DEF InScope, Injective
<1>2. CASE arm \notin Scope
  BY <1>2, EmptySeq DEF InScope, Injective
<1>3. QED
  BY <1>1, <1>2

\* One arm more, if it is in the scope.
LEMMA ArmJoins ==
  ASSUME NEW S, NEW s \in Seq(S), Injective(s), NEW arm, arm \notin S
  PROVE  s \o InScope(arm) \in Seq(S \cup {arm}) /\ Injective(s \o InScope(arm))
<1>1. S \cap {arm} = {}
  OBVIOUS
<1> DEFINE t == InScope(arm)
           T == {arm}
<1>2. t \in Seq(T) /\ Injective(t) /\ S \cap T = {}
  BY <1>1, OneArm
<1> HIDE DEF t, T
<1>3. s \o t \in Seq(S \cup T) /\ Injective(s \o t)
  BY <1>2, JoinedInOrder
<1>4. QED
  BY <1>3 DEF t, T

\* HOLDOUT_ARMS names every arm of the scope once.
LEMMA HoldoutArms ==
  /\ HOLDOUT_ARMS \in Seq(Arms)
  /\ Injective(HOLDOUT_ARMS)
  /\ Len(HOLDOUT_ARMS) \in Nat \ {0}
  /\ DOMAIN HOLDOUT_ARMS = 1..Len(HOLDOUT_ARMS)
<1> DEFINE a == InScope("A0")
           b == a \o InScope("A1")
           c == b \o InScope("A2_STRENGTHENED")
           d == c \o InScope("A3-D")
           B == {"A0"} \cup {"A1"}
           C == B \cup {"A2_STRENGTHENED"}
           D == C \cup {"A3-D"}
           Names == D \cup {"A4"}
<1>0. /\ "A1" \notin {"A0"} /\ "A2_STRENGTHENED" \notin B
      /\ "A3-D" \notin C /\ "A4" \notin D
  OBVIOUS
<1>1. a \in Seq({"A0"}) /\ Injective(a)
  BY OneArm
<1> HIDE DEF a
<1>2. b \in Seq(B) /\ Injective(b)
  BY <1>0, <1>1, ArmJoins
<1> HIDE DEF b, B
<1>3. c \in Seq(C) /\ Injective(c)
  BY <1>0, <1>2, ArmJoins
<1> HIDE DEF c, C
<1>4. d \in Seq(D) /\ Injective(d)
  BY <1>0, <1>3, ArmJoins
<1> HIDE DEF d, D
<1>5. d \o InScope("A4") \in Seq(Names) /\ Injective(d \o InScope("A4"))
  BY <1>0, <1>4, ArmJoins
<1>51. HOLDOUT_ARMS \in Seq(Names) /\ Injective(HOLDOUT_ARMS)
  BY <1>5 DEF HOLDOUT_ARMS, a, b, c, d
<1> HIDE DEF Names
<1>6. /\ Len(HOLDOUT_ARMS) \in Nat
      /\ DOMAIN HOLDOUT_ARMS = 1..Len(HOLDOUT_ARMS)
      /\ HOLDOUT_ARMS \in [1..Len(HOLDOUT_ARMS) -> Names]
  BY <1>51, LenProperties
<1>7. HOLDOUT_ARMS \in [1..Len(HOLDOUT_ARMS) -> Arms]
  BY <1>6 DEF Arms
<1>8. HOLDOUT_ARMS \in Seq(Arms)
  BY <1>6, <1>7, SeqDef
<1>9. Len(HOLDOUT_ARMS) # 0
  BY <1>6, SessionAssumption DEF Arms
<1>10. QED
  BY <1>51, <1>6, <1>8, <1>9

\* The files of an arm: each once, the run parameters last.
LEMMA FilesInOrder ==
  ASSUME NEW arm
  PROVE  /\ FilesOf(arm) \in Seq(Files)
         /\ Injective(FilesOf(arm))
         /\ Len(FilesOf(arm)) \in Nat \ {0}
         /\ DOMAIN FilesOf(arm) = 1..Len(FilesOf(arm))
         /\ FilesOf(arm)[Len(FilesOf(arm))] = "run_params.json"
<1> DEFINE Tables == <<"episode_results.jsonl", "metrics.json",
                       "manifest.json", "run_params.json">>
           Ledger == IF arm = "A3-D" THEN <<"ledger.jsonl">> ELSE <<>>
<1>1. /\ Tables \in Seq(Files \ {"ledger.jsonl"})
      /\ Injective(Tables)
      /\ Len(Tables) = 4 /\ Tables[4] = "run_params.json"
  <2>1. Tables \in Seq(Files \ {"ledger.jsonl"}) /\ DOMAIN Tables = 1..4
    BY DEF Files
  <2>2. /\ Tables[1] = "episode_results.jsonl" /\ Tables[2] = "metrics.json"
        /\ Tables[3] = "manifest.json" /\ Tables[4] = "run_params.json"
    OBVIOUS
  <2> HIDE DEF Tables
  <2>3. \A i \in 1..4 : i = 1 \/ i = 2 \/ i = 3 \/ i = 4
    OBVIOUS
  <2>4. Injective(Tables)
    BY <2>1, <2>2, <2>3 DEF Injective
  <2>5. QED
    BY <2>1, <2>2, <2>4, LenProperties
<1>2. /\ Ledger \in Seq({"ledger.jsonl"})
      /\ Injective(Ledger)
  <2>1. CASE arm = "A3-D"
    BY <2>1 DEF Injective
  <2>2. CASE arm # "A3-D"
    BY <2>2, EmptySeq DEF Injective
  <2>3. QED
    BY <2>1, <2>2
<1>3. FilesOf(arm) = Ledger \o Tables
  BY DEF FilesOf
<1> HIDE DEF Ledger, Tables
<1> DEFINE Rest == Files \ {"ledger.jsonl"}
<1>31. {"ledger.jsonl"} \cap Rest = {}
  OBVIOUS
<1>4. {"ledger.jsonl"} \cup (Files \ {"ledger.jsonl"}) = Files
  BY DEF Files
<1>5. FilesOf(arm) \in Seq(Files) /\ Injective(FilesOf(arm))
  <2> DEFINE One == {"ledger.jsonl"}
  <2>1. /\ Ledger \in Seq(One) /\ Injective(Ledger) /\ One \cup Rest = Files
        /\ Tables \in Seq(Rest) /\ Injective(Tables) /\ One \cap Rest = {}
    BY <1>1, <1>2, <1>31, <1>4
  <2> HIDE DEF One, Rest
  <2>2. Ledger \o Tables \in Seq(One \cup Rest) /\ Injective(Ledger \o Tables)
    BY <2>1, JoinedInOrder
  <2>3. QED
    BY <2>1, <2>2, <1>3
<1>6. /\ Ledger \in Seq(Files) /\ Tables \in Seq(Files)
  BY <1>1, <1>2, <1>4, SeqMonotonic
<1>7. /\ Len(FilesOf(arm)) = Len(Ledger) + 4
      /\ Len(Ledger) \in Nat
      /\ FilesOf(arm)[Len(Ledger) + 4] = "run_params.json"
  <2>1. Len(Ledger) \in Nat /\ Len(Tables) = 4 /\ Tables[4] = "run_params.json"
    BY <1>1, <1>2, LenProperties
  <2>2. /\ Len(Ledger \o Tables) = Len(Ledger) + Len(Tables)
        /\ \A i \in 1..Len(Ledger) + Len(Tables) :
             (Ledger \o Tables)[i] = IF i <= Len(Ledger) THEN Ledger[i]
                                     ELSE Tables[i - Len(Ledger)]
    BY <1>6, ConcatProperties
  <2>3. (Ledger \o Tables)[Len(Ledger) + 4] = Tables[Len(Ledger) + 4 - Len(Ledger)]
    BY <2>1, <2>2
  <2>4. QED
    BY <2>1, <2>2, <2>3, <1>3
<1>8. QED
  BY <1>5, <1>7, LenProperties

-----------------------------------------------------------------------------
\* The current arm is one of the run, and the only one at its position.
LEMMA CurrentArm ==
  ASSUME Typed
  PROVE  /\ Arm \in Arms
         /\ index \in 1..Len(HOLDOUT_ARMS)
         /\ \A k \in DOMAIN HOLDOUT_ARMS :
              /\ k \in Nat
              /\ HOLDOUT_ARMS[k] \in Arms
              /\ HOLDOUT_ARMS[k] = Arm <=> k = index
         /\ \A arm \in Arms : \E k \in DOMAIN HOLDOUT_ARMS : HOLDOUT_ARMS[k] = arm
<1>1. /\ index \in DOMAIN HOLDOUT_ARMS
      /\ DOMAIN HOLDOUT_ARMS = 1..Len(HOLDOUT_ARMS)
      /\ Len(HOLDOUT_ARMS) \in Nat
  BY HoldoutArms DEF Typed
<1>2. \A k \in DOMAIN HOLDOUT_ARMS : HOLDOUT_ARMS[k] \in Arms
  BY DEF Arms
<1>3. \A k \in DOMAIN HOLDOUT_ARMS : HOLDOUT_ARMS[k] = Arm <=> k = index
  BY <1>1, HoldoutArms DEF Arm, Injective
<1>4. \A arm \in Arms : \E k \in DOMAIN HOLDOUT_ARMS : HOLDOUT_ARMS[k] = arm
  BY DEF Arms
<1>5. QED
  BY <1>1, <1>2, <1>3, <1>4 DEF Arm

\* A run directory is there with all its fields, or it is not.
LEMMA DirFields ==
  ASSUME Typed, NEW arm \in Arms
  PROVE  /\ dirs[arm].made \in BOOLEAN
         /\ dirs[arm].written \in SUBSET Files
         /\ dirs[arm].torn \in SUBSET Files
         /\ dirs[arm].made => dirs[arm] \in RunDirs
         /\ ~dirs[arm].made => /\ dirs[arm] = NoDir
                               /\ dirs[arm].written = {} /\ dirs[arm].torn = {}
<1>1. dirs[arm] \in RunDirs \cup {NoDir}
  BY DEF Typed
<1>2. CASE dirs[arm] \in RunDirs
  BY <1>2 DEF RunDirs
<1>3. CASE dirs[arm] = NoDir
  BY <1>3 DEF NoDir
<1>4. QED
  BY <1>1, <1>2, <1>3

\* What a directory holds decides whether it is complete.
SameContents(arm) ==
  /\ dirs'[arm].made = dirs[arm].made
  /\ dirs'[arm].written = dirs[arm].written

LEMMA CompleteByContents ==
  ASSUME NEW arm, SameContents(arm)
  PROVE  Complete(arm)' <=> Complete(arm)
BY DEF SameContents, Complete

\* The current arm is complete when its last file is written, not before.
LEMMA CompleteWhenAllWritten ==
  ASSUME Inv, stage = "files"
  PROVE  /\ Complete(Arm) <=> left = <<>>
         /\ "run_params.json" \in dirs[Arm].written <=> left = <<>>
<1> DEFINE F == FilesOf(Arm)
<1>1. /\ F \in Seq(Files)
      /\ \A i, j \in DOMAIN F : F[i] = F[j] => i = j
      /\ Len(F) \in Nat \ {0}
      /\ DOMAIN F = 1..Len(F)
      /\ F[Len(F)] = "run_params.json"
  BY FilesInOrder DEF Injective
<1>2. /\ left \in Seq(Files) /\ Len(left) \in Nat
      /\ left = <<>> <=> Len(left) = 0
  BY EmptySeq, LenProperties DEF Inv, Typed
<1>3. /\ dirs[Arm].made /\ Done \in Nat /\ Done = Len(F) - Len(left)
      /\ dirs[Arm].written = {F[k] : k \in 1..Done}
  BY DEF Inv, Filling, Done
<1>4. Complete(Arm) <=> \A k \in DOMAIN F : F[k] \in dirs[Arm].written
  BY <1>3 DEF Complete
<1> HIDE DEF F
<1>5. \A k \in DOMAIN F : F[k] \in dirs[Arm].written <=> k <= Done
  BY <1>1, <1>2, <1>3
<1>6. QED
  BY <1>1, <1>2, <1>3, <1>4, <1>5

\* The next file is the one that follows those written.
LEMMA NextFile ==
  ASSUME Inv, stage = "files", left # <<>>
  PROVE  /\ Done + 1 \in DOMAIN FilesOf(Arm)
         /\ Head(left) = FilesOf(Arm)[Done + 1]
         /\ Tail(left) \in Seq(Files)
         /\ Len(Tail(left)) = Len(left) - 1
         /\ \A k \in DOMAIN Tail(left) : Tail(left)[k] = FilesOf(Arm)[Done + 1 + k]
         /\ dirs[Arm].written \cup {Head(left)}
              = {FilesOf(Arm)[k] : k \in 1..(Done + 1)}
<1> DEFINE F == FilesOf(Arm)
<1>1. /\ Len(F) \in Nat /\ DOMAIN F = 1..Len(F)
  BY FilesInOrder
<1>2. /\ left \in Seq(Files) /\ Len(left) \in Nat \ {0}
      /\ DOMAIN left = 1..Len(left)
  BY EmptySeq, LenProperties DEF Inv, Typed
<1>3. /\ Done \in Nat /\ Done = Len(F) - Len(left)
      /\ \A k \in DOMAIN left : left[k] = F[Done + k]
      /\ dirs[Arm].written = {F[k] : k \in 1..Done}
  BY DEF Inv, Filling, Done
<1>4. /\ Tail(left) \in Seq(Files)
      /\ Len(Tail(left)) = Len(left) - 1
      /\ DOMAIN Tail(left) = 1..(Len(left) - 1)
      /\ \A k \in 1..(Len(left) - 1) : Tail(left)[k] = left[k + 1]
      /\ Head(left) = left[1]
  BY <1>2, HeadTailProperties, LenProperties
<1> HIDE DEF F
<1>5. Head(left) = F[Done + 1] /\ Done + 1 \in DOMAIN F
  BY <1>1, <1>2, <1>3, <1>4
<1>6. \A k \in DOMAIN Tail(left) : Tail(left)[k] = F[Done + 1 + k]
  <2>1. SUFFICES ASSUME NEW k \in 1..(Len(left) - 1)
                 PROVE  Tail(left)[k] = F[Done + 1 + k]
    BY <1>4
  <2>2. k + 1 \in DOMAIN left /\ Done + (k + 1) = Done + 1 + k
    BY <1>2, <1>3
  <2>3. QED
    BY <1>3, <1>4, <2>2
<1>7. dirs[Arm].written \cup {Head(left)} = {F[k] : k \in 1..(Done + 1)}
  <2>1. \A k \in 1..(Done + 1) : k \in 1..Done \/ k = Done + 1
    BY <1>3
  <2>2. 1..Done \subseteq 1..(Done + 1) /\ Done + 1 \in 1..(Done + 1)
    BY <1>3
  <2>3. QED
    BY <1>3, <1>5, <2>1, <2>2
<1>8. QED
  BY <1>4, <1>5, <1>6, <1>7 DEF F

\* A failure tears at most the file that was being written.
LEMMA TornFile ==
  ASSUME Inv, Torn
  PROVE  /\ dirs' \in [Arms -> RunDirs \cup {NoDir}]
         /\ \A arm \in Arms :
              /\ SameContents(arm)
              /\ dirs'[arm].torn # dirs[arm].torn =>
                   arm = Arm /\ stage = "files" /\ left # <<>>
              /\ dirs[arm].made =>
                   /\ dirs'[arm].ran = dirs[arm].ran
                   /\ dirs'[arm].manifest = dirs[arm].manifest
                   /\ dirs'[arm].session = dirs[arm].session
                   /\ dirs'[arm].calm = dirs[arm].calm
<1>1. CASE UNCHANGED dirs
  BY <1>1 DEF Inv, Typed, SameContents
<1>2. CASE /\ stage = "files" /\ left # <<>>
           /\ dirs' = [dirs EXCEPT ![Arm].torn = @ \cup {Head(left)}]
  <2>1. /\ Arm \in Arms /\ dirs[Arm] \in RunDirs
        /\ dirs \in [Arms -> RunDirs \cup {NoDir}]
    BY <1>2, CurrentArm, DirFields DEF Inv, Filling, Typed
  <2>2. Head(left) \in Files
    BY <1>2, HeadTailProperties DEF Inv, Typed
  <2> DEFINE d == [dirs[Arm] EXCEPT !.torn = dirs[Arm].torn \cup {Head(left)}]
  <2>3. /\ d \in RunDirs
        /\ d.made = dirs[Arm].made /\ d.written = dirs[Arm].written
        /\ d.ran = dirs[Arm].ran /\ d.manifest = dirs[Arm].manifest
        /\ d.session = dirs[Arm].session /\ d.calm = dirs[Arm].calm
    BY <2>1, <2>2 DEF RunDirs
  <2>4. dirs' = [dirs EXCEPT ![Arm] = d]
    BY <1>2
  <2> HIDE DEF d
  <2>5. \A arm \in Arms : dirs'[arm] = IF arm = Arm THEN d ELSE dirs[arm]
    BY <2>1, <2>4
  <2>6. dirs' \in [Arms -> RunDirs \cup {NoDir}]
    BY <2>1, <2>3, <2>4
  <2>7. QED
    BY <1>2, <2>3, <2>5, <2>6 DEF SameContents
<1>3. QED
  BY <1>1, <1>2 DEF Torn

\* An edit or a commit touches no content; a run it falls into is not calm.
LEMMA Disturbed ==
  ASSUME Inv, Disturb
  PROVE  /\ dirs' \in [Arms -> RunDirs \cup {NoDir}]
         /\ \A arm \in Arms :
              /\ SameContents(arm)
              /\ dirs'[arm].torn = dirs[arm].torn
              /\ dirs[arm].made =>
                   /\ dirs'[arm].ran = dirs[arm].ran
                   /\ dirs'[arm].manifest = dirs[arm].manifest
                   /\ dirs'[arm].session = dirs[arm].session
                   /\ dirs'[arm].calm => dirs[arm].calm /\ ~(Running /\ arm = Arm)
         /\ session' \in [head : 0..MaxHead, disturbed : BOOLEAN]
         /\ session'.head = session.head
         /\ session'.disturbed <=> Running \/ session.disturbed
<1>1. ASSUME NEW arm \in Arms
      PROVE  /\ dirs'[arm] \in RunDirs \cup {NoDir}
             /\ SameContents(arm)
             /\ dirs'[arm].torn = dirs[arm].torn
             /\ dirs[arm].made =>
                  /\ dirs'[arm].ran = dirs[arm].ran
                  /\ dirs'[arm].manifest = dirs[arm].manifest
                  /\ dirs'[arm].session = dirs[arm].session
                  /\ dirs'[arm].calm => dirs[arm].calm /\ ~(Running /\ arm = Arm)
  <2>1. dirs[arm] \in RunDirs \cup {NoDir}
    BY DEF Inv, Typed
  <2>2. CASE Running /\ arm = Arm /\ dirs[arm].made
    <3>1. dirs'[arm] = [dirs[arm] EXCEPT !.calm = FALSE]
      BY <2>2 DEF Disturb
    <3>2. dirs[arm] \in RunDirs
      BY <2>2, DirFields DEF Inv
    <3>3. QED
      BY <3>1, <3>2 DEF RunDirs, SameContents
  <2>3. CASE ~(Running /\ arm = Arm /\ dirs[arm].made)
    <3>1. dirs'[arm] = dirs[arm]
      BY <2>3 DEF Disturb
    <3>2. QED
      BY <2>1, <2>3, <3>1 DEF SameContents
  <2>4. QED
    BY <2>2, <2>3
<1>2. dirs' \in [Arms -> RunDirs \cup {NoDir}]
  <2>1. DOMAIN dirs' = Arms /\ dirs' = [arm \in DOMAIN dirs' |-> dirs'[arm]]
    BY DEF Disturb
  <2>2. QED
    BY <1>1, <2>1
<1>3. /\ session' \in [head : 0..MaxHead, disturbed : BOOLEAN]
      /\ session'.head = session.head
      /\ session'.disturbed <=> Running \/ session.disturbed
  BY DEF Inv, Typed, Disturb
<1>4. QED
  BY <1>1, <1>2, <1>3

\* A session starts on a clean tree at an authorized commit with the frozen
\* surface, and no run directory is left from an earlier one.
LEMMA Admitted ==
  ASSUME Refusal = "none"
  PROVE  /\ ~unsaved /\ worktree = committed /\ committed = "frozen"
         /\ tag = head
         /\ \A arm \in Arms : ~dirs[arm].made
<1>1. Clean /\ SurfaceUnchanged /\ tag = head /\ Existing = {}
  BY DEF Refusal
<1>2. QED
  BY <1>1 DEF Clean, SurfaceUnchanged, Existing

-----------------------------------------------------------------------------
\* Types hold initially and are kept by every step.
LEMMA StepsAreTyped ==
  ASSUME Inv, Next
  PROVE  Typed'
<1> USE DEF repository, process
<1>1. /\ Typed
      /\ Arm \in Arms /\ index \in 1..Len(HOLDOUT_ARMS)
      /\ Len(HOLDOUT_ARMS) \in Nat /\ DOMAIN HOLDOUT_ARMS = 1..Len(HOLDOUT_ARMS)
      /\ MaxHead \in Nat /\ <<>> \in Seq(Files)
  BY CurrentArm, HoldoutArms, SessionAssumption, EmptySeq DEF Inv
<1>1a. /\ head \in Nat /\ 1 <= head /\ head <= MaxHead
      /\ worktree \in Surfaces /\ loaded \in Surfaces
      /\ session.head \in 0..MaxHead /\ session.disturbed \in BOOLEAN
      /\ lines \in [Arms -> {"none", "COMPLETE", "CRASHED"}]
      /\ dirs \in [Arms -> RunDirs \cup {NoDir}]
  <2>1. head \in 1..MaxHead
    BY <1>1 DEF Typed
  <2>2. /\ worktree \in Surfaces /\ loaded \in Surfaces
        /\ session \in [head : 0..MaxHead, disturbed : BOOLEAN]
        /\ lines \in [Arms -> {"none", "COMPLETE", "CRASHED"}]
        /\ dirs \in [Arms -> RunDirs \cup {NoDir}]
    BY <1>1 DEF Typed
  <2>3. QED
    BY <1>1, <2>1, <2>2
<1>2. CASE Refuse
  <2>1. refusal' \in {"none", "working tree", "surface", "tag", "directories"}
    BY <1>2 DEF Refuse, Refusal
  <2>2. QED
    BY <1>1, <1>2, <2>1 DEF Refuse, Typed
<1>3. CASE Start
  <2>1. /\ session' \in [head : 0..MaxHead, disturbed : BOOLEAN]
        /\ lines' \in [Arms -> {"none", "COMPLETE", "CRASHED"}]
        /\ 1 \in DOMAIN HOLDOUT_ARMS
    <3>1. session' = [head |-> head, disturbed |-> FALSE]
      BY <1>3 DEF Start
    <3>2. lines' = [arm \in Arms |-> "none"]
      BY <1>3 DEF Start
    <3>3. QED
      BY <1>1a, <1>1, <3>1, <3>2
  <2>2. QED
    BY <1>1, <1>3, <2>1 DEF Start, Typed
<1>4. CASE RunCohort
  BY <1>1, <1>4 DEF RunCohort, Typed
<1>5. CASE MakeDir
  <2>1. EmptyDir(loaded) \in RunDirs
    <3>1. NoManifest \in Manifests
      BY DEF NoManifest, Manifests
    <3>2. (~session.disturbed) \in BOOLEAN
      OBVIOUS
    <3>3. session.head \in Nat
      BY <1>1a, <1>1
    <3>4. QED
      BY <1>1a, <3>1, <3>2, <3>3 DEF EmptyDir, RunDirs
  <2>2. dirs' \in [Arms -> RunDirs \cup {NoDir}]
    BY <1>1, <1>5, <2>1 DEF MakeDir, Typed
  <2>3. left' \in Seq(Files)
    BY <1>5, FilesInOrder DEF MakeDir
  <2>4. QED
    BY <1>1, <1>5, <2>2, <2>3 DEF MakeDir, Typed
<1>6. CASE Write
  <2>1. /\ dirs[Arm] \in RunDirs /\ Head(left) \in Files
        /\ Tail(left) \in Seq(Files)
    BY <1>1, <1>6, DirFields, HeadTailProperties DEF Write, Inv, Filling, Typed
  <2>2. Manifest(Head(left), dirs[Arm].manifest) \in Manifests
    <3>1. [config |-> worktree, git_sha |-> head] \in Manifests
      BY <1>1a DEF Manifests
    <3>2. dirs[Arm].manifest \in Manifests
      BY <2>1 DEF RunDirs
    <3>3. QED
      BY <3>1, <3>2 DEF Manifest
  <2> DEFINE written == dirs[Arm].written \cup {Head(left)}
             manifest == Manifest(Head(left), dirs[Arm].manifest)
  <2>3. [dirs[Arm] EXCEPT !.written = written, !.manifest = manifest] \in RunDirs
    <3>1. written \in SUBSET Files
      BY <2>1 DEF RunDirs
    <3> HIDE DEF written, manifest
    <3>2. QED
      BY <2>1, <2>2, <3>1 DEF RunDirs, manifest
  <2>4. dirs' = [dirs EXCEPT ![Arm] = [dirs[Arm] EXCEPT !.written = written,
                                                       !.manifest = manifest]]
    BY <1>1, <1>6 DEF Write, Typed
  <2> HIDE DEF written, manifest
  <2>5. dirs' \in [Arms -> RunDirs \cup {NoDir}]
    BY <1>1, <2>3, <2>4 DEF Typed
  <2>6. QED
    BY <1>1, <1>6, <2>1, <2>5 DEF Write, Typed
<1>7. CASE LogComplete
  <2>1. /\ lines' \in [Arms -> {"none", "COMPLETE", "CRASHED"}]
        /\ index' \in DOMAIN HOLDOUT_ARMS /\ stage' \in {"arm", "idle"}
        /\ ending' \in {ending, "done"}
    <3>1. lines' = [lines EXCEPT ![Arm] = "COMPLETE"]
      BY <1>7 DEF LogComplete
    <3>2. \/ /\ index < Len(HOLDOUT_ARMS)
             /\ stage' = "arm" /\ index' = index + 1 /\ ending' = ending
          \/ stage' = "idle" /\ index' = index /\ ending' = "done"
      BY <1>7 DEF LogComplete, Leave
    <3>3. QED
      BY <1>1a, <1>1, <3>1, <3>2
  <2>2. QED
    BY <1>1, <1>7, <2>1 DEF LogComplete, Typed
<1>8. CASE Raise
  <2>1. /\ lines' \in [Arms -> {"none", "COMPLETE", "CRASHED"}]
        /\ dirs' \in [Arms -> RunDirs \cup {NoDir}]
    BY <1>1, <1>8, TornFile DEF Raise, Typed
  <2>2. QED
    BY <1>1, <1>8, <2>1 DEF Raise, Leave, Typed
<1>9. CASE End
  <2>1. dirs' \in [Arms -> RunDirs \cup {NoDir}]
    BY <1>9, TornFile DEF End
  <2>2. QED
    BY <1>1, <1>9, <2>1 DEF End, Leave, Typed
<1>10. CASE Edit
  <2>1. /\ dirs' \in [Arms -> RunDirs \cup {NoDir}]
        /\ session' \in [head : 0..MaxHead, disturbed : BOOLEAN]
    BY <1>10, Disturbed DEF Edit
  <2>2. QED
    BY <1>1, <1>10, <2>1 DEF Edit, Typed
<1>11. CASE Commit
  <2>1. /\ dirs' \in [Arms -> RunDirs \cup {NoDir}]
        /\ session' \in [head : 0..MaxHead, disturbed : BOOLEAN]
    BY <1>11, Disturbed DEF Commit
  <2>2. head' \in 1..MaxHead /\ tag' \in 0..head'
    <3>1. head < MaxHead /\ head' = head + 1 /\ tag' = tag
      BY <1>11 DEF Commit
    <3>2. tag \in 0..head
      BY <1>1 DEF Typed
    <3>3. QED
      BY <1>1a, <1>1, <3>1, <3>2
  <2>3. QED
    BY <1>1, <1>11, <2>1, <2>2 DEF Commit, Typed
<1>12. CASE Authorize
  <2>1. tag' \in 0..head'
    <3>1. tag' = head /\ head' = head
      BY <1>12 DEF Authorize
    <3>2. QED
      BY <1>1a, <3>1
  <2>2. QED
    BY <1>1, <1>12, <2>1 DEF Authorize, Typed
<1>13. ASSUME NEW arm \in Arms, Remove(arm)
       PROVE  Typed'
  BY <1>1, <1>13 DEF Remove, Typed
<1>14. QED
  BY <1>2, <1>3, <1>4, <1>5, <1>6, <1>7, <1>8, <1>9, <1>10, <1>11, <1>12, <1>13
     DEF Next, ClearRemnant, Relocate

-----------------------------------------------------------------------------
\* A run directory nobody writes to, but for a file torn by a failure.
Kept(arm) ==
  /\ SameContents(arm)
  /\ dirs'[arm].torn # dirs[arm].torn =>
       arm = Arm /\ stage = "files" /\ left # <<>>
  /\ dirs[arm].made =>
       /\ dirs'[arm].ran = dirs[arm].ran
       /\ dirs'[arm].manifest = dirs[arm].manifest
       /\ dirs'[arm].session = dirs[arm].session
       /\ dirs'[arm].calm => dirs[arm].calm

\* The current arm's directory after a write.
Grown(arm) ==
  /\ dirs'[arm].made
  /\ dirs'[arm].written = dirs[arm].written \cup {Head(left)}
  /\ dirs'[arm].torn = dirs[arm].torn
  /\ dirs'[arm].manifest = Manifest(Head(left), dirs[arm].manifest)
  /\ dirs'[arm].ran = dirs[arm].ran
  /\ dirs'[arm].session = dirs[arm].session
  /\ dirs'[arm].calm = dirs[arm].calm

LEMMA WriteGrows ==
  ASSUME Inv, Write
  PROVE  /\ Grown(Arm)
         /\ \A arm \in Arms \ {Arm} : dirs'[arm] = dirs[arm]
<1>1. Arm \in Arms /\ dirs \in [Arms -> RunDirs \cup {NoDir}]
  BY CurrentArm DEF Inv, Typed
<1>2. dirs[Arm] \in RunDirs
  BY <1>1, DirFields DEF Write, Inv, Filling
<1> DEFINE written == dirs[Arm].written \cup {Head(left)}
           manifest == Manifest(Head(left), dirs[Arm].manifest)
<1>3. dirs' = [dirs EXCEPT ![Arm] = [dirs[Arm] EXCEPT !.written = written,
                                                     !.manifest = manifest]]
  BY <1>1 DEF Write
<1> HIDE DEF written, manifest
<1>4. dirs'[Arm] = [dirs[Arm] EXCEPT !.written = written, !.manifest = manifest]
  BY <1>1, <1>3
<1>5. Grown(Arm)
  BY <1>2, <1>4 DEF Grown, RunDirs, written, manifest
<1>6. QED
  BY <1>1, <1>3, <1>5

\* What a step may do to a run directory: make or write to the current arm's,
\* remove one between sessions, or leave its contents alone.
LEMMA DirChanges ==
  ASSUME Inv, Next, NEW arm \in Arms
  PROVE  \/ Kept(arm)
         \/ (MakeDir /\ arm = Arm /\ dirs'[arm] = EmptyDir(loaded))
         \/ (Write /\ arm = Arm /\ Grown(arm))
         \/ (~Running /\ dirs'[arm] = NoDir)
<1>1. Arm \in Arms /\ dirs \in [Arms -> RunDirs \cup {NoDir}]
  BY CurrentArm DEF Inv, Typed
<1>2. CASE UNCHANGED dirs
  BY <1>2 DEF Kept, SameContents
<1>3. CASE MakeDir
  BY <1>1, <1>3 DEF MakeDir, Kept, SameContents
<1>4. CASE Write
  BY <1>4, WriteGrows DEF Kept, SameContents
<1>5. CASE Torn
  BY <1>5, TornFile DEF Kept
<1>6. CASE Disturb
  BY <1>6, Disturbed DEF Kept
<1>7. ASSUME NEW other \in Arms, Remove(other)
      PROVE  Kept(arm) \/ (~Running /\ dirs'[arm] = NoDir)
  BY <1>1, <1>7 DEF Remove, Kept, SameContents
<1>8. QED
  BY <1>2, <1>3, <1>4, <1>5, <1>6, <1>7 DEF Next, Refuse, Start, RunCohort,
     LogComplete, Raise, End, Edit, Commit, Authorize, ClearRemnant, Relocate

\* An arm's directory once complete is complete until it is removed.
LEMMA CompleteStays ==
  ASSUME Inv, Next, NEW arm \in Arms, Complete(arm), dirs'[arm].made
  PROVE  Complete(arm)'
<1>1. CASE Kept(arm)
  BY <1>1, CompleteByContents DEF Kept
<1>2. CASE MakeDir /\ arm = Arm
  <2>1. ~dirs[arm].made
    BY <1>2, CurrentArm DEF MakeDir, Inv, InOrder, Typed, Arm
  <2>2. QED
    BY <2>1 DEF Complete
<1>3. CASE Grown(arm)
  BY <1>3 DEF Grown, Complete
<1>4. CASE dirs'[arm] = NoDir
  BY <1>4 DEF NoDir
<1>5. QED
  BY <1>1, <1>2, <1>3, <1>4, DirChanges

\* A directory is made for the current arm only, when it has none yet.
LEMMA MadeBefore ==
  ASSUME Inv, Next, NEW arm \in Arms, dirs'[arm].made
  PROVE  \/ dirs[arm].made
         \/ MakeDir /\ arm = Arm /\ ~dirs[arm].made /\ dirs'[arm].written = {}
<1>1. CASE Kept(arm)
  BY <1>1 DEF Kept, SameContents
<1>2. CASE MakeDir /\ arm = Arm /\ dirs'[arm] = EmptyDir(loaded)
  <2>1. ~dirs[arm].made
    BY <1>2, CurrentArm DEF MakeDir, Inv, InOrder, Typed, Arm
  <2>2. QED
    BY <1>2, <2>1 DEF EmptyDir
<1>3. CASE Write /\ arm = Arm
  BY <1>3 DEF Write, Inv, Filling
<1>4. CASE dirs'[arm] = NoDir
  BY <1>4 DEF NoDir
<1>5. QED
  BY <1>1, <1>2, <1>3, <1>4, DirChanges

\* Where the session stands changes by its start and by a finished arm only.
LEMMA Position ==
  ASSUME Next
  PROVE  \/ Start \/ LogComplete
         \/ /\ index' = index /\ Arm' = Arm
            /\ stage' \in {"arm", "cohort"} => stage \in {"arm", "cohort"}
BY DEF Next, Refuse, RunCohort, MakeDir, Write, Raise, End, Edit, Commit,
       Authorize, ClearRemnant, Relocate, Remove, Leave, process, Arm

-----------------------------------------------------------------------------
\* The run parameters seal a directory.
LEMMA SealKept ==
  ASSUME Inv, Next
  PROVE  RunParamsSealTheDirectory'
<1> SUFFICES ASSUME NEW arm \in Arms,
                    "run_params.json" \in dirs'[arm].written
             PROVE  Complete(arm)' /\ dirs'[arm].torn = {}
  BY DEF RunParamsSealTheDirectory
<1>1. "run_params.json" \in dirs[arm].written =>
        Complete(arm) /\ dirs[arm].torn = {}
  BY DEF Inv, RunParamsSealTheDirectory
<1>2. CASE Kept(arm)
  <2>1. Complete(arm) /\ dirs[arm].torn = {}
    BY <1>1, <1>2 DEF Kept, SameContents
  <2>2. Complete(arm)'
    BY <1>2, <2>1, CompleteByContents DEF Kept
  <2>3. dirs'[arm].torn = dirs[arm].torn
    <3>1. SUFFICES ASSUME dirs'[arm].torn # dirs[arm].torn
                   PROVE  FALSE
      OBVIOUS
    <3>2. arm = Arm /\ stage = "files" /\ left # <<>>
      BY <1>2, <3>1 DEF Kept
    <3>3. QED
      BY <2>1, <3>2, CompleteWhenAllWritten
  <2>4. QED
    BY <2>1, <2>2, <2>3
<1>3. CASE dirs'[arm] = EmptyDir(loaded)
  BY <1>3 DEF EmptyDir
<1>4. CASE Write /\ arm = Arm /\ Grown(arm)
  <2>1. stage = "files" /\ left # <<>> /\ stage' = "files"
    BY <1>4 DEF Write, process
  <2>2. dirs'[arm].torn = {}
    BY <1>4, <2>1 DEF Grown, Inv, Filling
  <2>3. Head(left) = "run_params.json"
    BY <1>4, <2>1, CompleteWhenAllWritten DEF Grown
  <2>4. Done + 1 = Len(FilesOf(Arm))
    <3>1. /\ Head(left) = FilesOf(Arm)[Done + 1]
          /\ Done + 1 \in DOMAIN FilesOf(Arm)
      BY <2>1, NextFile
    <3>2. QED
      BY <2>3, <3>1, FilesInOrder DEF Injective
  <2>5. \A k \in DOMAIN FilesOf(Arm) : FilesOf(Arm)[k] \in dirs'[arm].written
    <3>1. dirs'[arm].written = {FilesOf(Arm)[k] : k \in 1..(Done + 1)}
      BY <1>4, <2>1, NextFile DEF Grown
    <3>2. QED
      BY <2>4, <3>1, FilesInOrder
  <2>6. Complete(arm)'
    BY <1>4, <2>5 DEF Complete, Grown
  <2>7. QED
    BY <2>2, <2>6
<1>5. CASE dirs'[arm] = NoDir
  BY <1>5 DEF NoDir
<1>6. QED
  BY <1>2, <1>3, <1>4, <1>5, DirChanges

\* The files of the current arm are written in order.
LEMMA FillingKept ==
  ASSUME Inv, Next
  PROVE  Filling'
<1> SUFFICES ASSUME stage' = "files"
             PROVE  /\ dirs'[Arm'].made /\ dirs'[Arm'].torn = {}
                    /\ Done' \in Nat
                    /\ \A k \in DOMAIN left' : left'[k] = FilesOf(Arm')[Done' + k]
                    /\ dirs'[Arm'].written = {FilesOf(Arm')[k] : k \in 1..Done'}
  BY DEF Filling
<1>1. Arm \in Arms /\ dirs \in [Arms -> RunDirs \cup {NoDir}]
  BY CurrentArm DEF Inv, Typed
<1>2. Len(FilesOf(Arm)) \in Nat /\ DOMAIN FilesOf(Arm) = 1..Len(FilesOf(Arm))
  BY FilesInOrder
<1>3. CASE MakeDir
  <2>1. Arm' = Arm /\ dirs'[Arm] = EmptyDir(loaded) /\ left' = FilesOf(Arm)
    BY <1>1, <1>3 DEF MakeDir, Arm
  <2>2. Done' = 0
    BY <1>2, <2>1 DEF Done
  <2>3. \A k \in DOMAIN left' : left'[k] = FilesOf(Arm)[0 + k]
    BY <1>2, <2>1
  <2>4. dirs'[Arm].written = {FilesOf(Arm)[k] : k \in 1..0}
    BY <2>1 DEF EmptyDir
  <2>5. dirs'[Arm].made /\ dirs'[Arm].torn = {}
    BY <2>1 DEF EmptyDir
  <2>6. QED
    BY <2>1, <2>2, <2>3, <2>4, <2>5
<1>4. CASE Write
  <2>1. /\ Arm' = Arm /\ left' = Tail(left)
        /\ stage = "files" /\ left # <<>>
    BY <1>4 DEF Write, Arm, process
  <2>2. Grown(Arm)
    BY <1>4, WriteGrows
  <2>3. Done' = Done + 1 /\ Done \in Nat
    <3>1. /\ Len(left') = Len(left) - 1 /\ Len(left) \in Nat
      BY <2>1, NextFile, LenProperties DEF Inv, Typed
    <3>2. QED
      BY <1>2, <2>1, <3>1 DEF Inv, Filling, Done
  <2>4. dirs'[Arm].made /\ dirs'[Arm].torn = {}
    BY <2>1, <2>2 DEF Grown, Inv, Filling
  <2>5. dirs'[Arm].written = {FilesOf(Arm)[k] : k \in 1..(Done + 1)}
    BY <2>1, <2>2, NextFile DEF Grown
  <2>6. \A k \in DOMAIN left' : left'[k] = FilesOf(Arm)[Done + 1 + k]
    BY <2>1, NextFile
  <2>7. QED
    BY <2>1, <2>3, <2>4, <2>5, <2>6
<1>5. CASE Authorize \/ Edit \/ Commit
  <2>1. stage = "files" /\ index' = index /\ left' = left
    BY <1>5 DEF Authorize, Edit, Commit, process
  <2>2. Arm' = Arm /\ Done' = Done
    BY <2>1 DEF Arm, Done
  <2>3. SameContents(Arm) /\ dirs'[Arm].torn = dirs[Arm].torn
    BY <1>1, <1>5, Disturbed DEF Authorize, Edit, Commit, SameContents
  <2>4. QED
    BY <2>1, <2>2, <2>3 DEF Inv, Filling, SameContents
<1>6. QED
  BY <1>3, <1>4, <1>5 DEF Next, Refuse, Start, RunCohort, LogComplete, Raise,
     End, Leave, ClearRemnant, Relocate, Remove, process, Running

\* The arms are started in order, each when those before it are through.
LEMMA OrderKept ==
  ASSUME Inv, Next
  PROVE  InOrder'
<1> SUFFICES ASSUME NEW k \in DOMAIN HOLDOUT_ARMS, NEW arm, arm = HOLDOUT_ARMS[k],
                    dirs'[arm].made
             PROVE  /\ k < index' => Complete(arm)'
                    /\ ~(k > index')
                    /\ ~(k = index' /\ stage' \in {"arm", "cohort"})
  BY DEF InOrder
<1>1. /\ arm \in Arms /\ k \in Nat /\ index \in Nat
      /\ arm = Arm <=> k = index
  BY CurrentArm, HoldoutArms DEF Inv
<1>2. /\ k < index /\ dirs[arm].made => Complete(arm)
      /\ k > index => ~dirs[arm].made
      /\ k = index /\ stage \in {"arm", "cohort"} => ~dirs[arm].made
  BY DEF Inv, InOrder
<1>3. CASE Start
  BY <1>1, <1>3, Admitted DEF Start
<1>4. CASE LogComplete
  <2>1. dirs' = dirs /\ stage = "files" /\ left = <<>>
    BY <1>4 DEF LogComplete, AllWritten
  <2>2. Complete(Arm)
    BY <2>1, CompleteWhenAllWritten
  <2>3. k = index => Complete(arm)'
    BY <1>1, <2>1, <2>2, CompleteStays
  <2>4. k < index => Complete(arm)'
    BY <1>1, <1>2, <2>1, CompleteStays
  <2>5. ~(k > index)
    BY <1>2, <2>1
  <2>6. \/ index' = index + 1
        \/ index' = index /\ stage' = "idle"
    BY <1>4 DEF LogComplete, Leave
  <2>7. QED
    BY <1>1, <2>3, <2>4, <2>5, <2>6
<1>5. CASE /\ index' = index
           /\ stage' \in {"arm", "cohort"} => stage \in {"arm", "cohort"}
  <2>1. CASE dirs[arm].made
    BY <1>1, <1>2, <1>5, <2>1, CompleteStays
  <2>2. CASE MakeDir /\ arm = Arm
    BY <1>1, <1>5, <2>2 DEF MakeDir
  <2>3. QED
    BY <1>1, <2>1, <2>2, MadeBefore
<1>6. QED
  BY <1>3, <1>4, <1>5, Position

\* The log tells what became of the session.
LEMMA LogKept ==
  ASSUME Inv, Next
  PROVE  Logged'
<1>1. /\ Arm \in Arms /\ index \in Nat /\ Len(HOLDOUT_ARMS) \in Nat
      /\ DOMAIN HOLDOUT_ARMS = 1..Len(HOLDOUT_ARMS)
      /\ \A k \in DOMAIN HOLDOUT_ARMS :
           /\ k \in Nat /\ HOLDOUT_ARMS[k] \in Arms
           /\ HOLDOUT_ARMS[k] = Arm <=> k = index
      /\ \A arm \in Arms : \E k \in DOMAIN HOLDOUT_ARMS : HOLDOUT_ARMS[k] = arm
      /\ lines \in [Arms -> {"none", "COMPLETE", "CRASHED"}]
  BY CurrentArm, HoldoutArms DEF Inv, Typed
<1>2. /\ CompleteLineMeansArtifacts
      /\ Running => /\ ending = "none"
                    /\ \A k \in DOMAIN HOLDOUT_ARMS :
                         lines[HOLDOUT_ARMS[k]] = IF k < index THEN "COMPLETE"
                                                               ELSE "none"
      /\ ~Running =>
           \/ ending = "done" /\ \A arm \in Arms : lines[arm] = "COMPLETE"
           \/ ending # "done" /\ lines[Arm] # "COMPLETE"
  BY DEF Inv, Logged
<1>3. Running => lines[Arm] = "none"
  BY <1>1, <1>2
<1>4. ASSUME NEW arm \in Arms, lines'[arm] = "COMPLETE", dirs'[arm].made
      PROVE  Complete(arm)'
  <2>1. CASE lines[arm] = "COMPLETE"
    <3>1. CASE dirs[arm].made
      BY <1>2, <1>4, <2>1, <3>1, CompleteStays DEF CompleteLineMeansArtifacts
    <3>2. CASE MakeDir /\ arm = Arm
      BY <1>3, <2>1, <3>2 DEF MakeDir, Running
    <3>3. QED
      BY <1>4, <3>1, <3>2, MadeBefore
  <2>2. CASE lines[arm] # "COMPLETE"
    <3>1. LogComplete /\ arm = Arm
      BY <1>1, <1>4, <2>2 DEF Next, Refuse, Start, RunCohort, MakeDir, Write,
         LogComplete, Raise, End, Edit, Commit, Authorize, ClearRemnant,
         Relocate, Remove
    <3>2. Complete(arm)
      BY <3>1, CompleteWhenAllWritten DEF LogComplete, AllWritten
    <3>3. QED
      BY <1>4, <3>2, CompleteStays
  <2>3. QED
    BY <2>1, <2>2
<1>5. CompleteLineMeansArtifacts'
  BY <1>4 DEF CompleteLineMeansArtifacts
<1> DEFINE InSession == stage # "idle" =>
             /\ ending = "none"
             /\ \A k \in DOMAIN HOLDOUT_ARMS :
                  lines[HOLDOUT_ARMS[k]] = IF k < index THEN "COMPLETE" ELSE "none"
           Over == stage = "idle" =>
             \/ ending = "done" /\ \A arm \in Arms : lines[arm] = "COMPLETE"
             \/ ending # "done" /\ lines[Arm] # "COMPLETE"
<1>6. InSession /\ Over
  BY <1>2 DEF Running
<1>7. CASE Start
  <2>1. /\ lines' = [arm \in Arms |-> "none"] /\ index' = 1
        /\ stage' = "arm" /\ ending' = "none"
    BY <1>7 DEF Start
  <2>2. QED
    BY <1>1, <1>5, <2>1 DEF Logged, Running
<1>8. CASE LogComplete
  <2>1. /\ stage = "files" /\ lines' = [lines EXCEPT ![Arm] = "COMPLETE"]
        /\ \/ index < Len(HOLDOUT_ARMS) /\ stage' = "arm" /\ index' = index + 1
              /\ ending' = ending
           \/ ~(index < Len(HOLDOUT_ARMS)) /\ stage' = "idle" /\ index' = index
              /\ ending' = "done"
    BY <1>8 DEF LogComplete, AllWritten, Leave
  <2>2. \A k \in DOMAIN HOLDOUT_ARMS :
          lines'[HOLDOUT_ARMS[k]] = IF k < index + 1 THEN "COMPLETE" ELSE "none"
    <3>1. SUFFICES ASSUME NEW k \in DOMAIN HOLDOUT_ARMS
                   PROVE  lines'[HOLDOUT_ARMS[k]]
                            = IF k < index + 1 THEN "COMPLETE" ELSE "none"
      OBVIOUS
    <3>2. CASE k = index
      BY <1>1, <2>1, <3>2
    <3>3. CASE k # index
      BY <1>1, <1>6, <2>1, <3>3
    <3>4. QED
      BY <3>2, <3>3
  <2>3. CASE index < Len(HOLDOUT_ARMS)
    BY <1>5, <1>6, <2>1, <2>2, <2>3 DEF Logged, Running
  <2>4. CASE ~(index < Len(HOLDOUT_ARMS))
    <3>1. \A arm \in Arms : lines'[arm] = "COMPLETE"
      BY <1>1, <2>2, <2>4
    <3>2. QED
      BY <1>5, <2>1, <2>4, <3>1 DEF Logged, Running
  <2>5. QED
    BY <2>3, <2>4
<1>9. CASE Raise
  <2>1. /\ lines'[Arm] = "CRASHED" /\ stage' = "idle" /\ ending' = "raised"
        /\ Arm' = Arm
    BY <1>1, <1>9 DEF Raise, Leave, Arm
  <2>2. QED
    BY <1>5, <2>1 DEF Logged, Running
<1>10. CASE End
  <2>1. /\ lines' = lines /\ stage' = "idle" /\ ending' \in Endings
        /\ Arm' = Arm /\ Running
    BY <1>10 DEF End, Leave, Arm
  <2>2. ending' # "done"
    BY <2>1, SessionAssumption
  <2>3. QED
    BY <1>3, <1>5, <2>1, <2>2 DEF Logged, Running
<1>11. CASE UNCHANGED <<lines, index, ending>> /\ (stage' = "idle" <=> stage = "idle")
  <2>1. Arm' = Arm
    BY <1>11 DEF Arm
  <2>2. QED
    BY <1>5, <1>6, <1>11, <2>1 DEF Logged, Running
<1>12. QED
  BY <1>7, <1>8, <1>9, <1>10, <1>11 DEF Next, Refuse, RunCohort, MakeDir, Write,
     Edit, Commit, Authorize, ClearRemnant, Relocate, Remove, process

\* What was checked at the start stays true while nobody edits or commits.
LEMMA UndisturbedKept ==
  ASSUME Inv, Next
  PROVE  Undisturbed'
<1>1. /\ Running /\ ~session.disturbed =>
           committed = "frozen" /\ worktree = "frozen" /\ head = session.head
      /\ stage = "cohort" /\ ~session.disturbed => loaded = "frozen"
      /\ stage = "files" /\ dirs[Arm].calm =>
           ~session.disturbed /\ dirs[Arm].session = session.head
      /\ Arm \in Arms
      /\ dirs \in [Arms -> RunDirs \cup {NoDir}]
  BY CurrentArm DEF Inv, Undisturbed, Typed
<1>2. CASE Start
  BY <1>2, Admitted DEF Start, Undisturbed, Running, repository
<1>3. CASE RunCohort
  BY <1>1, <1>3 DEF RunCohort, Undisturbed, Running, repository
<1>4. CASE MakeDir
  <2>1. Arm' = Arm /\ dirs'[Arm] = EmptyDir(loaded)
    BY <1>1, <1>4 DEF MakeDir, Arm
  <2>2. dirs'[Arm].calm = ~session.disturbed /\ dirs'[Arm].session = session.head
    BY <2>1 DEF EmptyDir
  <2>3. QED
    BY <1>1, <1>4, <2>1, <2>2 DEF MakeDir, Undisturbed, Running, repository
<1>5. CASE Write
  <2>1. Arm' = Arm /\ Grown(Arm)
    BY <1>5, WriteGrows DEF Write, Arm
  <2>2. QED
    BY <1>1, <1>5, <2>1 DEF Write, Grown, Undisturbed, Running, repository
<1>6. CASE LogComplete
  BY <1>1, <1>6 DEF LogComplete, AllWritten, Leave, Undisturbed, Running, repository
<1>7. CASE Raise \/ End
  BY <1>7 DEF Raise, End, Leave, Undisturbed, Running
<1>8. CASE Edit \/ Commit
  <2>1. /\ session'.disturbed <=> Running \/ session.disturbed
        /\ stage' = stage /\ Arm' = Arm
        /\ SameContents(Arm)
        /\ dirs[Arm].made /\ dirs'[Arm].calm => ~Running
    BY <1>1, <1>8, Disturbed DEF Edit, Commit, process, Arm
  <2>2. stage = "files" => dirs[Arm].made
    BY DEF Inv, Filling
  <2>3. QED
    BY <2>1, <2>2 DEF Undisturbed, Running
<1>9. CASE Authorize
  BY <1>1, <1>9 DEF Authorize, Undisturbed, Running, process, Arm
<1>10. CASE Refuse \/ ClearRemnant \/ Relocate
  BY <1>10 DEF Refuse, ClearRemnant, Relocate, Remove, Undisturbed, Running, process
<1>11. QED
  BY <1>2, <1>3, <1>4, <1>5, <1>6, <1>7, <1>8, <1>9, <1>10 DEF Next

\* A run nobody disturbed is one of the frozen surface.
LEMMA FrozenKept ==
  ASSUME Inv, Next
  PROVE  OnlyTheFrozenSurfaceRuns'
<1> SUFFICES ASSUME NEW arm \in Arms, dirs'[arm].made, dirs'[arm].calm
             PROVE  /\ dirs'[arm].ran = "frozen"
                    /\ "manifest.json" \in dirs'[arm].written =>
                         dirs'[arm].manifest
                           = [config |-> "frozen", git_sha |-> dirs'[arm].session]
  BY DEF OnlyTheFrozenSurfaceRuns
<1>1. dirs[arm].made /\ dirs[arm].calm =>
        /\ dirs[arm].ran = "frozen"
        /\ "manifest.json" \in dirs[arm].written =>
             dirs[arm].manifest
               = [config |-> "frozen", git_sha |-> dirs[arm].session]
  BY DEF Inv, OnlyTheFrozenSurfaceRuns
<1>2. CASE Kept(arm)
  BY <1>1, <1>2 DEF Kept, SameContents
<1>3. CASE MakeDir /\ arm = Arm /\ dirs'[arm] = EmptyDir(loaded)
  <2>1. dirs'[arm].ran = loaded /\ dirs'[arm].written = {}
    BY <1>3 DEF EmptyDir
  <2>2. loaded = "frozen"
    <3>1. EmptyDir(loaded).calm = (~session.disturbed)
      BY DEF EmptyDir
    <3>2. ~session.disturbed
      BY <1>3, <3>1
    <3>3. QED
      BY <1>3, <3>2 DEF MakeDir, Inv, Undisturbed
  <2>3. QED
    BY <2>1, <2>2
<1>4. CASE Write /\ arm = Arm /\ Grown(arm)
  <2>1. /\ stage = "files" /\ dirs[arm].made /\ dirs[arm].calm
        /\ dirs'[arm].session = dirs[arm].session
        /\ dirs'[arm].ran = dirs[arm].ran
    BY <1>4 DEF Write, Grown, Inv, Filling
  <2>2. worktree = "frozen" /\ head = dirs[arm].session
    BY <1>4, <2>1 DEF Inv, Undisturbed, Running
  <2>3. CASE Head(left) = "manifest.json"
    BY <1>1, <1>4, <2>1, <2>2, <2>3 DEF Grown, Manifest
  <2>4. CASE Head(left) # "manifest.json"
    BY <1>1, <1>4, <2>1, <2>4 DEF Grown, Manifest
  <2>5. QED
    BY <2>3, <2>4
<1>5. CASE dirs'[arm] = NoDir
  BY <1>5 DEF NoDir
<1>6. QED
  BY <1>2, <1>3, <1>4, <1>5, DirChanges

\* The entry of a session is committed before HEAD is another commit.
LEMMA AccountKept ==
  ASSUME Inv, Next
  PROVE  Accounted'
<1>1. /\ used \subseteq 1..head
      /\ head \in used => unsaved
      /\ head \in Nat /\ 1 <= head
  <2>1. head \in 1..MaxHead /\ MaxHead \in Nat
    BY SessionAssumption DEF Inv, Typed
  <2>2. QED
    BY <2>1 DEF Inv, Accounted
<1>2. CASE Start
  BY <1>1, <1>2 DEF Start, Accounted, repository
<1>3. CASE Commit
  <2>1. head' = head + 1 /\ used' = used
    BY <1>3 DEF Commit
  <2>2. used' \subseteq 1..head' /\ head' \notin used'
    BY <1>1, <2>1
  <2>3. QED
    BY <2>2 DEF Accounted
<1>4. CASE /\ head' = head /\ used' = used
           /\ unsaved => unsaved'
  BY <1>1, <1>4 DEF Accounted
<1>5. ASSUME NEW arm, Remove(arm)
      PROVE  Accounted'
  <2>1. head' = head /\ used' = used /\ (unsaved => unsaved')
    BY <1>5 DEF Remove, repository
  <2>2. QED
    BY <1>4, <2>1
<1>6. CASE ClearRemnant \/ Relocate
  BY <1>5, <1>6 DEF ClearRemnant, Relocate
<1>7. QED
  BY <1>2, <1>3, <1>4, <1>6 DEF Next, Refuse, RunCohort, MakeDir, Write,
     LogComplete, Raise, End, Edit, Authorize, repository

-----------------------------------------------------------------------------
\* The invariant holds when a behaviour starts.
LEMMA InvInitially == Init => Inv
<1> SUFFICES ASSUME Init PROVE Inv
  OBVIOUS
<1>1. /\ DOMAIN HOLDOUT_ARMS = 1..Len(HOLDOUT_ARMS)
      /\ Len(HOLDOUT_ARMS) \in Nat \ {0}
      /\ HOLDOUT_ARMS \in [1..Len(HOLDOUT_ARMS) -> Arms]
  BY HoldoutArms, LenProperties
<1>2. /\ \A arm \in Arms : dirs[arm] = NoDir /\ lines[arm] = "none"
      /\ Arm \in Arms
      /\ stage = "idle" /\ ending = "none" /\ used = {}
  BY <1>1 DEF Init, Arm
<1>3. Typed
  <2>1. head \in 1..MaxHead /\ tag \in 0..head
    BY SessionAssumption DEF Init
  <2>2. session \in [head : 0..MaxHead, disturbed : BOOLEAN]
    BY SessionAssumption DEF Init
  <2>3. index \in DOMAIN HOLDOUT_ARMS /\ left \in Seq(Files)
    BY <1>1, EmptySeq DEF Init
  <2>4. QED
    BY <2>1, <2>2, <2>3 DEF Init, Typed, Surfaces
<1>4. Filling /\ Undisturbed
  BY <1>2 DEF Filling, Undisturbed, Running
<1>5. RunParamsSealTheDirectory /\ InOrder /\ OnlyTheFrozenSurfaceRuns
  BY <1>1, <1>2 DEF RunParamsSealTheDirectory, InOrder,
     OnlyTheFrozenSurfaceRuns, NoDir
<1>6. Logged
  BY <1>2 DEF Logged, CompleteLineMeansArtifacts, Running
<1>7. Accounted
  BY <1>2 DEF Accounted
<1>8. QED
  BY <1>3, <1>4, <1>5, <1>6, <1>7 DEF Inv

\* Every step keeps it.
LEMMA InvKept == Inv /\ [Next]_vars => Inv'
<1>1. ASSUME Inv, Next
      PROVE  Inv'
  BY <1>1, StepsAreTyped, FillingKept, SealKept, OrderKept, LogKept,
     UndisturbedKept, FrozenKept, AccountKept DEF Inv
<1>2. ASSUME Inv, UNCHANGED vars
      PROVE  Inv'
  <2> USE <1>2 DEF vars, repository, process
  <2>1. Arm' = Arm /\ (\A arm : Complete(arm)' <=> Complete(arm))
    BY DEF Arm, Complete
  <2>2. Typed'
    BY DEF Inv, Typed
  <2>3. Filling'
    BY <2>1 DEF Inv, Filling, Done
  <2>4. RunParamsSealTheDirectory' /\ OnlyTheFrozenSurfaceRuns'
    BY <2>1 DEF Inv, RunParamsSealTheDirectory, OnlyTheFrozenSurfaceRuns
  <2>5. InOrder'
    BY <2>1 DEF Inv, InOrder
  <2>6. Logged'
    BY <2>1 DEF Inv, Logged, CompleteLineMeansArtifacts, Running
  <2>7. Undisturbed' /\ Accounted'
    BY <2>1 DEF Inv, Undisturbed, Accounted, Running
  <2>8. QED
    BY <2>2, <2>3, <2>4, <2>5, <2>6, <2>7 DEF Inv
<1>3. QED
  BY <1>1, <1>2

\* The session's invariant: the types, how the current arm's files, the lines
\* and the directories of the others stand to each other, and what the checks
\* and the session-start entry leave true.
THEOREM SessionInvariant == Spec => []Inv
<1>1. Init => Inv
  BY InvInitially
<1>2. Inv /\ [Next]_vars => Inv'
  BY InvKept
<1>3. QED
  BY <1>1, <1>2, PTL DEF Spec

\* Types of the repository, the process and the run directories, for every
\* scope and every bound.
THEOREM SessionTypes == Spec => []TypeOK
<1>1. Inv => TypeOK
  <2> SUFFICES ASSUME Inv PROVE TypeOK
    OBVIOUS
  <2>1. \A arm \in Arms :
          dirs[arm].written \subseteq Files /\ dirs[arm].torn \subseteq Files
    BY DirFields DEF Inv
  <2>2. used \subseteq 1..MaxHead
    <3>1. head \in 1..MaxHead /\ MaxHead \in Nat /\ used \subseteq 1..head
      BY SessionAssumption DEF Inv, Typed, Accounted
    <3>2. QED
      BY <3>1
  <2>3. QED
    BY <2>1, <2>2 DEF Inv, Typed, TypeOK
<1>2. QED
  BY <1>1, SessionInvariant, PTL

\* A COMPLETE line stands for a directory with every artifact.
THEOREM CompleteLines == Spec => []CompleteLineMeansArtifacts
<1>1. Inv => CompleteLineMeansArtifacts
  BY DEF Inv, Logged
<1>2. QED
  BY <1>1, SessionInvariant, PTL

\* A directory with run parameters has lost nothing to a failure.
THEOREM RunParamsSeal == Spec => []RunParamsSealTheDirectory
<1>1. Inv => RunParamsSealTheDirectory
  BY DEF Inv
<1>2. QED
  BY <1>1, SessionInvariant, PTL

\* A failure leaves at most one unfinished directory, at the arm it stopped.
THEOREM OneRemnant == Spec => []OneRemnantAtMost
<1>1. Inv => OneRemnantAtMost
  <2> SUFFICES ASSUME Inv, NEW arm \in Arms, dirs[arm].made, ~Complete(arm)
               PROVE  /\ arm = Arm
                      /\ \A k \in DOMAIN HOLDOUT_ARMS :
                           /\ k < index /\ dirs[HOLDOUT_ARMS[k]].made =>
                                Complete(HOLDOUT_ARMS[k])
                           /\ k > index => ~dirs[HOLDOUT_ARMS[k]].made
    BY DEF OneRemnantAtMost
  <2>1. \A k \in DOMAIN HOLDOUT_ARMS :
          /\ k < index /\ dirs[HOLDOUT_ARMS[k]].made => Complete(HOLDOUT_ARMS[k])
          /\ k > index => ~dirs[HOLDOUT_ARMS[k]].made
    BY DEF Inv, InOrder
  <2>2. PICK k \in DOMAIN HOLDOUT_ARMS : HOLDOUT_ARMS[k] = arm
    BY CurrentArm DEF Inv
  <2>3. k \in Nat /\ index \in Nat
    BY CurrentArm, HoldoutArms DEF Inv
  <2>4. k = index
    BY <2>1, <2>2, <2>3
  <2>5. QED
    BY <2>1, <2>2, <2>4 DEF Arm
<1>2. QED
  BY <1>1, SessionInvariant, PTL

\* Undisturbed, a session runs the frozen surface and its manifests say so.
THEOREM FrozenSurface == Spec => []OnlyTheFrozenSurfaceRuns
<1>1. Inv => OnlyTheFrozenSurfaceRuns
  BY DEF Inv
<1>2. QED
  BY <1>1, SessionInvariant, PTL

\* No commit is run twice: the session-start entry has to be committed first.
THEOREM AttemptsAreAuthorized == Spec => EveryAttemptIsAuthorizedAnew
<1>1. ASSUME Inv, Next, stage = "idle", stage' = "arm"
      PROVE  head \notin used
  <2>1. Start
    BY <1>1 DEF Next, Refuse, RunCohort, MakeDir, Write, LogComplete, AllWritten,
       Raise, End, Leave, Edit, Commit, Authorize, ClearRemnant, Relocate,
       Remove, process
  <2>2. ~unsaved
    BY <2>1, Admitted DEF Start
  <2>3. QED
    BY <1>1, <2>2 DEF Inv, Accounted
<1>2. Inv /\ [Next]_vars =>
        [stage = "idle" /\ stage' = "arm" => head \notin used]_vars
  BY <1>1
<1>3. QED
  BY <1>2, SessionInvariant, PTL DEF Spec, EveryAttemptIsAuthorizedAnew

\* The end of a session says what it did: "done" exactly when every arm has its
\* COMPLETE line (the half of EverySessionEnds that is no liveness).
THEOREM EndingIsTrue ==
  Spec => [](~Running => (ending = "done" <=>
                            \A arm \in Arms : lines[arm] = "COMPLETE"))
<1>1. Inv => (~Running => (ending = "done" <=>
                             \A arm \in Arms : lines[arm] = "COMPLETE"))
  BY CurrentArm DEF Inv, Logged
<1>2. QED
  BY <1>1, SessionInvariant, PTL

=============================================================================
