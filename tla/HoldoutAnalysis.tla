---------------------------- MODULE HoldoutAnalysis ---------------------------
(***************************************************************************)
(* eval/holdout_analysis.py: load the sealed artifacts of every arm, check *)
(* them, choose the comparator set by the tie rule of eval-spec-v1.7 and   *)
(* judge criteria 2 and 3 on one primary metric.                           *)
(*                                                                         *)
(* What is on disk is chosen when it is read.  Lines can have been lost,   *)
(* repeated, reordered or torn, or belong to another split, and the        *)
(* metrics can be those of another run.  The bootstrap interval is an      *)
(* arbitrary verdict on any two arms whose rates differ; the oracle enters *)
(* no criterion, only a threshold that is reported, and is left out.       *)
(***************************************************************************)
EXTENDS Integers, Sequences, FiniteSets, SequencesExt

CONSTANTS
  Episodes,     \* expected_indices
  Foreign,      \* an index outside the declared range
  MaxLines,     \* bound: lines of an episode_results.jsonl
  ContactsEach  \* bound: contacts of each episode of an arm

ASSUME AnalysisAssumption ==
  /\ Episodes \subseteq Nat /\ IsFiniteSet(Episodes) /\ Episodes # {}
  /\ Foreign \in Nat \ Episodes
  /\ MaxLines \in Nat /\ MaxLines > Cardinality(Episodes)
  /\ ContactsEach \subseteq Nat

BOUNDED_ARMS  == <<"A0", "A1", "A2-strengthened">>
CANDIDATE_ARM == "A3-D"
REQUIRED_ARMS == Append(BOUNDED_ARMS, CANDIDATE_ARM)
Bounded == ToSet(BOUNDED_ARMS)
Arms    == ToSet(REQUIRED_ARMS)

VARIABLES
  truth,      \* history: what the episodes of the loaded arms came to
  data,       \* records of the arms loaded so far, in the order of the file
  comparator, \* leader and tied set, once selected
  verdict,    \* criteria 2 and 3, once judged
  status      \* "loading", "selecting", "judging", "done", "ArtifactError"

vars == <<truth, data, comparator, verdict, status>>

(***************************************************************************)
(* Artifacts.                                                              *)
(***************************************************************************)
\* A line that is not JSON.
Torn == [episode_index |-> Foreign, won |-> FALSE, contacts_sent |-> -1]

Record(run, i) == [episode_index |-> i, won |-> i \in run.won,
                   contacts_sent |-> run.contacts]

FilesOf(run) ==
  LET lines == {Record(run, i) : i \in Episodes \cup {Foreign}} \cup {Torn}
  IN UNION {[1..n -> lines] : n \in 0..MaxLines}

\* recompute_metrics; rates are left as counts of the same n episodes.
Metrics(records) ==
  LET sent[k \in 0..Len(records)] ==
        IF k = 0 THEN 0 ELSE sent[k - 1] + records[k].contacts_sent
  IN [n        |-> Len(records),
      won      |-> Cardinality({k \in DOMAIN records : records[k].won}),
      contacts |-> sent[Len(records)]]

\* The episodes in the order of their indices.
Ascending(f) == \A j, k \in DOMAIN f : j < k => f[j] < f[k]
Order == CHOOSE order \in Bijection(1..Cardinality(Episodes), Episodes) : Ascending(order)
Committed(run) == Metrics([k \in DOMAIN Order |-> Record(run, Order[k])])

Runs == [won : SUBSET Episodes, contacts : ContactsEach]

Readable(file) == file # <<>> /\ Torn \notin ToSet(file)

Indices(file) == {file[k].episode_index : k \in DOMAIN file}

\* Mutant: a file is accepted if it has the right number of records.
RightNumber(file) == Len(file) = Cardinality(Episodes)

\* verify_episode_indices: no duplicate, no gap, no extra.
IndicesVerified(file) ==
  /\ Len(file) = Cardinality(Indices(file))
  /\ Episodes \subseteq Indices(file)
  /\ Indices(file) \subseteq Episodes

(***************************************************************************)
(* Comparisons.                                                            *)
(***************************************************************************)
\* Mutant: the values are taken in the order of the file.
ValuesAsWritten(records) == [k \in DOMAIN records |-> records[k].won]

\* sorted(..., key=episode_index), which keeps equal keys in the order of the file.
ByEpisode(records) ==
  LET index(k) == records[k].episode_index
  IN CHOOSE p \in Bijection(DOMAIN records, DOMAIN records) :
       \A j, k \in DOMAIN records : j < k =>
         \/ index(p[j]) < index(p[k])
         \/ index(p[j]) = index(p[k]) /\ p[j] < p[k]

\* _values_for: sorted by episode, so that arms are paired by position.
Values(records) ==
  LET p == ByEpisode(records)
  IN [k \in DOMAIN records |-> records[p[k]].won]

Rate(arm) == Metrics(data[arm]).won

\* Whether the interval of a difference excludes zero, for arms compared
\* with one of them.
Intervals(arms, one) ==
  {clear \in SUBSET arms : \A arm \in clear : Rate(arm) # Rate(one)}

\* max over the dictionary: the first of the highest.
Leader == CHOOSE arm \in Bounded :
  /\ \A other \in Bounded : Rate(other) <= Rate(arm)
  /\ \E k \in DOMAIN BOUNDED_ARMS :
       BOUNDED_ARMS[k] = arm /\ \A j \in 1..(k - 1) : Rate(BOUNDED_ARMS[j]) < Rate(arm)

\* Mutant: in a tie the leader is left out of the comparator set.
TiedOnly(clear) == IF clear = Bounded \ {Leader} THEN {Leader}
                   ELSE Bounded \ (clear \cup {Leader})

\* The leader and every bounded arm not clearly apart from it.
Tied(clear) == Bounded \ clear

\* The candidate beats a member: excludes_zero and diff > 0.
Beats(arm, clear) == arm \in clear /\ Rate(CANDIDATE_ARM) > Rate(arm)

\* Contacts in all and, where both have any, per win.
NoMoreContacts(arm) ==
  LET c == Metrics(data[CANDIDATE_ARM])
      m == Metrics(data[arm])
  IN /\ c.contacts <= m.contacts
     /\ c.won > 0 /\ m.won > 0 => c.contacts * m.won <= m.contacts * c.won

(***************************************************************************)
(* analyze_holdout.                                                        *)
(***************************************************************************)
Unselected == [leader |-> "none", tied |-> {}]
Unjudged   == [criterion_2 |-> FALSE, criterion_3 |-> FALSE]

Init ==
  /\ truth = [arm \in {} |-> <<>>]
  /\ data = [arm \in {} |-> <<>>]
  /\ comparator = Unselected /\ verdict = Unjudged
  /\ status = "loading"

Loading == status = "loading"
NextArm == REQUIRED_ARMS[Cardinality(DOMAIN data) + 1]

\* load_arm_data: read, verify the indices, recompute, cross-check.
Accepted(file, run) ==
  Readable(file) /\ IndicesVerified(file) /\ Metrics(file) = Committed(run)

Extended(f, arm, value) == [x \in DOMAIN f \cup {arm} |->
                              IF x = arm THEN value ELSE f[x]]

LoadArm ==
  /\ Loading
  /\ \E run \in Runs : \E file \in FilesOf(run) :
       /\ \E other \in Runs : Accepted(file, other)
       /\ truth' = Extended(truth, NextArm, run)
       /\ data' = Extended(data, NextArm, file)
  /\ status' = IF Cardinality(DOMAIN data) + 1 = Len(REQUIRED_ARMS)
               THEN "selecting" ELSE "loading"
  /\ UNCHANGED <<comparator, verdict>>

\* Any check that fails ends the analysis.
Reject ==
  /\ Loading
  /\ ~ \A run, other \in Runs : \A file \in FilesOf(run) : Accepted(file, other)
  /\ status' = "ArtifactError"
  /\ UNCHANGED <<truth, data, comparator, verdict>>

SelectComparator ==
  /\ status = "selecting"
  /\ \E clear \in Intervals(Bounded, Leader) :
       comparator' = [leader |-> Leader, tied |-> Tied(clear)]
  /\ status' = "judging"
  /\ UNCHANGED <<truth, data, verdict>>

Judge ==
  /\ status = "judging"
  /\ \E clear \in Intervals(comparator.tied, CANDIDATE_ARM) :
       verdict' = [criterion_2 |-> \A arm \in comparator.tied : Beats(arm, clear),
                   criterion_3 |-> \A arm \in comparator.tied : NoMoreContacts(arm)]
  /\ status' = "done"
  /\ UNCHANGED <<truth, data, comparator>>

Over == status \in {"done", "ArtifactError"} /\ UNCHANGED vars

Next == LoadArm \/ Reject \/ SelectComparator \/ Judge \/ Over

Spec == Init /\ [][Next]_vars

-----------------------------------------------------------------------------
\* What the comparisons are made of is the run that was made: whatever became
\* of the files, the values of an arm that was accepted are those of its
\* episodes, one each, and paired with the same episodes of every other arm.
AcceptedDataIsTheRun ==
  \A arm \in DOMAIN data :
    Values(data[arm]) =
      [k \in DOMAIN Order |-> Order[k] \in truth[arm].won]

\* The tie rule only adds obligations (EVAL.md: "it can never shrink the
\* comparator set or relax a constraint"): a candidate that passes has a higher
\* rate than every bounded arm, tied or not, and keeps to the contacts, in all
\* and per win, of every arm with the highest rate, whichever of them the order
\* of the dictionary made the leader.
PassingBeatsEveryBoundedArm ==
  /\ verdict.criterion_2 =>
       \A arm \in Bounded :
         Cardinality(truth[arm].won) < Cardinality(truth[CANDIDATE_ARM].won)
  /\ verdict.criterion_3 =>
       \A arm \in Bounded : Rate(arm) = Rate(Leader) => NoMoreContacts(arm)

=============================================================================
