---------------------------- MODULE HoldoutSession ----------------------------
(***************************************************************************)
(* The guarded holdout execution (scripts/run_holdout.py), the artifact    *)
(* protocol of an arm (eval/arms.run_official_arm) and the repository they *)
(* run in: HEAD, the authorization tag, the working tree and the run       *)
(* directories, which outlive the process.                                 *)
(*                                                                         *)
(* The process may raise or be ended at any point; the operator edits,     *)
(* commits and moves the tag whenever they like, and between sessions      *)
(* removes run directories as the retry policy of results/holdout_runs.md  *)
(* and the script's refusal message tell them.  HEAD only moves forward    *)
(* and the freeze and spec tags never move.                                *)
(***************************************************************************)
EXTENDS Integers, Sequences, FiniteSets

CONSTANTS
  Scope,         \* bound: the arms of HOLDOUT_ARMS that are run
  Endings,       \* how the process can end without reaching its handlers
  MaxSessions,   \* bound: sessions that get past the preconditions
  MaxHead        \* bound: commits

InScope(arm) == IF arm \in Scope THEN <<arm>> ELSE <<>>
HOLDOUT_ARMS == InScope("A0") \o InScope("A1") \o InScope("A2_STRENGTHENED")
                \o InScope("A3-D") \o InScope("A4")
Arms == {HOLDOUT_ARMS[k] : k \in DOMAIN HOLDOUT_ARMS}

ASSUME SessionAssumption ==
  /\ Arms = Scope /\ Scope # {}
  /\ Endings \subseteq {"KeyboardInterrupt", "killed"}
  /\ MaxSessions \in Nat \ {0}
  /\ MaxHead \in Nat \ {0}

VARIABLES
  head,       \* the commit HEAD names
  tag,        \* the commit holdout-authorized-latest names
  committed,  \* evaluation surface at HEAD: "frozen" or "edited"
  worktree,   \* evaluation surface on disk
  unsaved,    \* the log or a run directory differs from HEAD
  dirs,       \* run directory of each arm, NoDir if there is none
  lines,      \* outcome line of each arm in the session's part of the log
  stage,      \* "idle", "arm", "cohort" or "files"
  index,      \* position in HOLDOUT_ARMS
  left,       \* files the current arm has still to write
  loaded,     \* surface the current arm was run on
  refusal,    \* why the last invocation was refused
  ending,     \* how the last session ended
  session,    \* history: commit of the session, and whether anybody edited
              \* or committed since its checks
  used        \* history: commits sessions have run at

repository == <<head, tag, committed, worktree>>
process    == <<stage, index, left, loaded>>
vars == <<repository, unsaved, dirs, lines, process, refusal, ending,
          session, used>>

Surfaces == {"frozen", "edited"}
Files    == {"ledger.jsonl", "episode_results.jsonl", "metrics.json",
             "manifest.json", "run_params.json"}

\* Mutant: the run parameters before the manifest.
FilesOfParamsFirst(arm) ==
  (IF arm = "A3-D" THEN <<"ledger.jsonl">> ELSE <<>>)
  \o <<"episode_results.jsonl", "metrics.json", "run_params.json",
       "manifest.json">>

\* What an arm writes, in order; only A3-D has a ledger.
FilesOf(arm) ==
  (IF arm = "A3-D" THEN <<"ledger.jsonl">> ELSE <<>>)
  \o <<"episode_results.jsonl", "metrics.json", "manifest.json",
       "run_params.json">>

NoDir      == [made |-> FALSE, written |-> {}, torn |-> {}]
NoManifest == [config |-> "none", git_sha |-> 0]
EmptyDir(surface) ==
  [made |-> TRUE, written |-> {}, torn |-> {}, ran |-> surface,
   manifest |-> NoManifest, session |-> session.head, calm |-> ~session.disturbed]

Arm     == HOLDOUT_ARMS[index]
Running == stage # "idle"

Init ==
  /\ head = 1 /\ tag = 0
  /\ committed \in Surfaces /\ worktree = committed
  /\ unsaved = FALSE
  /\ dirs = [arm \in Arms |-> NoDir]
  /\ lines = [arm \in Arms |-> "none"]
  /\ stage = "idle" /\ index = 1 /\ left = <<>> /\ loaded = "frozen"
  /\ refusal = "none" /\ ending = "none"
  /\ session = [head |-> 0, disturbed |-> FALSE]
  /\ used = {}

(***************************************************************************)
(* Starting: the preconditions in the order they are checked.              *)
(***************************************************************************)
\* Mutant: untracked and modified files are not looked at.
CleanIgnored == TRUE

\* git status --porcelain is empty.
Clean == ~unsaved /\ worktree = committed

\* Mutant: the surface is not compared with the freeze.
SurfaceIgnored == TRUE
SurfaceUnchanged == committed = "frozen"

Existing == {arm \in Arms : dirs[arm].made}

Refusal ==
  CASE ~Clean                                       -> "working tree"
    [] Clean /\ ~SurfaceUnchanged                   -> "surface"
    [] Clean /\ SurfaceUnchanged /\ tag # head      -> "tag"
    [] Clean /\ SurfaceUnchanged /\ tag = head /\ Existing # {}
                                                    -> "directories"
    [] OTHER                                        -> "none"

Refuse ==
  /\ ~Running
  /\ Refusal # "none"
  /\ refusal' = Refusal
  /\ UNCHANGED <<repository, unsaved, dirs, lines, process, ending, session,
                 used>>

\* The session-start entry goes to a file under version control.
Start ==
  /\ ~Running
  /\ Refusal = "none"
  /\ Cardinality(used) < MaxSessions
  /\ refusal' = "none"
  /\ ending' = "none"
  /\ unsaved' = TRUE
  /\ lines' = [arm \in Arms |-> "none"]
  /\ stage' = "arm" /\ index' = 1
  /\ session' = [head |-> head, disturbed |-> FALSE]
  /\ used' = used \cup {head}
  /\ UNCHANGED <<repository, dirs, left, loaded>>

(***************************************************************************)
(* One arm: run_official_arm.                                              *)
(***************************************************************************)
\* load_configs and run_arm_cohort; nothing is on disk yet.
RunCohort ==
  /\ stage = "arm"
  /\ ~dirs[Arm].made
  /\ loaded' = worktree
  /\ stage' = "cohort"
  /\ UNCHANGED <<repository, unsaved, dirs, lines, index, left, refusal,
                 ending, session, used>>

MakeDir ==
  /\ stage = "cohort"
  /\ dirs' = [dirs EXCEPT ![Arm] = EmptyDir(loaded)]
  /\ left' = FilesOf(Arm)
  /\ stage' = "files"
  /\ UNCHANGED <<repository, unsaved, lines, index, loaded, refusal, ending,
                 session, used>>

\* Commit and configuration hash are read when the manifest is written.
Manifest(file, old) ==
  IF file = "manifest.json" THEN [config |-> worktree, git_sha |-> head] ELSE old

Write ==
  /\ stage = "files" /\ left # <<>>
  /\ LET file == Head(left)
     IN dirs' = [dirs EXCEPT ![Arm].written = @ \cup {file},
                             ![Arm].manifest = Manifest(file, @)]
  /\ left' = Tail(left)
  /\ UNCHANGED <<repository, unsaved, lines, stage, index, loaded, refusal,
                 ending, session, used>>

\* Mutant: the line is appended once all but the last file are there.
NearlyAllWritten == stage = "files" /\ Len(left) <= 1

AllWritten == stage = "files" /\ left = <<>>

Leave(how) == stage' = "idle" /\ ending' = how /\ UNCHANGED index

\* Mutant: the loop goes one arm too far.
LogCompleteTooFar ==
  /\ AllWritten
  /\ lines' = [lines EXCEPT ![Arm] = "COMPLETE"]
  /\ unsaved' = TRUE
  /\ left' = <<>>
  /\ stage' = "arm" /\ index' = index + 1
  /\ UNCHANGED <<repository, dirs, loaded, refusal, ending, session, used>>

LogComplete ==
  /\ AllWritten
  /\ lines' = [lines EXCEPT ![Arm] = "COMPLETE"]
  /\ unsaved' = TRUE
  /\ left' = <<>>
  /\ IF index < Len(HOLDOUT_ARMS)
     THEN stage' = "arm" /\ index' = index + 1 /\ UNCHANGED ending
     ELSE Leave("done")
  /\ UNCHANGED <<repository, dirs, loaded, refusal, session, used>>

(***************************************************************************)
(* Failures.  A file that was being written may be left torn.              *)
(***************************************************************************)
Torn ==
  \/ UNCHANGED dirs
  \/ /\ stage = "files" /\ left # <<>>
     /\ dirs' = [dirs EXCEPT ![Arm].torn = @ \cup {Head(left)}]

\* Mutant: the failure is logged and the next arm started.
RaiseSwallowed ==
  /\ Running
  /\ Torn
  /\ lines' = [lines EXCEPT ![Arm] = "CRASHED"]
  /\ unsaved' = TRUE
  /\ left' = <<>>
  /\ IF index < Len(HOLDOUT_ARMS)
     THEN stage' = "arm" /\ index' = index + 1 /\ UNCHANGED ending
     ELSE Leave("raised")
  /\ UNCHANGED <<repository, loaded, refusal, session, used>>

\* Mutant: the failed arm is logged and tried again.
RaiseRetried ==
  /\ Running
  /\ Torn
  /\ lines' = [lines EXCEPT ![Arm] = "CRASHED"]
  /\ unsaved' = TRUE
  /\ left' = <<>>
  /\ stage' = "arm" /\ UNCHANGED <<index, ending>>
  /\ UNCHANGED <<repository, loaded, refusal, session, used>>

\* An Exception inside run_official_arm is logged and raised again.
Raise ==
  /\ Running
  /\ Torn
  /\ lines' = [lines EXCEPT ![Arm] = "CRASHED"]
  /\ unsaved' = TRUE
  /\ left' = <<>>
  /\ Leave("raised")
  /\ UNCHANGED <<repository, loaded, refusal, session, used>>

\* A BaseException that is no Exception, or the end of the process: no line.
End ==
  /\ Running
  /\ Torn
  /\ \E how \in Endings : Leave(how)
  /\ left' = <<>>
  /\ UNCHANGED <<repository, unsaved, lines, loaded, refusal, session, used>>

(***************************************************************************)
(* The operator.                                                           *)
(***************************************************************************)
Disturb ==
  /\ session' = [session EXCEPT !.disturbed = Running \/ @]
  /\ dirs' = [arm \in Arms |->
       IF Running /\ arm = Arm /\ dirs[arm].made
       THEN [dirs[arm] EXCEPT !.calm = FALSE] ELSE dirs[arm]]

Edit ==
  /\ worktree' \in Surfaces \ {worktree}
  /\ Disturb
  /\ UNCHANGED <<head, tag, committed, unsaved, lines, process, refusal,
                 ending, used>>

Commit ==
  /\ ~Clean
  /\ head < MaxHead
  /\ head' = head + 1
  /\ committed' = worktree
  /\ unsaved' = FALSE
  /\ Disturb
  /\ UNCHANGED <<tag, worktree, lines, process, refusal, ending, used>>

Authorize ==
  /\ tag # head
  /\ tag' = head
  /\ UNCHANGED <<head, committed, worktree, unsaved, dirs, lines, process,
                 refusal, ending, session, used>>

\* "complete": every artifact of the arm was written.
Complete(arm) == dirs[arm].made /\ \A k \in DOMAIN FilesOf(arm) :
                                     FilesOf(arm)[k] \in dirs[arm].written

\* git does not see a directory that holds nothing but an ignored ledger.
Tracked(arm) == (dirs[arm].written \cup dirs[arm].torn) \ {"ledger.jsonl"} # {}

Remove(arm) ==
  /\ ~Running
  /\ dirs[arm].made
  /\ dirs' = [dirs EXCEPT ![arm] = NoDir]
  /\ unsaved' = (unsaved \/ Tracked(arm))
  /\ refusal' = "none"
  /\ UNCHANGED <<repository, lines, process, ending, session, used>>

\* The retry policy: the directory of an attempt that did not complete.
ClearRemnant == \E arm \in Arms : ~Complete(arm) /\ Remove(arm)

\* The refusal message: "Remove or relocate them deliberately".
Relocate == refusal = "directories" /\ \E arm \in Arms : Complete(arm) /\ Remove(arm)

Next ==
  \/ Refuse \/ Start
  \/ RunCohort \/ MakeDir \/ Write \/ LogComplete
  \/ Raise \/ End
  \/ Edit \/ Commit \/ Authorize \/ ClearRemnant \/ Relocate

Spec == Init /\ [][Next]_vars

\* The steps of a session that does not fail.
Progress == RunCohort \/ MakeDir \/ Write \/ LogComplete

\* main is one thread without a wait: it takes its next step if nothing ends it.
\* No failure has to happen, and the operator may do anything or nothing.
FairSpec == Spec /\ WF_vars(Progress)

-----------------------------------------------------------------------------
\* Types of the repository, the process and the run directories.
TypeOK ==
  /\ head \in 1..MaxHead /\ tag \in 0..head
  /\ committed \in Surfaces /\ worktree \in Surfaces /\ unsaved \in BOOLEAN
  /\ \A arm \in Arms :
       dirs[arm].written \subseteq Files /\ dirs[arm].torn \subseteq Files
  /\ lines \in [Arms -> {"none", "COMPLETE", "CRASHED"}]
  /\ stage \in {"idle", "arm", "cohort", "files"}
  /\ index \in DOMAIN HOLDOUT_ARMS /\ left \in Seq(Files)
  /\ loaded \in Surfaces
  /\ refusal \in {"none", "working tree", "surface", "tag", "directories"}
  /\ ending \in {"none", "done", "raised"} \cup Endings
  /\ session \in [head : 0..MaxHead, disturbed : BOOLEAN]
  /\ used \subseteq 1..MaxHead

\* A COMPLETE line of the session stands for a directory with every artifact
\* (results/holdout_runs.md's definition of a complete run), whatever happened
\* to the process afterwards; only a deliberate relocation takes it away.
CompleteLineMeansArtifacts ==
  \A arm \in Arms : lines[arm] = "COMPLETE" /\ dirs[arm].made => Complete(arm)

\* Run parameters are the seal of a directory: where they were written, no
\* crash can have lost or torn another artifact.
RunParamsSealTheDirectory ==
  \A arm \in Arms :
    "run_params.json" \in dirs[arm].written =>
      Complete(arm) /\ dirs[arm].torn = {}

\* A failure leaves at most one unfinished directory, on the arm the session
\* stopped at; the arms before it are complete unless the operator moved them
\* and none after it was started.
OneRemnantAtMost ==
  \A arm \in Arms : dirs[arm].made /\ ~Complete(arm) =>
    /\ arm = Arm
    /\ \A k \in DOMAIN HOLDOUT_ARMS :
         LET other == dirs[HOLDOUT_ARMS[k]]
         IN /\ k < index /\ other.made => Complete(HOLDOUT_ARMS[k])
            /\ k > index => ~other.made

\* Unless somebody edits or commits while a session runs, every directory
\* holds a run on the frozen evaluation surface, and its manifest names that
\* surface and the commit that was authorized.
OnlyTheFrozenSurfaceRuns ==
  \A arm \in Arms : dirs[arm].made /\ dirs[arm].calm =>
    /\ dirs[arm].ran = "frozen"
    /\ "manifest.json" \in dirs[arm].written =>
         dirs[arm].manifest = [config |-> "frozen", git_sha |-> dirs[arm].session]

\* No commit is run twice.  Nothing in the script counts attempts: it follows
\* from the session-start entry, which dirties the tree, so that a further
\* attempt needs a commit of the log and the tag moved to it.
EveryAttemptIsAuthorizedAnew ==
  [][stage = "idle" /\ stage' = "arm" => head \notin used]_vars

\* Every session ends, whatever fails in it and whatever the operator does
\* meanwhile, and its end says what it did: "done" exactly when every arm has
\* its COMPLETE line.
EverySessionEnds ==
  Running ~> ~Running /\ (ending = "done" <=>
                            \A arm \in Arms : lines[arm] = "COMPLETE")

\* The script's docstring: "a per-arm outcome line as each arm finishes or
\* raises".  A session over, every arm it started has its line.
EveryArmThatRaisesHasItsLine ==
  ending = "KeyboardInterrupt" => lines[Arm] # "none"

\* The script's docstring: a failed arm is replayed by "clearing that arm's
\* output directory and re-invoking this script": an invocation refused for
\* its directories finds the one of the crashed arm still in place.
ClearedArmCanBeReplayed ==
  refusal = "directories" =>
    \A arm \in Arms : lines[arm] = "CRASHED" => dirs[arm].made

=============================================================================
