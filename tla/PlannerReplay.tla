---------------------------- MODULE PlannerReplay -----------------------------
(***************************************************************************)
(* A3-LLM's planner and its response cache (agent/planner.py,              *)
(* agent/llm_cache.py): a live run fills the cache, an exhausted quota may *)
(* cut it short and a later run continues with the same cache object, and  *)
(* a finished run is written down and replayed from its file.              *)
(*                                                                         *)
(* The decisions of a run feed back into what it is asked: the world is    *)
(* fixed by its seeds, so the prompt of a decision point is determined by  *)
(* the proposals made before it, and is represented by their sequence.     *)
(* Model, temperature and template are fixed for a run; the other fields   *)
(* of the key tell nothing apart here.                                     *)
(***************************************************************************)
EXTENDS Integers, Sequences

CONSTANTS
  DecisionPoints,   \* wake-ups of a run
  Returned,         \* the kinds of text the client in use can return
  MaxSessions       \* bound: runs started in a behaviour

Proposals == {"CONTACT", "WAIT"}

Prompts == UNION {[1..n -> Proposals] : n \in 0..(DecisionPoints - 1)}

(***************************************************************************)
(* The kinds of text a client can return: one that parses to a proposal,   *)
(* one that is no JSON object, one that breaks the schema; GeminiClient    *)
(* can also return None, OpenAIClient never does.                          *)
(***************************************************************************)
NoText == "None"
Texts  == Proposals \cup {"garbled", "off_schema", NoText}
Absent == "absent"

ASSUME PlannerAssumption ==
  /\ DecisionPoints \in Nat \ {0}
  /\ Returned \subseteq Texts
  /\ MaxSessions \in Nat \ {0}

VARIABLES
  cache,      \* prompt -> stored text, the in-memory LLMCache
  session,    \* allow_live of the policy object, replay of its cache
  log,        \* outcomes of the current run, in order
  status,     \* "running", "complete" or the exception that stopped it
  book,       \* the last complete live run: its log and its cache file
  cut,        \* the log of a run the quota stopped, over this same cache
  sessions

vars == <<cache, session, log, status, book, cut, sessions>>

Outcome(proposal, fallback) == [proposal |-> proposal, fallback |-> fallback]
Reasons == {"none", "timeout", "unparseable", "schema_violation"}
Outcomes == [proposal : Proposals, fallback : Reasons]

Session(allowLive, replay) == [allowLive |-> allowLive, replay |-> replay]

Errors == {"CacheMissDuringReplayError", "LiveCallNotAllowedError",
           "QuotaExhaustedError"}

PromptOf(outcomes) == [k \in DOMAIN outcomes |-> outcomes[k].proposal]
Prompt == PromptOf(log)

\* LLMCache.get: a stored None cannot be told from a miss.
Lookup(prompt) == IF cache[prompt] = Absent THEN NoText ELSE cache[prompt]

\* a3d_policy on the view of this prompt: some fixed function of it.
A3DProposal(prompt) == IF prompt = <<>> THEN "CONTACT" ELSE "WAIT"

\* Mutant: a schema violation is reported under a reason of its own.
ParsedUnnamed(prompt, raw) ==
  CASE raw \in Proposals           -> Outcome(raw, "none")
    [] raw \in {"garbled", NoText} -> Outcome(A3DProposal(prompt), "unparseable")
    [] raw = "off_schema"          -> Outcome(A3DProposal(prompt), raw)

Parsed(prompt, raw) ==
  CASE raw \in Proposals           -> Outcome(raw, "none")
    [] raw \in {"garbled", NoText} -> Outcome(A3DProposal(prompt), "unparseable")
    [] raw = "off_schema"          ->
         Outcome(A3DProposal(prompt), "schema_violation")

NothingRecorded == [log |-> <<>>, file |-> [p \in Prompts |-> Absent]]

Init ==
  /\ cache = [p \in Prompts |-> Absent]
  /\ session \in {Session(TRUE, FALSE), Session(FALSE, FALSE)}
  /\ log = <<>>
  /\ status = "running"
  /\ book = NothingRecorded
  /\ cut = <<>>
  /\ sessions = 1

(***************************************************************************)
(* One call of the policy: invoke_planner.                                 *)
(***************************************************************************)
Asked   == status = "running" /\ Len(log) < DecisionPoints
Answer(outcome) == log' = Append(log, outcome)

Hit ==
  /\ Asked
  /\ Lookup(Prompt) # NoText
  /\ Answer(Parsed(Prompt, Lookup(Prompt)))
  /\ UNCHANGED <<cache, session, status, book, cut, sessions>>

\* Mutant: a miss under replay falls back like a timeout instead of failing.
MissFallsBack ==
  /\ Asked
  /\ Lookup(Prompt) = NoText
  /\ ~session.allowLive \/ session.replay
  /\ IF session.replay
     THEN Answer(Outcome(A3DProposal(Prompt), "timeout")) /\ UNCHANGED status
     ELSE status' = "LiveCallNotAllowedError" /\ UNCHANGED log
  /\ UNCHANGED <<cache, session, book, cut, sessions>>

Refuse ==
  /\ Asked
  /\ Lookup(Prompt) = NoText
  /\ ~session.allowLive \/ session.replay
  /\ status' = IF session.replay THEN "CacheMissDuringReplayError"
                                 ELSE "LiveCallNotAllowedError"
  /\ UNCHANGED <<cache, session, log, book, cut, sessions>>

LiveCall == Asked /\ Lookup(Prompt) = NoText
            /\ ~session.replay /\ session.allowLive

\* Mutant: only an answer that parses is stored.
PutIfParsed(raw) ==
  cache' = IF raw \in Proposals THEN [cache EXCEPT ![Prompt] = raw] ELSE cache

Put(raw) == cache' = [cache EXCEPT ![Prompt] = raw]

Completion ==
  /\ LiveCall
  /\ \E raw \in Returned : Put(raw) /\ Answer(Parsed(Prompt, raw))
  /\ UNCHANGED <<session, status, book, cut, sessions>>

\* PlannerTimeoutError: A3-D's proposal, and nothing is stored.
Timeout ==
  /\ LiveCall
  /\ Answer(Outcome(A3DProposal(Prompt), "timeout"))
  /\ UNCHANGED <<cache, session, status, book, cut, sessions>>

\* A rate limit is not caught by the planner and ends the run.
Quota ==
  /\ LiveCall
  /\ status' = "QuotaExhaustedError"
  /\ cut' = log
  /\ UNCHANGED <<cache, session, log, book, sessions>>

(***************************************************************************)
(* Runs.                                                                   *)
(***************************************************************************)
\* The run is over; unless it was a replay it is written down with its cache
\* (to_jsonl_line for every entry).
Finish ==
  /\ status = "running"
  /\ Len(log) = DecisionPoints
  /\ status' = "complete"
  /\ book' = IF session.replay THEN book ELSE [log |-> log, file |-> cache]
  /\ UNCHANGED <<cache, session, log, cut, sessions>>

StartWith(config) ==
  /\ status # "running"
  /\ sessions < MaxSessions
  /\ session' = config
  /\ log' = <<>>
  /\ status' = "running"
  /\ sessions' = sessions + 1
  /\ UNCHANGED book

\* A new policy object over the cache in memory, whose replay mark it keeps.
Continue ==
  /\ \E allowLive \in BOOLEAN : StartWith(Session(allowLive, session.replay))
  /\ UNCHANGED <<cache, cut>>

\* A new, empty cache.
Fresh ==
  /\ StartWith(Session(TRUE, FALSE))
  /\ cache' = [p \in Prompts |-> Absent]
  /\ cut' = <<>>

\* load_jsonl: every line of the file, in a cache that is marked for replay.
Replay ==
  /\ book # NothingRecorded
  /\ \E allowLive \in BOOLEAN : StartWith(Session(allowLive, TRUE))
  /\ cache' = book.file
  /\ cut' = <<>>

Ended == status # "running" /\ sessions = MaxSessions /\ UNCHANGED vars

Next == Hit \/ Refuse \/ Completion \/ Timeout \/ Quota \/ Finish
        \/ Continue \/ Fresh \/ Replay \/ Ended

Spec == Init /\ [][Next]_vars

-----------------------------------------------------------------------------
PrefixOf(s, t) == Len(s) <= Len(t) /\ \A k \in DOMAIN s : s[k] = t[k]

TypeOK ==
  /\ cache \in [Prompts -> Texts \cup {Absent}]
  /\ session \in [allowLive : BOOLEAN, replay : BOOLEAN]
  /\ log \in Seq(Outcomes) /\ Len(log) <= DecisionPoints
  /\ status \in {"running", "complete"} \cup Errors
  /\ book.log \in Seq(Outcomes)
  /\ book.file \in [Prompts -> Texts \cup {Absent}]
  /\ cut \in Seq(Outcomes)
  /\ sessions \in 1..MaxSessions

\* A replay never decides otherwise than the run it reproduces, neither in the
\* proposals nor in the fallback reasons of its ledger: it may stop short, but
\* what it has said so far the run had said.
ReplayNeverDiverges == session.replay => PrefixOf(log, book.log)

\* It stops short only where the recorded run got no text to store: at a call
\* that timed out, or one that returned None (and was read as unparseable).
ReplayStopsOnlyWithoutText ==
  status = "CacheMissDuringReplayError" =>
    /\ Len(log) < Len(book.log)
    /\ LET missing == book.log[Len(log) + 1].fallback
       IN \/ missing = "timeout"
          \/ missing = "unparseable" /\ book.file[Prompt] = NoText

\* A run that continues with the cache of one the quota stopped repeats its
\* decisions, unless one of them had fallen back for want of a text.
Textless(outcome) == outcome.fallback \in {"timeout", "unparseable"}

ResumedRunsAgree ==
  ~session.replay /\ (\A k \in DOMAIN cut : ~Textless(cut[k])) =>
    PrefixOf(log, cut) \/ PrefixOf(cut, log)

\* What EVAL.md's disclosure on A3-LLM says is true by construction: a recorded
\* run can be replayed, outcome for outcome.
RecordedRunsReplay == status # "CacheMissDuringReplayError"

=============================================================================
