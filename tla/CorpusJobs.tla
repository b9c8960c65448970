------------------------------ MODULE CorpusJobs ------------------------------
(***************************************************************************)
(* Online corpus jobs (api/http/corpus_jobs.rs): the list of jobs of one   *)
(* tenant and project, what create, cancel and run do to it, and what a    *)
(* run puts into the knowledge graph.                                      *)
(*                                                                         *)
(* Every change of the list is made under its write lock, saved to the     *)
(* file and only then published, so it is one step and survives the end of *)
(* the process; one that cannot be saved changes nothing. A run holds no   *)
(* lock between its changes: it decides on the copy of the job it read     *)
(* first, and its accesses to the knowledge graph are steps of their own.  *)
(*                                                                         *)
(* Bounds: RunCalls (run calls at one time), MaxJobs (no HTTP caller       *)
(* creates a job beyond it), MaxRun (callers run the first so many jobs),  *)
(* MaxDisturbances (run calls that begin beside another one, restarts,     *)
(* failed saves of the watchers).                                          *)
(***************************************************************************)
EXTENDS Integers, Sequences, FiniteSets

CONSTANTS
  Sources,            \* of HTTP callers: records with a version and a uri
  Keys, NoKey,        \* idempotency keys of HTTP callers, or none
  RunCalls,
  MAX_RETRY_ATTEMPTS,
  MaxJobs, MaxRun, MaxDisturbances

ASSUME CorpusAssumption ==
  /\ NoKey \notin Keys
  /\ IsFiniteSet(RunCalls) /\ RunCalls # {}
  /\ MAX_RETRY_ATTEMPTS \in Nat \ {0}
  /\ MaxJobs \in Nat
  /\ MaxRun \in Nat
  /\ MaxDisturbances \in Nat

VARIABLES
  jobs,      \* the jobs, in order of creation
  kg,        \* what runs have put into the knowledge graph, by job
  calls,     \* calls[c]: where run call c is
  disturbances,
  abandoned  \* history: running jobs of which a run was cut off

jobVars == <<jobs, kg, calls, abandoned, disturbances>>

Job == DOMAIN jobs

Terminal == {"succeeded", "failed", "cancelled"}

Permits(current, next) ==
  \/ current = "queued" /\ next \in {"running", "cancelled"}
  \/ current = "running" /\ next \in {"queued", "awaiting_review"} \cup Terminal
  \/ current = "awaiting_review" /\ next \in Terminal

NoEvidence == [staged |-> FALSE, reviews |-> << >>, suggested |-> FALSE]
Idle == [phase |-> "idle", job |-> 0, mayRetry |-> FALSE, review |-> 0]

JobsInit ==
  /\ jobs = << >>
  /\ kg = << >>
  /\ calls = [c \in RunCalls |-> Idle]
  /\ abandoned = {}
  /\ disturbances = 0

----------------------------------------------------------------------------
(* enqueue_online_corpus_job: the caller with a known key gets the job of  *)
(* the key, or a conflict if the source is another one.                    *)
Bug_Holders(k) == {j \in Job : jobs[j].key = k /\ jobs[j].state \notin Terminal}
Holders(k) == {j \in Job : k # NoKey /\ jobs[j].key = k}

NewJob(s, k) ==
  [source |-> s, key |-> k, state |-> "queued", attempts |-> 0, retries |-> 0,
   review |-> 0]

Enqueue(s, k) ==
  /\ Holders(k) = {}
  /\ jobs' = Append(jobs, NewJob(s, k))
  /\ kg' = Append(kg, NoEvidence)
  /\ UNCHANGED <<calls, abandoned, disturbances>>

Create(s, k) ==
  /\ Len(jobs) < MaxJobs
  /\ Enqueue(s, k)

(* transition_job_for_claims, for a transition that is permitted.          *)
Moved(job, next) ==
  [job EXCEPT !.state = next,
              !.attempts = IF next = "running" THEN @ + 1 ELSE @,
              !.retries = IF next = "queued" THEN @ + 1 ELSE @]

Move(j, next) ==
  /\ Permits(jobs[j].state, next)
  /\ jobs' = [jobs EXCEPT ![j] = Moved(@, next)]
  /\ abandoned' = abandoned \ {j}

Cancel(j) ==
  /\ Move(j, "cancelled")
  /\ UNCHANGED <<kg, calls, disturbances>>

----------------------------------------------------------------------------
(* run_online_corpus_job_handler.                                          *)

Goto(c, phase) == calls' = [calls EXCEPT ![c].phase = phase]
Return(c) == calls' = [calls EXCEPT ![c] = Idle]

(* The copy of the job counts the attempt that is to come.                 *)
Bug_MayRetry(job) == job.attempts < MAX_RETRY_ATTEMPTS
MayRetry(job) == job.attempts + 1 < MAX_RETRY_ATTEMPTS

Disturb ==
  /\ disturbances < MaxDisturbances
  /\ disturbances' = disturbances + 1

(* A job that is running already is run without a transition.              *)
RunReads(c, j) ==
  /\ calls[c].phase = "idle"
  /\ j <= MaxRun
  /\ jobs[j].state \in {"queued", "running"}
  /\ calls' = [calls EXCEPT ![c] =
       [phase |-> IF jobs[j].state = "queued" THEN "start" ELSE "stage",
        job |-> j, mayRetry |-> MayRetry(jobs[j]), review |-> 0]]
  /\ \/ (\A d \in RunCalls : calls[d].phase = "idle") /\ UNCHANGED disturbances
     \/ (\E d \in RunCalls : calls[d].phase # "idle") /\ Disturb
  /\ UNCHANGED <<jobs, kg, abandoned>>

RunStarts(c) ==
  /\ calls[c].phase = "start"
  /\ Move(calls[c].job, "running")
  /\ Goto(c, "stage")
  /\ UNCHANGED <<kg, disturbances>>

(* run_job_ke_primitives stages the extraction and looks for a review of   *)
(* it; there may be several, in no certain order.                          *)
Stage(c) ==
  LET j == calls[c].job IN
  /\ calls[c].phase = "stage"
  /\ kg' = [kg EXCEPT ![j].staged = TRUE]
  /\ \E r \in IF kg[j].reviews = << >> THEN {0} ELSE DOMAIN kg[j].reviews :
       calls' = [calls EXCEPT ![c].phase = IF r = 0 THEN "hold" ELSE "resolve",
                              ![c].review = r]
  /\ UNCHANGED <<jobs, abandoned, disturbances>>

(* The quality gate is evaluated and its report held for review.           *)
HoldReview(c) ==
  LET j == calls[c].job IN
  /\ calls[c].phase = "hold"
  /\ \E passed \in BOOLEAN :
       kg' = [kg EXCEPT ![j].reviews = Append(@, passed)]
  /\ calls' = [calls EXCEPT ![c].phase = "resolve",
                            ![c].review = Len(kg[j].reviews) + 1]
  /\ UNCHANGED <<jobs, abandoned, disturbances>>

(* Entity resolution asks the sidecar; what the gate said counts only when *)
(* the suggestions are made.                                               *)
Bug_Eligible(c) == TRUE
Eligible(c) == kg[calls[c].job].reviews[calls[c].review]

Resolve(c) ==
  LET j == calls[c].job IN
  /\ calls[c].phase = "resolve"
  /\ kg' = [kg EXCEPT ![j].suggested = TRUE]
  /\ Goto(c, IF Eligible(c) THEN "record" ELSE "rejected")
  /\ UNCHANGED <<jobs, abandoned, disturbances>>

(* Each of these steps may fail, entity resolution after it has made some  *)
(* of its suggestions; only failures of the sidecar are transient.         *)
WorkFails(c) ==
  /\ calls[c].phase \in {"stage", "hold"}
  /\ Goto(c, "rejected")
  /\ UNCHANGED <<jobs, kg, abandoned, disturbances>>

ResolveFails(c) ==
  /\ calls[c].phase = "resolve"
  /\ kg' \in {kg, [kg EXCEPT ![calls[c].job].suggested = TRUE]}
  /\ Goto(c, "rejected") \/ Goto(c, "interrupted")
  /\ UNCHANGED <<jobs, abandoned, disturbances>>

(* record_job_links_for_claims writes the links whatever the state is.     *)
RecordLinks(c) ==
  /\ calls[c].phase = "record"
  /\ jobs' = [jobs EXCEPT ![calls[c].job].review = calls[c].review]
  /\ Goto(c, "await")
  /\ UNCHANGED <<kg, abandoned, disturbances>>

Bug_GivesUpSilently(c) ==
  IF calls[c].phase = "interrupted" /\ calls[c].mayRetry THEN "queued" ELSE "running"
AfterError(c) ==
  IF calls[c].phase = "interrupted" /\ calls[c].mayRetry THEN "queued" ELSE "failed"

Target(c) ==
  CASE calls[c].phase = "start" -> "running"
    [] calls[c].phase = "await" -> "awaiting_review"
    [] OTHER -> AfterError(c)

RunEnds(c) ==
  /\ calls[c].phase \in {"await", "rejected", "interrupted"}
  /\ Move(calls[c].job, Target(c))
  /\ Return(c)
  /\ UNCHANGED <<kg, disturbances>>

(* The transition is illegal by now: the caller gets a conflict.           *)
RunConflicts(c) ==
  /\ calls[c].phase \in {"start", "await", "rejected", "interrupted"}
  /\ ~Permits(jobs[calls[c].job].state, Target(c))
  /\ Return(c)
  /\ UNCHANGED <<jobs, kg, abandoned, disturbances>>

LosesRunner(c) ==
  {j \in {calls[c].job} : calls[c].phase # "start" /\ jobs[j].state = "running"}

(* The list cannot be saved, or the caller hangs up while the handler      *)
(* waits for the lock.                                                     *)
RunDropped(c) ==
  /\ calls[c].phase \in {"start", "record", "await", "rejected", "interrupted"}
  /\ Return(c)
  /\ abandoned' = abandoned \cup LosesRunner(c)
  /\ UNCHANGED <<jobs, kg, disturbances>>

RunStep(c) ==
  \/ RunStarts(c) \/ Stage(c) \/ HoldReview(c) \/ Resolve(c) \/ WorkFails(c)
  \/ ResolveFails(c) \/ RecordLinks(c) \/ RunEnds(c) \/ RunConflicts(c)

(* The process ends: load_online_corpus_jobs reads running jobs as running.*)
JobsRestart ==
  /\ calls' = [c \in RunCalls |-> Idle]
  /\ abandoned' = {j \in Job : jobs[j].state = "running"}
  /\ UNCHANGED <<jobs, kg>>

(* A file that cannot be read or parsed is taken for an empty list. New    *)
(* jobs have new identifiers: the evidence of the old ones is no job's.    *)
JobsUnreadable ==
  /\ calls' = [c \in RunCalls |-> Idle]
  /\ jobs' = << >> /\ kg' = << >>
  /\ abandoned' = {}

JobsNext ==
  \/ \E s \in Sources, k \in Keys \cup {NoKey} : Create(s, k)
  \/ \E j \in Job : Cancel(j)
  \/ \E c \in RunCalls, j \in Job : RunReads(c, j)
  \/ \E c \in RunCalls : RunStep(c) \/ RunDropped(c)

----------------------------------------------------------------------------
(* Properties.                                                             *)

Phases == {"idle", "start", "stage", "hold", "resolve", "record", "await",
           "rejected", "interrupted"}
States == {"queued", "running", "awaiting_review"} \cup Terminal

JobRecords(sources, keys) ==
  [source : sources, key : keys, state : States, attempts : Nat, retries : Nat,
   review : Nat]
Evidence == [staged : BOOLEAN, reviews : Seq(BOOLEAN), suggested : BOOLEAN]
CallRecords == [phase : Phases, job : Nat, mayRetry : BOOLEAN, review : Nat]

JobsTypeOK(sources, keys) ==
  /\ jobs \in Seq(JobRecords(sources, keys))
  /\ kg \in Seq(Evidence) /\ Len(kg) = Len(jobs)
  /\ \A j \in Job : jobs[j].review \in 0..Len(kg[j].reviews)
  /\ calls \in [RunCalls -> CallRecords]
  /\ \A c \in RunCalls : calls[c].phase # "idle" =>
       /\ calls[c].job \in Job
       /\ calls[c].phase \in {"resolve", "record", "await"} =>
            calls[c].review \in 1..Len(kg[calls[c].job].reviews)
  /\ abandoned \subseteq Job
  /\ disturbances \in 0..MaxDisturbances

(* No key ever stands for two jobs of the list, whatever has become of the *)
(* first one (enqueue_online_corpus_job: HTTP callers, watchers, restarts).*)
OneJobPerKey ==
  \A i, j \in Job : i # j /\ jobs[i].key = jobs[j].key => jobs[i].key = NoKey

(* The retry limit is decided on a copy of the job: every run call that    *)
(* overlaps another one can add one attempt to MAX_RETRY_ATTEMPTS, and     *)
(* nothing else can (run_online_corpus_job_handler).                       *)
AttemptsBounded ==
  \A j \in Job : jobs[j].attempts <= MAX_RETRY_ATTEMPTS + Cardinality(RunCalls) - 1

(* However runs overlap, every attempt but the last one has ended in one   *)
(* counted retry (transition_job_for_claims, the observability counters).  *)
AttemptsAreCounted ==
  \A j \in Job :
    CASE jobs[j].state = "queued" -> jobs[j].attempts = jobs[j].retries
      [] jobs[j].state = "cancelled" -> jobs[j].attempts - jobs[j].retries \in {0, 1}
      [] OTHER -> jobs[j].attempts = jobs[j].retries + 1

(* A job that awaits review has staged evidence, a suggestion, and the     *)
(* review its links name has passed the quality gate, whichever of several *)
(* overlapping runs staged, linked and moved it.                           *)
AwaitsRealReview ==
  \A j \in Job : jobs[j].state = "awaiting_review" =>
    /\ kg[j].staged /\ kg[j].suggested
    /\ jobs[j].review # 0 /\ kg[j].reviews[jobs[j].review]

Runs(c, j) == calls[c].job = j /\ calls[c].phase \notin {"idle", "start"}

(* A running job has a run at work that will end it, unless a run of it    *)
(* was cut off: no order of overlapping runs, conflicts and cancels leaves *)
(* a job running with nobody to finish it.                                 *)
RunningHasARunner ==
  \A j \in Job : jobs[j].state = "running" =>
    j \in abandoned \/ \E c \in RunCalls : Runs(c, j)
=============================================================================
