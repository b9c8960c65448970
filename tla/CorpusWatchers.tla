---------------------------- MODULE CorpusWatchers ----------------------------
(***************************************************************************)
(* The watchers of online corpora (api/http/corpus_watchers.rs) together   *)
(* with the jobs they enqueue (CorpusJobs).                                *)
(*                                                                         *)
(* One scheduler task ticks. A tick loads the cursors, takes the first     *)
(* max_concurrent_polls enabled registrations and deals with one after the *)
(* other: look at the cursor, count the queue under a read lock, enqueue   *)
(* under the write lock, save the cursors. Registrations are configuration:*)
(* they change only with a restart. A registration that is disabled or     *)
(* whose scope is invalid is never enqueued and is left out.               *)
(*                                                                         *)
(* Bounds: those of CorpusJobs.                                            *)
(***************************************************************************)
EXTENDS CorpusJobs

CONSTANTS
  Configs,               \* sequences of registrations [id, source]
  max_concurrent_polls, queue_capacity

Registrations == UNION {{regs[n] : n \in DOMAIN regs} : regs \in Configs}

(* watcher_idempotency_key: a digest of scope, source id and version.      *)
KeyOf(r) == <<"watcher-v1", r.source.version>>
Cursor(r) == <<r.id, r.source.version>>

ASSUME WatcherAssumption ==
  /\ Configs \subseteq Seq(Registrations)
  /\ \A r \in Registrations : KeyOf(r) # NoKey
  /\ max_concurrent_polls \in Nat \ {0}
  /\ queue_capacity \in Nat \ {0}

VARIABLES
  registrations, \* the configuration of the process
  cursors,       \* the cursors file
  seen,          \* the tick's copy of it
  at,            \* the registration the tick is at, 0 between ticks
  step,          \* what it does next there
  lost           \* history: keys of jobs whose file could not be loaded

watcherVars == <<registrations, cursors, seen, at, step, lost>>
allVars == <<jobVars, watcherVars>>

Here == registrations[at]
Polls(regs) ==
  IF Len(regs) < max_concurrent_polls THEN Len(regs) ELSE max_concurrent_polls

Queued == {j \in Job : jobs[j].state = "queued"}

WatchersInit ==
  /\ JobsInit
  /\ registrations \in Configs
  /\ cursors = {} /\ seen = {}
  /\ at = 0 /\ step = "check"
  /\ lost = {}

(* A cursors file that cannot be read or parsed is taken for an empty one; *)
(* the next tick may find it so again.                                     *)
TickStarts ==
  /\ at = 0
  /\ registrations # << >>
  /\ at' = 1
  /\ step' = "check"
  /\ \/ seen' = cursors /\ UNCHANGED disturbances
     \/ seen' = {} /\ Disturb
  /\ UNCHANGED <<jobs, kg, calls, abandoned, registrations, cursors, lost>>

(* On to the next registration, or to the end of the tick.                 *)
Bug_Advance ==
  /\ at' = IF at <= Polls(registrations) THEN at + 1 ELSE 0
  /\ step' = "check"
Advance ==
  /\ at' = IF at < Polls(registrations) THEN at + 1 ELSE 0
  /\ step' = "check"

Skip ==
  /\ at # 0 /\ step = "check"
  /\ Cursor(Here) \in seen
  /\ Advance
  /\ UNCHANGED <<jobVars, registrations, cursors, seen, lost>>

(* The lock of the count is gone when the job is enqueued.                 *)
Count ==
  /\ at # 0 /\ step = "check"
  /\ Cursor(Here) \notin seen
  /\ IF Cardinality(Queued) >= queue_capacity
     THEN Advance
     ELSE step' = "enqueue" /\ UNCHANGED at
  /\ UNCHANGED <<jobVars, registrations, cursors, seen, lost>>

(* The job is new, or known under its key with the same source.            *)
Accepted(r) == \E j \in Holders(KeyOf(r)) : jobs[j].source = r.source

WatcherEnqueues ==
  /\ at # 0 /\ step = "enqueue"
  /\ Enqueue(Here.source, KeyOf(Here))
  /\ step' = "save"
  /\ UNCHANGED <<registrations, cursors, seen, at, lost>>

WatcherReuses ==
  /\ at # 0 /\ step = "enqueue"
  /\ Accepted(Here)
  /\ step' = "save"
  /\ UNCHANGED <<jobVars, registrations, cursors, seen, at, lost>>

(* The key is bound to another source, or the job cannot be saved: the     *)
(* cursor stays where it is.                                               *)
Bug_Rejected == step' = "save" /\ UNCHANGED at
Rejected == Advance

EnqueueRejected ==
  /\ at # 0 /\ step = "enqueue"
  /\ \/ Holders(KeyOf(Here)) # {} /\ ~Accepted(Here) /\ UNCHANGED disturbances
     \/ Holders(KeyOf(Here)) = {} /\ Disturb
  /\ Rejected
  /\ UNCHANGED <<jobs, kg, calls, abandoned, registrations, cursors, seen, lost>>

(* A failed save keeps the cursor for the saves later in the tick.         *)
SaveCursors ==
  /\ at # 0 /\ step = "save"
  /\ seen' = seen \cup {Cursor(Here)}
  /\ \/ cursors' = seen' /\ UNCHANGED disturbances
     \/ Disturb /\ UNCHANGED cursors
  /\ Advance
  /\ UNCHANGED <<jobs, kg, calls, abandoned, registrations, lost>>

(* The process ends and starts again, with another configuration perhaps.  *)
Restart ==
  /\ Disturb
  /\ \/ JobsRestart /\ UNCHANGED lost
     \/ JobsUnreadable /\ lost' = lost \cup {jobs[j].key : j \in Job}
  /\ registrations' \in Configs
  /\ seen' = {} /\ at' = 0 /\ step' = "check"
  /\ UNCHANGED cursors

SchedulerStep ==
  \/ TickStarts \/ Skip \/ Count \/ WatcherEnqueues \/ WatcherReuses
  \/ EnqueueRejected \/ SaveCursors

WatchersNext ==
  \/ JobsNext /\ UNCHANGED watcherVars
  \/ SchedulerStep
  \/ Restart

WatchersSpec == WatchersInit /\ [][WatchersNext]_allVars

(* The runtime polls the scheduler, whose interval never ends, and every   *)
(* handler it has started. Nobody has to create, run or cancel a job.      *)
WatchersFairness ==
  /\ WF_allVars(SchedulerStep)
  /\ \A c \in RunCalls : WF_allVars(RunStep(c) /\ UNCHANGED watcherVars)

FairWatchers == WatchersSpec /\ WatchersFairness
----------------------------------------------------------------------------
(* Properties.                                                             *)

Cursors == {Cursor(r) : r \in Registrations}
AllSources == Sources \cup {r.source : r \in Registrations}
AllKeys == Keys \cup {NoKey} \cup {KeyOf(r) : r \in Registrations}

(* The list of jobs, the run calls, the cursors and the tick have their    *)
(* types.                                                                  *)
CorpusTypeOK ==
  /\ JobsTypeOK(AllSources, AllKeys)
  /\ registrations \in Configs
  /\ cursors \subseteq Cursors /\ seen \subseteq Cursors
  /\ at \in 0..Polls(registrations)
  /\ step \in {"check", "enqueue", "save"}
  /\ at = 0 => step = "check"
  /\ lost \subseteq AllKeys

(* A cursor never runs ahead of the job it stands for, in the file or in a *)
(* tick: no crash, failed save or rejected job makes a version count as    *)
(* enqueued that is not (tick_online_corpus_watchers). Only a job whose    *)
(* file could not be loaded leaves its cursor behind.                      *)
VersionKey(v) == <<"watcher-v1", v>>
Listed(v) == \E j \in Job : jobs[j].key = VersionKey(v)

CursorsHaveJobs ==
  \A x \in cursors \cup seen : Listed(x[2]) \/ VersionKey(x[2]) \in lost

Versions == {x[2] : x \in Cursors}

Running(j) == j \in Job /\ jobs[j].state = "running"

(* Every running job leaves that state, if no run of it is cut off.        *)
RunsEnd ==
  \A j \in 1..(MaxJobs + Cardinality(Versions)) :
    Running(j) ~> (~Running(j) \/ j \in abandoned)

Polled(v) ==
  \E n \in 1..Polls(registrations) : registrations[n].source.version = v
Saturated(v) ==
  /\ at # 0 /\ step = "check"
  /\ Here.source.version = v /\ Cursor(Here) \notin seen
  /\ Cardinality(Queued) >= queue_capacity

(* A version that the polls reach gets its job and keeps it, unless ticks  *)
(* find the queue full again and again, or the file of its job could not   *)
(* be loaded; failed saves and restarts only delay it                      *)
(* (run_online_corpus_watcher_scheduler). A version behind the first       *)
(* max_concurrent_polls registrations is not reached.                      *)
PolledVersionsAreQueued ==
  \A v \in Versions :
    <>[]Polled(v) =>
      \/ <>[](Listed(v) \/ VersionKey(v) \in lost)
      \/ []<>Saturated(v)
=============================================================================
