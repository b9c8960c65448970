-------------------------- MODULE InvocationBridge ---------------------------
(***************************************************************************)
(* The execution bridge (src/api/http/invocations_execution.rs): one task  *)
(* per created invocation waits for a running slot in FIFO order, prepares *)
(* the run, drives the record through the store and gives the slot back;   *)
(* a watcher per deadline and the cancel handler interfere with it.  The   *)
(* runtime is multi-threaded, so every access to the store, the ledger,    *)
(* the notifier or a token is a step of its own.                           *)
(*                                                                         *)
(* It composes InvocationStore (its records and its writes) with           *)
(* RunningSlots (the ledger).  Ids are numbered in creation order, which   *)
(* stands for `created_at`: the store takes the timestamp under its write  *)
(* lock, and a file write lies between two of them.                        *)
(***************************************************************************)
EXTENDS InvocationStore

CONSTANTS
  Tenants, TenantOf, MaxGlobal, MaxPerTenant, MaxPerScope,  \* see RunningSlots
  WithDeadline,  \* ids whose request carries a deadline
  Environment    \* which of "cancel", "crash", "write_failure", "shutdown" occur

(* from_vars: every limit is at least one.  The codes stand for the ones   *)
(* the bridge and the watcher put into a patch.                            *)
ASSUME BridgeConfig ==
  /\ Ids \subseteq Nat /\ WithDeadline \subseteq Ids
  /\ MaxGlobal \in Nat \ {0} /\ MaxPerTenant \in Nat \ {0} /\ MaxPerScope \in Nat \ {0}
  /\ TenantOf \in [Scopes -> Tenants]
  /\ {"deadline_exceeded", "task_init_failed", "task_failed"} \subseteq Codes
  /\ Environment \subseteq {"cancel", "crash", "write_failure", "shutdown"}

VARIABLES
  admitted, global, perTenant, perScope,  \* FifoScheduler.slots
  task,        \* task[i]: where the task of invocation i is
  ear,         \* ear[i]: its Notified future: "deaf", "listening" or "woken"
  seen,        \* seen[i]: admitted_ids() as task i read it
  token,       \* token[i]: its cancellation token: "none", "live", "cancelled"
  registered,  \* ids in the InvocationCancellationRegistry
  watcher,     \* watcher[i]: where its deadline watcher is
  due,         \* ids whose deadline has passed
  exec,        \* exec[i]: its TaskExecutor run: "none", "running", or the outcome
  expired,     \* ids whose executor unwinds because of its own run timeout
  runs,        \* history: how often an executor was started for i
  cancel,      \* the cancel call in progress
  shutdown     \* the server is shutting down

Slots == INSTANCE RunningSlots WITH NotAdmitted <- None

slotVars   == <<admitted, global, perTenant, perScope>>
signalVars == <<ear, seen, token, registered>>
otherVars  == <<due, expired, runs, shutdown>>

bridgeVars == <<storeVars, slotVars, task, signalVars, watcher, exec, cancel, otherVars>>

NoCall == [at |-> "idle", id |-> 0, target |-> "none", attempts |-> 0]

Admitting == {"listen", "recheck", "snapshot", "choose", "admit", "wait", "backstop"}
Holding   == {"enter", "prepare", "last_check", "start", "spawn", "executing",
              "unwind", "judge", "record_cancel", "release"}

Outcomes  == {"completed", "failed", "stopped"}

Goto(i, step) == task' = [task EXCEPT ![i] = step]

(* Notify::notify_waiters wakes the futures that are enabled at this time, *)
(* and stores nothing for the others.                                      *)
NotifyWaiters == ear' = [j \in Ids |-> IF ear[j] = "listening" THEN "woken" ELSE ear[j]]

Cancelled(i) == token[i] = "cancelled"

(* The process is gone: every task, token, slot and executor with it.      *)
Die ==
  /\ admitted' = [i \in Ids |-> None] /\ global' = 0
  /\ perTenant' = [t \in Tenants |-> 0] /\ perScope' = [s \in Scopes |-> 0]
  /\ task' = [i \in Ids |-> "none"] /\ watcher' = [i \in Ids |-> "none"]
  /\ ear' = [i \in Ids |-> "deaf"] /\ seen' = [i \in Ids |-> {}]
  /\ token' = [i \in Ids |-> "none"] /\ registered' = {}
  /\ exec' = [i \in Ids |-> IF exec[i] = "running" THEN "none" ELSE exec[i]]
  /\ expired' = {}
  /\ cancel' = NoCall
  /\ shutdown' = FALSE
  /\ UNCHANGED <<due, runs>>

(* A lifecycle write whose error the caller ignores (`let _ =`): it        *)
(* changes the record, or is refused, or fails to reach the file.          *)
Attempt(i, next, code) ==
  LET changes == TransitionOutcome(i, 0, next, code) = "changed" IN
  \/ changes /\ Transition(i, 0, next, code) /\ (up' \/ "crash" \in Environment)
  \/ ~changes /\ UNCHANGED storeVars
  \/ changes /\ "write_failure" \in Environment /\ UNCHANGED storeVars

(* After a write: go on, unless the process died in it.                    *)
Then(i, step) ==
  IF up' THEN Goto(i, step) /\ UNCHANGED <<slotVars, signalVars, watcher, exec, cancel, otherVars>>
         ELSE Die

(* fail_pre_execution and fail_running: the read before the transition     *)
(* only skips a record that is terminal, which the store refuses anyway.   *)
Fail(i, code) == Attempt(i, "failed", code)

-----------------------------------------------------------------------------
(* Create and dispatch.  Between the publish and the registration another  *)
(* thread may already cancel the invocation.                               *)

Submit(i, s) ==
  /\ ~shutdown
  /\ \A j \in Ids \ issued : i <= j
  /\ Create(i, s, None, None)
  /\ up' \/ "crash" \in Environment
  /\ IF up' THEN Goto(i, "new") /\ UNCHANGED <<slotVars, signalVars, watcher, exec, cancel, otherVars>>
            ELSE Die

Dispatch(i) ==
  /\ task[i] = "new"
  /\ Goto(i, "listen")
  /\ token' = [token EXCEPT ![i] = "live"]
  /\ registered' = registered \cup {i}
  /\ watcher' = [watcher EXCEPT ![i] = IF i \in WithDeadline THEN "asleep" ELSE "done"]
  /\ UNCHANGED <<storeVars, slotVars, ear, seen, exec, cancel, otherVars>>

-----------------------------------------------------------------------------
(* admit_and_run: the admission loop.                                      *)

Bug_ListenAfterChecks(i) ==
  /\ task[i] = "listen"
  /\ Goto(i, "recheck")
  /\ ear' = [ear EXCEPT ![i] = "deaf"]
  /\ UNCHANGED <<storeVars, slotVars, seen, token, registered, watcher, exec, cancel, otherVars>>

Listen(i) ==
  /\ task[i] = "listen"
  /\ Goto(i, "recheck")
  /\ ear' = [ear EXCEPT ![i] = "listening"]
  /\ UNCHANGED <<storeVars, slotVars, seen, token, registered, watcher, exec, cancel, otherVars>>

(* The record, then the token.  Whoever cancels the token writes the       *)
(* record too, so the two reads can be taken together.                     *)
Recheck(i) ==
  /\ task[i] = "recheck"
  /\ Goto(i, IF mem[i].state # "queued" THEN "leave"
             ELSE IF ~Cancelled(i) THEN "snapshot"
             ELSE IF i \in due THEN "backstop" ELSE "leave")
  /\ UNCHANGED <<storeVars, slotVars, signalVars, watcher, exec, cancel, otherVars>>

Backstop(i) ==
  /\ task[i] = "backstop"
  /\ Fail(i, "deadline_exceeded")
  /\ Then(i, "leave")

Snapshot(i) ==
  /\ task[i] = "snapshot"
  /\ Goto(i, "choose")
  /\ seen' = [seen EXCEPT ![i] = Slots!Holders]
  /\ UNCHANGED <<storeVars, slotVars, ear, token, registered, watcher, exec, cancel, otherVars>>

(* oldest_queued_in_scope_excluding                                        *)
Oldest(s, skip) ==
  LET waiting == {j \in Ids \ skip : mem[j].state = "queued" /\ mem[j].scope = s}
  IN  {j \in waiting : \A k \in waiting : j <= k}

Bug_AnyQueued(s, skip) == {j \in Ids \ skip : mem[j].state = "queued" /\ mem[j].scope = s}

FifoHead(s, skip) == Oldest(s, skip)

Choose(i) ==
  /\ task[i] = "choose"
  /\ Goto(i, IF i \in FifoHead(mem[i].scope, seen[i]) THEN "admit" ELSE "wait")
  /\ seen' = [seen EXCEPT ![i] = {}]
  /\ UNCHANGED <<storeVars, slotVars, ear, token, registered, watcher, exec, cancel, otherVars>>

(* try_admit: the ledger and its mutex first, then notify_waiters.  The    *)
(* notifier's state is read by nobody between the two.                     *)
TryAdmit(i) ==
  LET s == published[i].scope IN
  /\ task[i] = "admit"
  /\ \/ Slots!Admit(s, i) /\ Goto(i, "enter")
        /\ ear' = [j \in Ids |-> IF j = i THEN "deaf"
                                 ELSE IF ear[j] = "listening" THEN "woken" ELSE ear[j]]
     \/ Slots!Refused(s, i) /\ Goto(i, "wait") /\ UNCHANGED <<slotVars, ear>>
  /\ UNCHANGED <<storeVars, seen, token, registered, watcher, exec, cancel, otherVars>>

(* select! { notified, cancelled }, then around the loop.                  *)
Wake(i) ==
  /\ task[i] = "wait"
  /\ ear[i] = "woken" \/ Cancelled(i)
  /\ Goto(i, "listen")
  /\ ear' = [ear EXCEPT ![i] = "deaf"]
  /\ UNCHANGED <<storeVars, slotVars, seen, token, registered, watcher, exec, cancel, otherVars>>

-----------------------------------------------------------------------------
(* run_invocation, holding a slot.                                         *)

(* A return that bypasses the drop of the slot.                            *)
Bug_EarlyReturnKeepsSlot(i) ==
  /\ task[i] = "enter"
  /\ Goto(i, IF Cancelled(i) THEN "leave" ELSE "prepare")
  /\ UNCHANGED <<storeVars, slotVars, signalVars, watcher, exec, cancel, otherVars>>

Enter(i) ==
  /\ task[i] = "enter"
  /\ Goto(i, IF Cancelled(i) THEN "release" ELSE "prepare")
  /\ UNCHANGED <<storeVars, slotVars, signalVars, watcher, exec, cancel, otherVars>>

(* Fetch the input_ref, init the task, project its context.  A cancelled   *)
(* token abandons the fetch; any of the three can fail the invocation      *)
(* before it runs ("task_init_failed" stands for their codes).             *)
Prepare(i) ==
  /\ task[i] = "prepare"
  /\ \/ Goto(i, "last_check")
        /\ UNCHANGED <<storeVars, slotVars, signalVars, watcher, exec, cancel, otherVars>>
     \/ Cancelled(i) /\ Goto(i, "release")
        /\ UNCHANGED <<storeVars, slotVars, signalVars, watcher, exec, cancel, otherVars>>
     \/ Fail(i, "task_init_failed") /\ Then(i, "release")

LastCheck(i) ==
  /\ task[i] = "last_check"
  /\ Goto(i, IF Cancelled(i) THEN "release" ELSE "start")
  /\ UNCHANGED <<storeVars, slotVars, signalVars, watcher, exec, cancel, otherVars>>

Bug_StartRegardless(i) == "spawn"

(* The write to running decides: an error ends the task without a run.     *)
AfterStart(i) == IF mem'[i].state = "running" THEN "spawn" ELSE "release"

StartRunning(i) ==
  /\ task[i] = "start"
  /\ Attempt(i, "running", "none")
  /\ Then(i, AfterStart(i))

(* notify_waiters, then the executor is spawned.                           *)
Spawn(i) ==
  /\ task[i] = "spawn"
  /\ NotifyWaiters
  /\ exec' = [exec EXCEPT ![i] = "running"]
  /\ runs' = [runs EXCEPT ![i] = @ + 1]
  /\ Goto(i, "executing")
  /\ UNCHANGED <<storeVars, slotVars, seen, token, registered, watcher, cancel, due, expired, shutdown>>

(* HttpTaskExecutor::execute, its own run timeout: the executor cancels    *)
(* the token it was given, drops the run and unwinds.                      *)
ExecutorTimesOut(i) ==
  /\ exec[i] = "running" /\ i \notin expired
  /\ token' = [token EXCEPT ![i] = "cancelled"]
  /\ expired' = expired \cup {i}
  /\ UNCHANGED <<storeVars, slotVars, task, ear, seen, registered, watcher, exec, cancel,
                 due, runs, shutdown>>

(* It returns: the run may have finished, failed (or panicked), or stopped *)
(* because of its token. One that has timed out reports a failure, and     *)
(* only one that saw the token cancelled by somebody else                  *)
(* TaskOutcomeKind::Cancelled.                                             *)
ExecutorReturns(i, outcome) ==
  /\ exec[i] = "running"
  /\ i \in expired => outcome = "failed"
  /\ outcome = "stopped" => Cancelled(i)
  /\ exec' = [exec EXCEPT ![i] = outcome]
  /\ expired' = expired \ {i}
  /\ UNCHANGED <<storeVars, slotVars, task, signalVars, watcher, cancel, due, runs, shutdown>>

Returned(i) == exec[i] \in Outcomes

(* TaskOutcomeKind::Cancelled is reported by the flag of the branch that   *)
(* saw the token, not by the token, which the timeout cancels too.         *)
Bug_JudgesByToken(i) == Cancelled(i) /\ exec[i] # "completed"
KindCancelled(i) == exec[i] = "stopped"

(* A task that stops waiting for its executor as soon as the token fires.  *)
Bug_LeavesExecutorBehind(i) ==
  /\ task[i] = "executing"
  /\ \/ Returned(i) /\ Goto(i, "judge")
     \/ ~Returned(i) /\ Cancelled(i) /\ Goto(i, "record_cancel")
  /\ UNCHANGED <<storeVars, slotVars, signalVars, watcher, exec, cancel, otherVars>>

(* The biased select: the join handle is polled before the token.          *)
Join(i) ==
  /\ task[i] = "executing"
  /\ \/ Returned(i) /\ Goto(i, "judge")
     \/ ~Returned(i) /\ Cancelled(i) /\ Goto(i, "unwind")
  /\ UNCHANGED <<storeVars, slotVars, signalVars, watcher, exec, cancel, otherVars>>

(* A cancelled run whose outcome nobody records.                           *)
Bug_UnwindForgetsRecord(i) ==
  /\ task[i] = "unwind"
  /\ Returned(i)
  /\ Goto(i, IF KindCancelled(i) THEN "release" ELSE "judge")
  /\ UNCHANGED <<storeVars, slotVars, signalVars, watcher, exec, cancel, otherVars>>

(* The token was seen first: wait for the executor, keep a real outcome.   *)
Unwind(i) ==
  /\ task[i] = "unwind"
  /\ Returned(i)
  /\ Goto(i, IF KindCancelled(i) THEN "record_cancel" ELSE "judge")
  /\ UNCHANGED <<storeVars, slotVars, signalVars, watcher, exec, cancel, otherVars>>

RecordCancel(i) ==
  /\ task[i] = "record_cancel"
  /\ Attempt(i, "cancelled", "none")
  /\ Then(i, "release")

(* apply_task_outcome.  A completed run may still fail the invocation: its *)
(* status, its usage or its budget.  Every other outcome that arrives by   *)
(* the join handle fails it, a cancelled one included ("task_failed"       *)
(* stands for all the codes of a run).                                     *)
Judge(i) ==
  /\ task[i] = "judge"
  /\ \/ exec[i] = "completed" /\ Attempt(i, "succeeded", "none")
     \/ Fail(i, "task_failed")
  /\ Then(i, "release")

(* AdmittedSlot::drop, which notifies when it freed a slot.                *)
DropSlot(i) ==
  /\ task[i] = "release"
  /\ Slots!Release(i)
  /\ IF i \in Slots!Holders THEN NotifyWaiters ELSE UNCHANGED ear
  /\ Goto(i, "leave")
  /\ UNCHANGED <<storeVars, seen, token, registered, watcher, exec, cancel, otherVars>>

(* token.cancel(); cancellations.remove(&id)                               *)
Leave(i) ==
  /\ task[i] = "leave"
  /\ token' = [token EXCEPT ![i] = "cancelled"]
  /\ registered' = registered \ {i}
  /\ ear' = [ear EXCEPT ![i] = "deaf"]
  /\ Goto(i, "done")
  /\ UNCHANGED <<storeVars, slotVars, seen, watcher, exec, cancel, otherVars>>

-----------------------------------------------------------------------------
(* watch_deadline: sleep until the deadline, or give up when the token or  *)
(* the shutdown fires; then read, cancel the token, write, notify.         *)

DeadlinePasses(i) ==
  /\ watcher[i] # "none" /\ i \in WithDeadline \ due
  /\ due' = due \cup {i}
  /\ UNCHANGED <<storeVars, slotVars, task, signalVars, watcher, exec, expired, cancel, runs,
                 shutdown>>

Watch(i, from, step) ==
  watcher[i] = from /\ watcher' = [watcher EXCEPT ![i] = step]

WatcherWakes(i) ==
  /\ \/ i \in due /\ Watch(i, "asleep", "read")
     \/ (Cancelled(i) \/ shutdown) /\ Watch(i, "asleep", "done")
  /\ UNCHANGED <<storeVars, slotVars, task, signalVars, exec, cancel, otherVars>>

WatcherReads(i) ==
  /\ Watch(i, "read", IF IsActive(mem[i]) THEN "signal" ELSE "done")
  /\ UNCHANGED <<storeVars, slotVars, task, signalVars, exec, cancel, otherVars>>

(* A watcher that leaves the write to the task it wakes.                   *)
Bug_LeavesWriteToTask(i) ==
  /\ Watch(i, "signal", "notify")
  /\ token' = [token EXCEPT ![i] = "cancelled"]
  /\ UNCHANGED <<storeVars, slotVars, task, ear, seen, registered, exec, cancel, otherVars>>

WatcherSignals(i) ==
  /\ Watch(i, "signal", "write")
  /\ token' = [token EXCEPT ![i] = "cancelled"]
  /\ UNCHANGED <<storeVars, slotVars, task, ear, seen, registered, exec, cancel, otherVars>>

WatcherWrites(i) ==
  /\ watcher[i] = "write"
  /\ Fail(i, "deadline_exceeded")
  /\ IF up' THEN /\ watcher' = [watcher EXCEPT ![i] = "notify"]
                 /\ UNCHANGED <<slotVars, task, signalVars, exec, cancel, otherVars>>
            ELSE Die

WatcherNotifies(i) ==
  /\ Watch(i, "notify", "done")
  /\ NotifyWaiters
  /\ UNCHANGED <<storeVars, slotVars, task, seen, token, registered, exec, cancel, otherVars>>

-----------------------------------------------------------------------------
(* The cancel handler, one call at a time (InvocationApi has them overlap). *)

CancelReads(i) ==
  /\ "cancel" \in Environment /\ up
  /\ \/ cancel.at = "idle" /\ Stored(mem[i])
     \/ cancel.at = "read" /\ cancel.id = i
  /\ LET target == CancelTarget(mem[i].state) IN
     cancel' = IF target = "none" THEN NoCall
               ELSE [at |-> "write", id |-> i, target |-> target,
                     attempts |-> cancel.attempts + 1]
  /\ UNCHANGED <<storeVars, slotVars, task, signalVars, watcher, exec, otherVars>>

CancelWrites ==
  LET i == cancel.id
      outcome == TransitionOutcome(i, 0, cancel.target, "none")
  IN
  /\ cancel.at = "write"
  /\ Attempt(i, cancel.target, "none")
  /\ IF up' THEN /\ cancel' = IF mem'[i].state = cancel.target THEN [cancel EXCEPT !.at = "signal"]
                              ELSE IF outcome = "illegal_transition" /\ cancel.attempts < 2
                                THEN [cancel EXCEPT !.at = "read"]
                              ELSE NoCall
                 /\ UNCHANGED <<slotVars, task, signalVars, watcher, exec, otherVars>>
            ELSE Die

(* A handler that drops the registration before it looks for the token.    *)
Bug_RemovesBeforeSignal ==
  /\ cancel.at = "signal"
  /\ registered' = registered \ {cancel.id}
  /\ cancel' = NoCall
  /\ UNCHANGED <<storeVars, slotVars, task, token, ear, seen, watcher, exec, otherVars>>

(* cancellations.cancel(&id), and .remove(&id) when the record is done.    *)
CancelSignals ==
  LET i == cancel.id IN
  /\ cancel.at = "signal"
  /\ token' = IF i \in registered THEN [token EXCEPT ![i] = "cancelled"] ELSE token
  /\ registered' = IF cancel.target = "cancelled" THEN registered \ {i} ELSE registered
  /\ cancel' = NoCall
  /\ UNCHANGED <<storeVars, slotVars, task, ear, seen, watcher, exec, otherVars>>

-----------------------------------------------------------------------------
(* Shutdown cancels every token and lets the tasks unwind; the process may *)
(* die at any time.  A restart dispatches nothing.                         *)

Shutdown ==
  /\ "shutdown" \in Environment /\ up /\ ~shutdown
  /\ shutdown' = TRUE
  /\ UNCHANGED <<storeVars, slotVars, task, signalVars, watcher, exec, cancel, due, expired, runs>>

ShutdownSignals(i) ==
  /\ shutdown /\ task[i] \in Admitting \cup Holding /\ ~Cancelled(i)
  /\ token' = [token EXCEPT ![i] = "cancelled"]
  /\ UNCHANGED <<storeVars, slotVars, task, ear, seen, registered, watcher, exec, cancel, otherVars>>

ProcessCrash == "crash" \in Environment /\ Crash /\ Die

Restart ==
  /\ Open /\ up'
  /\ UNCHANGED <<slotVars, task, signalVars, watcher, exec, cancel, otherVars>>

-----------------------------------------------------------------------------
BridgeInit ==
  /\ StoreInit /\ Slots!Init
  /\ task = [i \in Ids |-> "none"] /\ watcher = [i \in Ids |-> "none"]
  /\ ear = [i \in Ids |-> "deaf"] /\ seen = [i \in Ids |-> {}]
  /\ token = [i \in Ids |-> "none"] /\ registered = {}
  /\ due = {} /\ expired = {} /\ exec = [i \in Ids |-> "none"] /\ runs = [i \in Ids |-> 0]
  /\ cancel = NoCall /\ shutdown = FALSE

TaskStep(i) ==
  \/ Dispatch(i) \/ Listen(i) \/ Recheck(i) \/ Backstop(i) \/ Snapshot(i) \/ Choose(i)
  \/ TryAdmit(i) \/ Wake(i) \/ Enter(i) \/ Prepare(i) \/ LastCheck(i) \/ StartRunning(i)
  \/ Spawn(i) \/ Join(i) \/ Unwind(i) \/ RecordCancel(i) \/ Judge(i) \/ DropSlot(i) \/ Leave(i)

ExecutorStep(i) == \E outcome \in Outcomes : ExecutorReturns(i, outcome)

WatcherStep(i) ==
  \/ DeadlinePasses(i) \/ WatcherWakes(i) \/ WatcherReads(i) \/ WatcherSignals(i)
  \/ WatcherWrites(i) \/ WatcherNotifies(i)

(* What follows the first read of a cancel call.                           *)
CancelStep == \/ cancel.at = "read" /\ CancelReads(cancel.id)
              \/ CancelWrites \/ CancelSignals

Idle == (\A i \in Ids : task[i] \in {"none", "done"}) /\ UNCHANGED bridgeVars

BridgeNext ==
  \/ \E i \in Ids :
       \/ \E s \in Scopes : Submit(i, s)
       \/ TaskStep(i) \/ ExecutorStep(i) \/ WatcherStep(i)
       \/ ExecutorTimesOut(i) \/ CancelReads(i) \/ ShutdownSignals(i)
  \/ CancelStep \/ Shutdown \/ ProcessCrash \/ Restart \/ Idle

BridgeSpec == BridgeInit /\ [][BridgeNext]_bridgeVars

(* Tokio polls every woken task; sleeps end; an executor returns, because  *)
(* agents.timeout_seconds (300 by default; 0 would switch it off) ends its *)
(* run; a cancel call once started is carried through.  Nobody has to      *)
(* submit or to start a cancel.                                            *)
BridgeFairness ==
  /\ \A i \in Ids : /\ WF_bridgeVars(TaskStep(i))
                    /\ WF_bridgeVars(ExecutorStep(i))
                    /\ WF_bridgeVars(WatcherStep(i))
  /\ WF_bridgeVars(CancelStep)

FairBridge == BridgeSpec /\ BridgeFairness

-----------------------------------------------------------------------------
(* Properties.                                                             *)

TaskSteps  == Admitting \cup Holding \cup {"none", "new", "leave", "done"}
WatchSteps == {"none", "asleep", "read", "signal", "write", "notify", "done"}

(* The shape of the bridge's own state, on top of the store's and the      *)
(* ledger's.                                                               *)
BridgeTypeOK ==
  /\ StoreTypeOK /\ Slots!SlotsTypeOK
  /\ task \in [Ids -> TaskSteps] /\ watcher \in [Ids -> WatchSteps]
  /\ ear \in [Ids -> {"deaf", "listening", "woken"}] /\ seen \in [Ids -> SUBSET Ids]
  /\ token \in [Ids -> {"none", "live", "cancelled"}] /\ registered \subseteq Ids
  /\ exec \in [Ids -> {"none", "running"} \cup Outcomes] /\ runs \in [Ids -> Nat]
  /\ due \subseteq WithDeadline /\ expired \subseteq Ids /\ shutdown \in BOOLEAN
  /\ cancel \in [at : {"idle", "read", "write", "signal"}, id : Ids \cup {0},
                  target : {"none", "cancelled", "cancel_requested"}, attempts : 0..2]

(* A slot is held by exactly the tasks that may run: no early return,      *)
(* failed write, cancel, deadline or shutdown leaks one, and no task works *)
(* on a slot it has given back.                                            *)
SlotsHaveOwners ==
  \A i \in Ids : admitted[i] # None <=> task[i] \in Holding

Executing(A) == {i \in A : exec[i] = "running"}

(* What the limits are for: no more executors run than the limits allow,   *)
(* globally, per tenant and per scope, whoever is cancelled on the way.    *)
ExecutorsWithinLimits ==
  LET by(s) == {i \in Ids : published[i].scope = s}
  IN  /\ Cardinality(Executing(Ids)) <= MaxGlobal
      /\ \A s \in Scopes : Cardinality(Executing(by(s))) <= MaxPerScope
      /\ \A t \in Tenants :
           Cardinality(Executing({i \in Ids : \E s \in Scopes :
                                    TenantOf[s] = t /\ i \in by(s)})) <= MaxPerTenant

(* An executor is started at most once, and only for an invocation whose   *)
(* record went through running: one that was cancelled, failed or lost     *)
(* before it started never reaches the executor.  (Revision 1 is queued;   *)
(* a record that ran has a higher one, and one more when it is finished.)  *)
RunsAreOnRecord ==
  \A i \in Ids :
    /\ runs[i] <= 1
    /\ runs[i] = 1 =>
         published[i].rev >= IF IsTerminal(published[i]) THEN 3 ELSE 2

(* succeeded is recorded only for a run that completed: never for one that *)
(* was stopped, failed or never started. cancelled is recorded only where  *)
(* no executor ran, or where it stopped because somebody else than itself  *)
(* had cancelled its token: a run that finished anyway keeps its outcome,  *)
(* and one that timed out is a failure, although its timeout cancels the   *)
(* same token. There is one cancel call at a time here; two that overlap   *)
(* may break the rule on cancelled (RepeatedCancelIsNoOp of InvocationApi).*)
OutcomesAreEarned ==
  \A i \in Ids :
    /\ published[i].state = "succeeded" => exec[i] = "completed"
    /\ published[i].state = "cancelled" => exec[i] \in {"none", "stopped"}

(* No invocation is forgotten: while its record is unfinished, something   *)
(* is still going to finish it - its task or its deadline watcher.  A      *)
(* write that fails is not retried, and a shutdown leaves the rest to the  *)
(* restart: the property is about the times without either.                *)
NobodyForgotten ==
  "write_failure" \notin Environment /\ up /\ ~shutdown =>
    \A i \in Ids :
      IsActive(mem[i]) => \/ task[i] \notin {"none", "leave", "done"}
                         \/ watcher[i] \in {"signal", "write"}

(* FIFO within a scope: a slot never goes to an invocation while an older  *)
(* one of its scope is queued and its task is still waiting for a slot,    *)
(* although the snapshot of the ledger the choice is made with is stale.   *)
FifoWithinScope ==
  [][\A i, j \in Ids :
       /\ admitted[i] = None /\ admitted'[i] # None
       /\ j < i /\ mem[j].scope = admitted'[i]
       => ~(mem[j].state = "queued" /\ admitted[j] = None
              /\ task[j] \in Admitting \cup {"new"})]_bridgeVars

(* A queued invocation that was cancelled: revision 1, then 2.             *)
CancelledWhileQueued(j) == published[j].state = "cancelled" /\ published[j].rev = 2

(* The head of its scope has gone to sleep beside a free slot.             *)
SleepsByFreeSlot(i) ==
  /\ task[i] = "wait" /\ ear[i] # "woken" /\ ~Cancelled(i)
  /\ mem[i].state = "queued" /\ i \in FifoHead(mem[i].scope, Slots!Holders)
  /\ Slots!CanAcquire(mem[i].scope)

(* No wake-up is missed between the checks of a task and its sleep: a head *)
(* sleeps beside a free slot only behind an older one of its scope that    *)
(* was cancelled while queued, which wakes nobody (see FreeSlotIsTaken),   *)
(* or whose deadline watcher has its notify_waiters still before it.  A    *)
(* shutdown wakes by the token, and a record whose write failed is still   *)
(* queued: the property is about the times without either.                 *)
HeadIsWoken ==
  "write_failure" \notin Environment /\ up /\ ~shutdown =>
    \A i \in Ids : SleepsByFreeSlot(i) =>
      \E j \in Ids : /\ j < i /\ published[j].scope = mem[i].scope
                     /\ CancelledWhileQueued(j) \/ watcher[j] \in {"write", "notify"}

(* A requested cancel reaches the run: once it is on record, the token is  *)
(* cancelled, or the call that wrote it is about to signal and the token   *)
(* is still registered.  The record, the registry and the token change in  *)
(* three steps, with the start and the end of the task in between.         *)
CancelReachesRun ==
  \A i \in Ids :
    mem[i].state = "cancel_requested" =>
      Cancelled(i) \/ (cancel.at = "signal" /\ cancel.id = i /\ i \in registered)

(* Every accepted invocation reaches an outcome, unless another one of its *)
(* scope is cancelled while queued: that cancel wakes nobody (see          *)
(* FreeSlotIsTaken).                                                       *)
FinishesUnlessQueuedPeerCancelled ==
  \A i \in Ids :
    i \in issued ~>
      \/ IsTerminal(published[i])
      \/ \E j \in Ids \ {i} : CancelledWhileQueued(j)

(* An accepted cancel ends the invocation: cancel_requested is left, for   *)
(* whatever the race between the executor and its token brings.            *)
CancelTakesEffect ==
  \A i \in Ids :
    published[i].state = "cancel_requested" ~> IsTerminal(published[i])

(* Every slot comes back.                                                  *)
SlotsComeBack == \A i \in Ids : admitted[i] # None ~> admitted[i] = None

(* docs/29 section 7.3: "the server starts the oldest still-queued         *)
(* invocation in that scope": a waiting head does not wait for ever beside *)
(* a free slot.                                                            *)
FreeSlotIsTaken ==
  \A i \in Ids :
    (task[i] = "wait" /\ i \in FifoHead(mem[i].scope, Slots!Holders)
       /\ Slots!CanAcquire(mem[i].scope)) ~> task[i] # "wait"

(* Comment in run_invocation: a cancel that was requested waits for the    *)
(* executor and records `cancelled` unless it finished anyway; failed is   *)
(* for a run cancelled "without a cancel request".                         *)
RequestedCancelIsRecorded ==
  [][\A i \in Ids :
       published[i].state = "cancel_requested" /\ exec[i] = "stopped"
         => published'[i].state # "failed"]_bridgeVars

(* The bridge implements the contract: an invocation is in the queue while *)
(* its task is in the admission loop, and has a claim to run until its     *)
(* record is past queued; the write to running and the spawn are two       *)
(* steps, and a deadline between them does not take the run back.          *)
Stage == [i \in Ids |->
            IF i \notin issued THEN "none"
            ELSE IF admitted[i] # None
              THEN IF exec[i] = "running" THEN "running"
                   ELSE IF runs[i] = 0 /\ (mem[i].state = "queued" \/ task[i] = "spawn")
                     THEN "slot" ELSE "spent"
            ELSE IF task[i] = "new" \/ task[i] \in Admitting
              THEN IF mem[i].state = "queued" THEN "queue" ELSE "withdrawn"
            ELSE "over"]

Home == [i \in Ids |-> IF task[i] = "none" THEN None ELSE published[i].scope]

Execution == INSTANCE ExecutionContract WITH stage <- Stage, home <- Home

KeepsExecutionContract == Execution!Spec
=============================================================================
