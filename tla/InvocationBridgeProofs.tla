----------------------- MODULE InvocationBridgeProofs ------------------------
(***************************************************************************)
(* The execution bridge for any number of invocations, scopes and tenants, *)
(* any limits and any environment. The argument goes up in layers, each an *)
(* inductive invariant of its own:                                         *)
(* - the bridge is a client of the store (BridgeIsStoreClient), so the     *)
(*   store's theorems hold beneath it; the ledger's are taken through      *)
(*   Ledger, an instance of its proofs;                                    *)
(* - OwnersInv ties slots, tasks, scopes and executors together: the       *)
(*   ledger's caps say nothing of executors without it;                    *)
(* - RunsInv adds that a task passes its spawn once, after its record      *)
(*   ran (a rev above that of queued is what a reader can see of it);      *)
(* - DownInv says what a crash leaves, so that no later layer has to       *)
(*   speak of a process that is down;                                      *)
(* - OutcomesInv keeps apart the runs that are under way, of which         *)
(*   nobody records the end but their task or the deadline;                *)
(* - StagesInv and AttendedInv follow a token that was cancelled back to   *)
(*   whoever finishes the record instead of the task;                      *)
(* - OrderInv holds from a task's choice to its try_admit;                 *)
(* - ReachInv follows a requested cancel to the token of the run;          *)
(* - WakeInv names, for a task that goes to sleep, whoever will wake it.   *)
(* On top of them the bridge implements ExecutionContract, and with the    *)
(* store beneath it InvocationContract.                                    *)
(***************************************************************************)
EXTENDS InvocationBridge, InvocationContractProofs

Ledger == INSTANCE RunningSlotsProofs WITH NotAdmitted <- None

-----------------------------------------------------------------------------
(* The ledger inside the bridge.                                           *)

(* The limits of the bridge are limits of the ledger.                      *)
LEMMA LimitsHold == Ledger!SlotLimits
  BY BridgeConfig, NoneIsNoValue, StoreConfig
  DEF Ledger!SlotLimits, IsFiniteSet, Ledger!IsFiniteSet

(* Cardinality is one operator, whichever instance of FiniteSets it is     *)
(* read through.                                                           *)
LEMMA SameSize == \A S : Ledger!Cardinality(S) = Cardinality(S)
  BY DEF Cardinality, Ledger!Cardinality

(* The instance of RunningSlots the bridge steps, and the one its theorems *)
(* are stated for, are the same ledger.                                    *)
LEMMA SameLedger ==
  /\ Slots!Holders = Ledger!Holders
  /\ Slots!Init <=> Ledger!Init
  /\ Slots!SlotsTypeOK <=> Ledger!SlotsTypeOK
  /\ \A i \in Ids : /\ Slots!Release(i) <=> Ledger!Release(i)
                    /\ \A s \in Scopes : Slots!Admit(s, i) <=> Ledger!Admit(s, i)
  BY DEF Slots!Holders, Ledger!Holders, Slots!Init, Ledger!Init, Slots!SlotsTypeOK,
         Ledger!SlotsTypeOK, Slots!Release, Ledger!Release, Slots!Admit, Ledger!Admit,
         Slots!CanAcquire, Ledger!CanAcquire, Slots!Less, Ledger!Less,
         Slots!slotVars, Ledger!slotVars

-----------------------------------------------------------------------------
(* The actions, grouped by what they leave alone.                          *)

(* A task step that neither writes the store nor touches the ledger.       *)
PlainStep(i) ==
  \/ Dispatch(i) \/ Listen(i) \/ Recheck(i) \/ Snapshot(i) \/ Choose(i) \/ Wake(i)
  \/ Enter(i) \/ LastCheck(i) \/ Spawn(i) \/ Join(i) \/ Unwind(i) \/ Leave(i)

(* A task writes the record of its invocation and goes on, or the process  *)
(* dies in the write.                                                      *)
WritingStep(i) ==
  \/ Backstop(i) \/ Prepare(i) \/ StartRunning(i) \/ RecordCancel(i) \/ Judge(i)

(* A step of a watcher that does not write.                                *)
WatchStep(i) ==
  \/ DeadlinePasses(i) \/ WatcherWakes(i) \/ WatcherReads(i) \/ WatcherSignals(i)
  \/ WatcherNotifies(i)

(* A step of the environment that writes nothing.                          *)
QuietStep ==
  \/ CancelSignals \/ Shutdown
  \/ \E i \in Ids : CancelReads(i) \/ ShutdownSignals(i) \/ ExecutorTimesOut(i)

(* The cancel call in progress is about an invocation, aims at one of the  *)
(* two states of a cancel, and has an attempt left when it reads again.    *)
CallOK ==
  /\ cancel.at = "idle" => cancel = NoCall
  /\ cancel.at # "idle" => cancel.id \in Ids
  /\ cancel.at \in {"write", "signal"} => cancel.target \in {"cancelled", "cancel_requested"}
  /\ cancel.at = "read" => cancel.attempts < 2

(* The types of the bridge's own variables; an executor unwinds from its   *)
(* timeout while it runs.                                                  *)
OwnTypeOK ==
  /\ task \in [Ids -> TaskSteps] /\ watcher \in [Ids -> WatchSteps]
  /\ ear \in [Ids -> {"deaf", "listening", "woken"}] /\ seen \in [Ids -> SUBSET Ids]
  /\ token \in [Ids -> {"none", "live", "cancelled"}] /\ registered \subseteq Ids
  /\ exec \in [Ids -> {"none", "running"} \cup Outcomes] /\ runs \in [Ids -> Nat]
  /\ due \subseteq WithDeadline /\ shutdown \in BOOLEAN
  /\ expired \subseteq {i \in Ids : exec[i] = "running"}
  /\ cancel \in [at : {"idle", "read", "write", "signal"}, id : Ids \cup {0},
                  target : {"none", "cancelled", "cancel_requested"}, attempts : 0..2]

(* Every step of the bridge is one of these.                               *)
LEMMA BridgeSteps ==
  ASSUME BridgeNext, OwnTypeOK, CallOK
  PROVE  \/ \E i \in Ids, s \in Scopes : Submit(i, s)
         \/ \E i \in Ids : PlainStep(i)
         \/ \E i \in Ids : WritingStep(i)
         \/ \E i \in Ids : TryAdmit(i)
         \/ \E i \in Ids : DropSlot(i)
         \/ \E i \in Ids : ExecutorStep(i)
         \/ \E i \in Ids : WatchStep(i)
         \/ \E i \in Ids : WatcherWrites(i)
         \/ QuietStep
         \/ CancelWrites
         \/ ProcessCrash
         \/ Restart
         \/ UNCHANGED bridgeVars
  <1>1. CASE CancelStep
    BY <1>1 DEF CancelStep, QuietStep, CallOK
  <1>2. CASE Shutdown \/ ProcessCrash \/ Restart \/ Idle
    BY <1>2 DEF QuietStep, Idle
  <1>3. ASSUME NEW i \in Ids, TaskStep(i)
        PROVE  PlainStep(i) \/ WritingStep(i) \/ TryAdmit(i) \/ DropSlot(i)
    BY <1>3 DEF TaskStep, PlainStep, WritingStep
  <1>4. ASSUME NEW i \in Ids, WatcherStep(i)
        PROVE  WatchStep(i) \/ WatcherWrites(i)
    BY <1>4 DEF WatcherStep, WatchStep
  <1> QED
    BY <1>1, <1>2, <1>3, <1>4 DEF BridgeNext, QuietStep

-----------------------------------------------------------------------------
(* Types.                                                                  *)

(* The values everything starts from.                                      *)
LEMMA StartTypes ==
  /\ [i \in Ids |-> {}] \in [Ids -> SUBSET Ids]
  /\ [i \in Ids |-> "none"] \in [Ids -> TaskSteps]
  /\ [i \in Ids |-> "none"] \in [Ids -> WatchSteps]
  /\ [i \in Ids |-> "none"] \in [Ids -> {"none", "running"} \cup Outcomes]
  /\ [i \in Ids |-> "deaf"] \in [Ids -> {"deaf", "listening", "woken"}]
  /\ [i \in Ids |-> 0] \in [Ids -> Nat]
  /\ NoCall \in [at : {"idle", "read", "write", "signal"}, id : Ids \cup {0},
                  target : {"none", "cancelled", "cancel_requested"}, attempts : 0..2]
  BY DEF TaskSteps, WatchSteps, NoCall

(* A dead process leaves no call, task, watcher, token or slot.            *)
LEMMA DieTypes ==
  ASSUME OwnTypeOK, Die
  PROVE  OwnTypeOK' /\ CallOK' /\ Ledger!Init'
  <1>1. exec' \in [Ids -> {"none", "running"} \cup Outcomes]
    BY DEF OwnTypeOK, Die
  <1>2. OwnTypeOK'
    BY <1>1, StartTypes DEF OwnTypeOK, Die
  <1>3. CallOK'
    BY DEF Die, CallOK, NoCall
  <1>4. Ledger!Init'
    BY DEF Die, Ledger!Init
  <1> QED
    BY <1>2, <1>3, <1>4

(* Waking the listeners.                                                   *)
LEMMA NotifyTypes ==
  ASSUME OwnTypeOK, NotifyWaiters
  PROVE  ear' \in [Ids -> {"deaf", "listening", "woken"}]
  BY DEF OwnTypeOK, NotifyWaiters

(* Every step of a task, a watcher, a call or the environment keeps the    *)
(* types: a task moves between known steps, a cancel call never starts a   *)
(* third attempt, and a crash resets everything it should.                 *)
LEMMA OwnTypesStep ==
  ASSUME OwnTypeOK, CallOK, BridgeNext
  PROVE  OwnTypeOK' /\ CallOK'
  <1>1. ASSUME NEW i \in Ids, NEW s \in Scopes, Submit(i, s)
        PROVE  OwnTypeOK' /\ CallOK'
    BY <1>1, DieTypes DEF Submit, OwnTypeOK, CallOK, Goto, TaskSteps, signalVars, otherVars
  <1>2. ASSUME NEW i \in Ids, PlainStep(i)
        PROVE  OwnTypeOK' /\ CallOK'
    <2>1. CASE Dispatch(i) \/ Listen(i) \/ Recheck(i) \/ Wake(i) \/ Leave(i)
      BY <1>2, <2>1 DEF Dispatch, Listen, Recheck, Wake, Leave, Goto, OwnTypeOK, CallOK,
            TaskSteps, WatchSteps, Admitting, Holding, signalVars, otherVars
    <2>2. CASE Snapshot(i) \/ Choose(i)
      BY <1>2, <2>2 DEF Snapshot, Choose, Goto, OwnTypeOK, CallOK, Slots!Holders,
            TaskSteps, Admitting, Holding, signalVars, otherVars
    <2>3. CASE Enter(i) \/ LastCheck(i) \/ Join(i) \/ Unwind(i)
      BY <1>2, <2>3 DEF Enter, LastCheck, Join, Unwind, Goto, OwnTypeOK, CallOK,
            TaskSteps, Admitting, Holding, signalVars, otherVars
    <2>4. CASE Spawn(i)
      BY <1>2, <2>4, NotifyTypes DEF Spawn, Goto, OwnTypeOK, CallOK,
            TaskSteps, Admitting, Holding, signalVars, otherVars
    <2> QED
      BY <1>2, <2>1, <2>2, <2>3, <2>4 DEF PlainStep
  <1>3. ASSUME NEW i \in Ids, WritingStep(i)
        PROVE  OwnTypeOK' /\ CallOK'
    <2>1. ASSUME NEW step \in TaskSteps, Then(i, step) PROVE OwnTypeOK' /\ CallOK'
      BY <2>1, DieTypes DEF Then, Goto, OwnTypeOK, CallOK, signalVars, otherVars
    <2>2. {"leave", "release", "last_check", "spawn"} \subseteq TaskSteps
      BY DEF TaskSteps, Holding
    <2>3. CASE Backstop(i) \/ StartRunning(i) \/ RecordCancel(i) \/ Judge(i)
      BY <2>1, <2>2, <2>3 DEF Backstop, StartRunning, RecordCancel, Judge, AfterStart
    <2>4. CASE Prepare(i)
      BY <2>1, <2>2, <2>4 DEF Prepare, Goto, OwnTypeOK, CallOK, signalVars, otherVars
    <2> QED
      BY <1>3, <2>3, <2>4 DEF WritingStep
  <1>4. ASSUME NEW i \in Ids, TryAdmit(i)
        PROVE  OwnTypeOK' /\ CallOK'
    BY <1>4 DEF TryAdmit, Goto, OwnTypeOK, CallOK, TaskSteps, Admitting, Holding, otherVars
  <1>5. ASSUME NEW i \in Ids, DropSlot(i)
        PROVE  OwnTypeOK' /\ CallOK'
    BY <1>5, NotifyTypes DEF DropSlot, Goto, OwnTypeOK, CallOK, TaskSteps, otherVars
  <1>6. ASSUME NEW i \in Ids, ExecutorStep(i)
        PROVE  OwnTypeOK' /\ CallOK'
    BY <1>6 DEF ExecutorStep, ExecutorReturns, OwnTypeOK, CallOK, signalVars, otherVars
  <1>7. ASSUME NEW i \in Ids, WatchStep(i)
        PROVE  OwnTypeOK' /\ CallOK'
    <2>1. CASE DeadlinePasses(i) \/ WatcherWakes(i) \/ WatcherReads(i) \/ WatcherSignals(i)
      BY <2>1 DEF DeadlinePasses, WatcherWakes, WatcherReads, WatcherSignals, Watch,
                  OwnTypeOK, CallOK, WatchSteps, signalVars, otherVars
    <2>2. CASE WatcherNotifies(i)
      BY <2>2, NotifyTypes DEF WatcherNotifies, Watch, OwnTypeOK, CallOK, WatchSteps, otherVars
    <2> QED
      BY <1>7, <2>1, <2>2 DEF WatchStep
  <1>8. ASSUME NEW i \in Ids, WatcherWrites(i)
        PROVE  OwnTypeOK' /\ CallOK'
    BY <1>8, DieTypes DEF WatcherWrites, OwnTypeOK, CallOK, WatchSteps, signalVars, otherVars
  <1>9. CASE QuietStep
    <2>1. CASE CancelSignals
      BY <2>1 DEF CancelSignals, NoCall, OwnTypeOK, CallOK, otherVars
    <2>2. CASE Shutdown
      BY <2>2 DEF Shutdown, OwnTypeOK, CallOK, signalVars
    <2>3. ASSUME NEW i \in Ids, CancelReads(i) PROVE OwnTypeOK' /\ CallOK'
      <3>1. CancelTarget(mem[i].state) \in {"none", "cancelled", "cancel_requested"}
        BY DEF CancelTarget
      <3>2. cancel.attempts \in {0, 1}
        BY <2>3 DEF CancelReads, CallOK, NoCall, OwnTypeOK
      <3> QED
        BY <2>3, <3>1, <3>2 DEF CancelReads, NoCall, OwnTypeOK, CallOK, signalVars, otherVars
    <2>4. ASSUME NEW i \in Ids, ShutdownSignals(i) \/ ExecutorTimesOut(i)
          PROVE  OwnTypeOK' /\ CallOK'
      BY <2>4 DEF ShutdownSignals, ExecutorTimesOut, OwnTypeOK, CallOK, otherVars
    <2> QED
      BY <1>9, <2>1, <2>2, <2>3, <2>4 DEF QuietStep
  <1>10. CASE CancelWrites
    <2>1. CASE up'
      BY <1>10, <2>1 DEF CancelWrites, NoCall, OwnTypeOK, CallOK, signalVars, otherVars
    <2>2. CASE ~up'
      BY <1>10, <2>2, DieTypes DEF CancelWrites
    <2> QED
      BY <2>1, <2>2
  <1>11. CASE ProcessCrash
    BY <1>11, DieTypes DEF ProcessCrash
  <1>12. CASE Restart \/ UNCHANGED bridgeVars
    BY <1>12 DEF Restart, bridgeVars, OwnTypeOK, CallOK, signalVars, otherVars
  <1> QED
    BY <1>1, <1>2, <1>3, <1>4, <1>5, <1>6, <1>7, <1>8, <1>9, <1>10, <1>11, <1>12, BridgeSteps

-----------------------------------------------------------------------------
(* The bridge is a client of the store.                                    *)

(* What the bridge puts into a patch is what a caller may put into one.    *)
LEMMA AttemptIsStoreStep ==
  ASSUME NEW i \in Ids, NEW next \in States,
         NEW code \in IF next = "failed" THEN Codes ELSE {"none"},
         Attempt(i, next, code)
  PROVE  StoreNext \/ UNCHANGED storeVars
  <1>1. CASE Transition(i, 0, next, code)
    BY <1>1 DEF StoreNext, TransitionAny
  <1> QED
    BY <1>1 DEF Attempt

(* Whatever a step of the bridge does to the store is a step of the store: *)
(* a create, a transition with a code its caller may use, an open, or a    *)
(* crash.                                                                  *)
LEMMA BridgeWrites ==
  ASSUME OwnTypeOK, CallOK, BridgeNext
  PROVE  StoreNext \/ UNCHANGED storeVars
  <1>0. /\ {"deadline_exceeded", "task_init_failed", "task_failed"} \subseteq Codes
        /\ {"running", "failed", "succeeded", "cancelled", "cancel_requested"} \subseteq States
    BY BridgeConfig DEF States, Active, Terminal
  <1>1. ASSUME NEW i \in Ids, NEW s \in Scopes, Submit(i, s) PROVE StoreNext
    BY <1>1 DEF Submit, StoreNext, CreateAny
  <1>2. ASSUME NEW i \in Ids, PlainStep(i) \/ TryAdmit(i) \/ DropSlot(i) \/ ExecutorStep(i) \/ WatchStep(i)
        PROVE  UNCHANGED storeVars
    BY <1>2 DEF PlainStep, Dispatch, Listen, Recheck, Snapshot, Choose, Wake, Enter,
          LastCheck, Spawn, Join, Unwind, Leave, TryAdmit, DropSlot, ExecutorStep,
          ExecutorReturns, WatchStep, DeadlinePasses, WatcherWakes, WatcherReads,
          WatcherSignals, WatcherNotifies
  <1>3. ASSUME NEW i \in Ids, NEW code \in Codes, Fail(i, code)
        PROVE  StoreNext \/ UNCHANGED storeVars
    BY <1>0, <1>3, AttemptIsStoreStep DEF Fail
  <1>4. ASSUME NEW i \in Ids, NEW next \in States \ {"failed"}, Attempt(i, next, "none")
        PROVE  StoreNext \/ UNCHANGED storeVars
    BY <1>4, AttemptIsStoreStep
  <1>5. ASSUME NEW i \in Ids, WritingStep(i) \/ WatcherWrites(i)
        PROVE  StoreNext \/ UNCHANGED storeVars
    BY <1>0, <1>3, <1>4, <1>5
    DEF WritingStep, Backstop, Prepare, StartRunning, RecordCancel, Judge, WatcherWrites
  <1>6. CASE QuietStep
    BY <1>6 DEF QuietStep, CancelSignals, Shutdown, CancelReads, ShutdownSignals, ExecutorTimesOut
  <1>7. CASE CancelWrites
    BY <1>0, <1>4, <1>7 DEF CancelWrites, CallOK
  <1>8. CASE ProcessCrash \/ Restart \/ UNCHANGED bridgeVars
    BY <1>8 DEF ProcessCrash, Restart, bridgeVars, StoreNext
  <1> QED
    BY <1>1, <1>2, <1>5, <1>6, <1>7, <1>8, BridgeSteps

(* The process starts with no task, no watcher, no token and no cancel     *)
(* call.                                                                   *)
LEMMA OwnInitially == BridgeInit => OwnTypeOK /\ CallOK
  <1>1. BridgeInit => OwnTypeOK
    BY StartTypes DEF BridgeInit, OwnTypeOK
  <1> QED
    BY <1>1 DEF BridgeInit, CallOK, NoCall

(* A step of somebody else leaves the types alone.                         *)
LEMMA OwnUnchanged ==
  ASSUME OwnTypeOK, CallOK, UNCHANGED bridgeVars
  PROVE  OwnTypeOK' /\ CallOK'
  BY DEF OwnTypeOK, CallOK, bridgeVars, signalVars, otherVars

(* Tasks, watchers, tokens, executors and the cancel call of the bridge    *)
(* have their types in every reachable state.                              *)
THEOREM BridgeOwnTypes == BridgeSpec => [](OwnTypeOK /\ CallOK)
  <1>1. OwnTypeOK /\ CallOK /\ [BridgeNext]_bridgeVars => (OwnTypeOK /\ CallOK)'
    BY OwnTypesStep, OwnUnchanged
  <1> QED
    BY <1>1, OwnInitially, PTL DEF BridgeSpec

(* The bridge drives its records only through the operations of the store  *)
(* (transition_outcome_for_claims, create, open): each of its behaviours   *)
(* is one of the store, so every theorem about the store holds beneath it. *)
THEOREM BridgeIsStoreClient == BridgeSpec => StoreSpec
  <1>1. OwnTypeOK /\ CallOK /\ [BridgeNext]_bridgeVars => [StoreNext]_storeVars
    BY BridgeWrites DEF bridgeVars
  <1>2. BridgeInit => StoreInit
    BY DEF BridgeInit
  <1> QED
    BY <1>1, <1>2, BridgeOwnTypes, PTL DEF BridgeSpec, StoreSpec

(* Tasks, watchers, cancels, crashes and restarts together show a reader   *)
(* of the store no other history of an invocation than its contract has.   *)
THEOREM BridgeKeepsContract == BridgeSpec => KeepsContract
  BY BridgeIsStoreClient, StoreKeepsContract, PTL

-----------------------------------------------------------------------------
(* What a step does to the tasks, their executors and the ledger.          *)

PreSpawn == Admitting \cup {"new", "enter", "prepare", "last_check", "start", "spawn"}

(* From the write to running to the last write of the task.                *)
RunSteps == {"spawn", "executing", "unwind", "judge", "record_cancel"}

(* Task i goes on: into or out of no slot, towards its spawn and past it   *)
(* once, and away from a running executor never.                           *)
Advances(i) ==
  /\ UNCHANGED slotVars
  /\ \A j \in Ids \ {i} : task'[j] = task[j] /\ exec'[j] = exec[j] /\ runs'[j] = runs[j]
  /\ task[i] # "none" /\ (task'[i] \in Holding <=> task[i] \in Holding)
  /\ task'[i] \in PreSpawn => task[i] \in PreSpawn \ {"spawn"}
  /\ task'[i] = "spawn" => up' /\ mem'[i].state = "running"
  /\ task'[i] \in RunSteps \ {"spawn"} => task[i] \in RunSteps
  /\ task'[i] = "record_cancel" => KindCancelled(i)
  /\ \/ /\ task[i] = "spawn" /\ task'[i] = "executing"
        /\ exec'[i] = "running" /\ runs'[i] = runs[i] + 1
        /\ UNCHANGED storeVars
     \/ /\ exec'[i] = exec[i] /\ runs'[i] = runs[i]
        /\ exec[i] = "running" /\ task[i] \in {"executing", "unwind"}
             => task'[i] \in {"executing", "unwind"}

(* No task moves; at most an executor returns.                             *)
Rests ==
  /\ UNCHANGED <<slotVars, task, runs>>
  /\ \A j \in Ids : exec'[j] = exec[j] \/ exec'[j] # "running"

(* Dispatch to release, without the two steps at the ledger.               *)
LEMMA PlainAdvances ==
  ASSUME OwnTypeOK, NEW i \in Ids, PlainStep(i)
  PROVE  Advances(i)
  <1>1. CASE Spawn(i)
    BY <1>1 DEF Spawn, Goto, Advances, OwnTypeOK, PreSpawn, RunSteps, Admitting, Holding, slotVars
  <1>2. CASE Dispatch(i) \/ Listen(i) \/ Recheck(i) \/ Wake(i) \/ Leave(i) \/ Snapshot(i) \/ Choose(i)
    BY <1>2 DEF Dispatch, Listen, Recheck, Wake, Leave, Snapshot, Choose, Goto, Advances,
          OwnTypeOK, PreSpawn, RunSteps, Admitting, Holding, slotVars, otherVars
  <1>3. CASE Enter(i) \/ LastCheck(i) \/ Join(i) \/ Unwind(i)
    BY <1>3 DEF Enter, LastCheck, Join, Unwind, Returned, Outcomes, Goto, Advances,
          OwnTypeOK, PreSpawn, RunSteps, Admitting, Holding, slotVars, otherVars
  <1> QED
    BY <1>1, <1>2, <1>3 DEF PlainStep

(* A write of the record by its task.                                      *)
LEMMA WritingAdvances ==
  ASSUME OwnTypeOK, NEW i \in Ids, WritingStep(i)
  PROVE  Advances(i) \/ Die
  <1>1. ASSUME NEW step, Then(i, step), ~Die
        PROVE  /\ up' /\ UNCHANGED <<slotVars, exec, runs>>
               /\ task'[i] = step /\ \A j \in Ids \ {i} : task'[j] = task[j]
    BY <1>1 DEF Then, Goto, OwnTypeOK, slotVars, otherVars
  <1>2. CASE Backstop(i)
    BY <1>1, <1>2 DEF Backstop, Advances, PreSpawn, RunSteps, Admitting, Holding
  <1>3. CASE StartRunning(i)
    BY <1>1, <1>3 DEF StartRunning, AfterStart, Advances, PreSpawn, RunSteps, Admitting, Holding
  <1>4. CASE RecordCancel(i) \/ Judge(i)
    BY <1>1, <1>4 DEF RecordCancel, Judge, Advances, PreSpawn, RunSteps, Admitting, Holding
  <1>5. CASE Prepare(i)
    <2>1. CASE \E step \in {"last_check", "release"} :
                 Goto(i, step) /\ UNCHANGED <<slotVars, exec, otherVars>>
      BY <1>5, <2>1 DEF Prepare, Goto, OwnTypeOK, Advances, PreSpawn, RunSteps, Admitting, Holding, otherVars
    <2>2. CASE Then(i, "release")
      BY <1>1, <1>5, <2>2 DEF Prepare, Advances, PreSpawn, RunSteps, Admitting, Holding
    <2> QED
      BY <1>5, <2>1, <2>2 DEF Prepare
  <1> QED
    BY <1>2, <1>3, <1>4, <1>5 DEF WritingStep

(* Every step is one of six kinds.                                         *)
LEMMA Footprints ==
  ASSUME OwnTypeOK, CallOK, BridgeNext
  PROVE  \/ Die
         \/ \E i \in Ids, s \in Scopes : Submit(i, s) /\ up'
         \/ \E i \in Ids : Advances(i)
         \/ \E i \in Ids : TryAdmit(i)
         \/ \E i \in Ids : DropSlot(i)
         \/ Rests
  <1>1. ASSUME NEW i \in Ids, NEW s \in Scopes, Submit(i, s) PROVE up' \/ Die
    BY <1>1 DEF Submit
  <1>2. ASSUME NEW i \in Ids, ExecutorStep(i) PROVE Rests
    BY <1>2 DEF ExecutorStep, ExecutorReturns, Outcomes, Rests, OwnTypeOK, otherVars
  <1>3. ASSUME NEW i \in Ids, WatchStep(i) PROVE Rests
    BY <1>3 DEF WatchStep, DeadlinePasses, WatcherWakes, WatcherReads, WatcherSignals,
          WatcherNotifies, Rests, otherVars
  <1>4. ASSUME NEW i \in Ids, WatcherWrites(i) PROVE Rests \/ Die
    BY <1>4 DEF WatcherWrites, Rests, otherVars
  <1>5. CASE QuietStep
    BY <1>5 DEF QuietStep, CancelSignals, Shutdown, CancelReads, ShutdownSignals,
          ExecutorTimesOut, Rests, otherVars
  <1>6. CASE CancelWrites
    BY <1>6 DEF CancelWrites, Rests, otherVars
  <1>7. CASE ProcessCrash \/ Restart \/ UNCHANGED bridgeVars
    BY <1>7 DEF ProcessCrash, Restart, bridgeVars, Rests, otherVars
  <1> QED
    BY <1>1, <1>2, <1>3, <1>4, <1>5, <1>6, <1>7, BridgeSteps, PlainAdvances, WritingAdvances

-----------------------------------------------------------------------------
(* Slots and their owners.                                                 *)

StoreInv == BasicInv /\ HistoryInv /\ ShownInv

(* A slot is held by a task that may run, under the scope of its record;   *)
(* an executor belongs to a task that waits for it; the ledger is exact.   *)
OwnersInv ==
  /\ Ledger!SlotsInv
  /\ SlotsHaveOwners
  /\ \A i \in Ids :
       /\ task[i] # "none" => Stored(published[i]) /\ published[i].scope \in Scopes
       /\ admitted[i] # None => admitted[i] = published[i].scope
       /\ exec[i] = "running" => task[i] \in {"executing", "unwind"}

(* Nothing that was shown is forgotten, and its scope stays.               *)
LEMMA ShownScope ==
  ASSUME OwnTypeOK, CallOK, StoreInv, [BridgeNext]_bridgeVars,
         NEW i \in Ids, Stored(published[i])
  PROVE  Stored(published'[i]) /\ published'[i].scope = published[i].scope
  <1>1. [StoreNext]_storeVars
    BY BridgeWrites DEF bridgeVars
  <1>2. ShownContinues /\ ShownStays
    BY <1>1, HistoryStep, ShownStep DEF StoreInv
  <1> QED
    BY <1>2 DEF ShownContinues, ShownStays, Continues

(* create: the record is shown under its scope before its task begins.     *)
LEMMA SubmitShows ==
  ASSUME StoreInv, NEW i \in Ids, NEW s \in Scopes, Submit(i, s), up'
  PROVE  /\ Stored(published'[i]) /\ published'[i].scope = s
         /\ i \notin issued /\ i \in issued'
         /\ task[i] = "none" => task' = [task EXCEPT ![i] = "new"]
         /\ UNCHANGED <<slotVars, exec, runs>>
  <1>1. /\ i \notin issued /\ Write(CreatedRecords(i, s, None, None))
        /\ Goto(i, "new") /\ UNCHANGED <<slotVars, exec, runs>>
    BY DEF Submit, Create, otherVars
  <1>2. CreatedRecords(i, s, None, None)[i] = NewRecord(s, None, None)
    BY DEF CreatedRecords, DropBindings
  <1>3. Stored(NewRecord(s, None, None)) /\ NewRecord(s, None, None).scope = s
    BY DEF NewRecord, Stored
  <1>4. published' = Show(CreatedRecords(i, s, None, None))
        /\ issued' = issued \cup StoredIds(CreatedRecords(i, s, None, None))
    BY <1>1, WriteEffect
  <1> QED
    BY <1>1, <1>2, <1>3, <1>4 DEF Show, StoredIds, Goto

(* try_admit, when it answers true.                                        *)
LEMMA AdmitsOwner ==
  ASSUME OwnTypeOK, OwnersInv, NEW i \in Ids, TryAdmit(i)
  PROVE  \/ UNCHANGED slotVars /\ task' = [task EXCEPT ![i] = "wait"]
         \/ /\ admitted' = [admitted EXCEPT ![i] = published[i].scope]
            /\ task' = [task EXCEPT ![i] = "enter"]
            /\ Ledger!SlotsInv'
  <1>1. task[i] = "admit" /\ published[i].scope \in Scopes /\ i \notin Slots!Holders
    BY DEF TryAdmit, OwnersInv, SlotsHaveOwners, Holding, Slots!Holders
  <1>2. CASE Slots!Admit(published[i].scope, i) /\ Goto(i, "enter")
    <2>1. Ledger!SlotsInv'
      BY <1>1, <1>2, LimitsHold, SameLedger, Ledger!AdmitKeepsInv DEF OwnersInv
    <2> QED
      BY <1>1, <1>2, <2>1 DEF Slots!Admit, Goto
  <1>3. CASE Goto(i, "wait") /\ UNCHANGED slotVars
    BY <1>3 DEF Goto
  <1> QED
    BY <1>2, <1>3 DEF TryAdmit

(* AdmittedSlot::drop.                                                     *)
LEMMA DropsOwner ==
  ASSUME OwnTypeOK, OwnersInv, NEW i \in Ids, DropSlot(i)
  PROVE  /\ admitted' = [admitted EXCEPT ![i] = None]
         /\ task' = [task EXCEPT ![i] = "leave"]
         /\ Ledger!SlotsInv'
  <1>1. i \in Slots!Holders
    BY DEF DropSlot, OwnersInv, SlotsHaveOwners, Holding, Slots!Holders
  <1>2. Slots!Release(i) /\ Goto(i, "leave")
    BY DEF DropSlot
  <1>3. Ledger!SlotsInv'
    BY <1>2, LimitsHold, SameLedger, Ledger!ReleaseKeepsInv DEF OwnersInv
  <1> QED
    BY <1>1, <1>2, <1>3 DEF Slots!Release, Goto

(* A ledger that does not change keeps its invariant.                      *)
LEMMA LedgerUnchanged ==
  ASSUME Ledger!SlotsInv, UNCHANGED slotVars
  PROVE  Ledger!SlotsInv'
  BY DEF slotVars, Ledger!SlotsInv, Ledger!SlotsTypeOK, Ledger!CountersMatch, Ledger!CapsHold,
         Ledger!Holders, Ledger!InTenant, Ledger!InScope

(* An empty ledger satisfies its invariant, after a crash too.             *)
LEMMA LedgerStarts == Ledger!Init => Ledger!SlotsInv
  BY LimitsHold, Ledger!SlotsInitially

(* No early return, failed write, cancel, deadline, shutdown or crash      *)
(* separates a slot from its task: every step keeps OwnersInv.             *)
LEMMA OwnersStep ==
  ASSUME OwnTypeOK, CallOK, StoreInv, OwnersInv, [BridgeNext]_bridgeVars
  PROVE  OwnersInv'
  <1>0. \A i \in Ids : Stored(published[i]) =>
                         Stored(published'[i]) /\ published'[i].scope = published[i].scope
    BY ShownScope
  <1>00. \A i \in Ids : admitted[i] # None => task[i] \in Holding /\ task[i] # "none"
    BY DEF OwnersInv, SlotsHaveOwners, Holding
  <1>1. CASE Die
    <2>1. Ledger!SlotsInv'
      <3>1. Ledger!Init'
        BY <1>1, DieTypes
      <3> QED
        BY <3>1, LedgerStarts, PTL
    <2> QED
      BY <1>1, <2>1 DEF Die, OwnTypeOK, OwnersInv, SlotsHaveOwners, Holding
  <1>2. ASSUME NEW i \in Ids, NEW s \in Scopes, Submit(i, s), up' PROVE OwnersInv'
    <2>1. i \notin issued /\ Stored(published'[i]) /\ published'[i].scope = s
          /\ UNCHANGED <<slotVars, exec>>
      BY <1>2, SubmitShows
    <2>2. task[i] = "none" /\ admitted[i] = None
      BY <1>00, <2>1 DEF OwnersInv, OwnTypeOK, StoreInv, HistoryInv
    <2>3. task' = [task EXCEPT ![i] = "new"]
      BY <1>2, <2>2, SubmitShows
    <2>4. Ledger!SlotsInv'
      BY <2>1, LedgerUnchanged DEF OwnersInv
    <2>5. \A j \in Ids : admitted'[j] = admitted[j] /\ exec'[j] = exec[j]
      BY <2>1 DEF slotVars
    <2>6. SlotsHaveOwners'
      BY <2>2, <2>3, <2>5 DEF OwnTypeOK, OwnersInv, SlotsHaveOwners, Holding
    <2>7. \A j \in Ids : task'[j] # "none" =>
                            Stored(published'[j]) /\ published'[j].scope \in Scopes
      BY <1>0, <2>1, <2>3 DEF OwnTypeOK, OwnersInv
    <2>8. \A j \in Ids : admitted'[j] # None => admitted'[j] = published'[j].scope
      BY <1>0, <1>00, <2>5 DEF OwnersInv
    <2>9. \A j \in Ids : exec'[j] = "running" => task'[j] \in {"executing", "unwind"}
      BY <2>2, <2>3, <2>5 DEF OwnTypeOK, OwnersInv
    <2> QED
      BY <2>4, <2>6, <2>7, <2>8, <2>9 DEF OwnersInv, Stored
  <1>3. ASSUME NEW i \in Ids, Advances(i) PROVE OwnersInv'
    BY <1>0, <1>00, <1>3, LedgerUnchanged DEF Advances, OwnersInv, SlotsHaveOwners, Holding, slotVars
  <1>4. ASSUME NEW i \in Ids, TryAdmit(i) PROVE OwnersInv'
    <2>1. task[i] = "admit" /\ UNCHANGED <<storeVars, exec>>
      BY <1>4 DEF TryAdmit
    <2>2. CASE UNCHANGED slotVars /\ task' = [task EXCEPT ![i] = "wait"]
      BY <2>1, <2>2, LedgerUnchanged
      DEF OwnTypeOK, OwnersInv, SlotsHaveOwners, Holding, slotVars, storeVars, Stored
    <2>3. CASE /\ admitted' = [admitted EXCEPT ![i] = published[i].scope]
               /\ task' = [task EXCEPT ![i] = "enter"]
               /\ Ledger!SlotsInv'
      BY <2>1, <2>3, NoneIsNoValue
      DEF OwnTypeOK, OwnersInv, SlotsHaveOwners, Holding, storeVars, Stored,
          Ledger!SlotsInv, Ledger!SlotsTypeOK
    <2> QED
      BY <1>4, <2>2, <2>3, AdmitsOwner
  <1>5. ASSUME NEW i \in Ids, DropSlot(i) PROVE OwnersInv'
    <2>1. task[i] = "release" /\ UNCHANGED <<storeVars, exec>>
      BY <1>5 DEF DropSlot
    <2> QED
      BY <1>5, <2>1, DropsOwner
      DEF OwnTypeOK, OwnersInv, SlotsHaveOwners, Holding, storeVars, Stored,
          Ledger!SlotsInv, Ledger!SlotsTypeOK
  <1>6. CASE Rests
    BY <1>0, <1>00, <1>6, LedgerUnchanged
    DEF Rests, OwnersInv, SlotsHaveOwners, slotVars
  <1>7. CASE UNCHANGED bridgeVars
    BY <1>0, <1>00, <1>7, LedgerUnchanged
    DEF bridgeVars, OwnersInv, SlotsHaveOwners, slotVars
  <1> QED
    BY <1>1, <1>2, <1>3, <1>4, <1>5, <1>6, <1>7, Footprints

(* Nobody holds a slot at the start.                                       *)
LEMMA OwnersInitially == BridgeInit => OwnersInv
  <1> SUFFICES ASSUME BridgeInit PROVE OwnersInv
    OBVIOUS
  <1>1. Ledger!SlotsInv
    BY SameLedger, LedgerStarts DEF BridgeInit
  <1> QED
    BY <1>1 DEF BridgeInit, Slots!Init, OwnersInv, SlotsHaveOwners, Holding

(* The store's theorems hold of the store inside the bridge.               *)
THEOREM BridgeStore == BridgeSpec => []StoreInv
  BY BridgeIsStoreClient, StoreInvariant, StoreHistory, StoreNumbers, PTL DEF StoreInv

(* Slots belong to tasks under the scope of their record, the ledger       *)
(* counts them exactly, and an executor runs only under a task that waits  *)
(* for it.                                                                 *)
THEOREM BridgeOwners == BridgeSpec => []OwnersInv
  <1>1. OwnTypeOK /\ CallOK /\ StoreInv /\ OwnersInv /\ [BridgeNext]_bridgeVars => OwnersInv'
    BY OwnersStep
  <1> QED
    BY <1>1, OwnersInitially, BridgeOwnTypes, BridgeStore, PTL DEF BridgeSpec

(* Tasks, cancels and deadlines move the ledger only as its own callers    *)
(* may, one admission or release at a time, or a crash empties it: what is *)
(* proved of the ledger alone is proved of the one in the bridge.          *)
THEOREM BridgeDrivesLedger ==
  BridgeSpec => [][Ledger!Next \/ (Ledger!Init)']_slotVars
  <1>1. OwnTypeOK /\ CallOK /\ OwnersInv /\ [BridgeNext]_bridgeVars
          => [Ledger!Next \/ (Ledger!Init)']_slotVars
    <2> SUFFICES ASSUME OwnTypeOK, CallOK, OwnersInv, BridgeNext
                 PROVE  Ledger!Next \/ (Ledger!Init)' \/ UNCHANGED slotVars
      BY DEF bridgeVars
    <2>1. Die => (Ledger!Init)'
      BY DEF Die, Ledger!Init
    <2>2. ASSUME NEW i \in Ids, TryAdmit(i) PROVE Ledger!Next \/ UNCHANGED slotVars
      <3>1. published[i].scope \in Scopes
        BY <2>2 DEF TryAdmit, OwnersInv
      <3> QED
        BY <2>2, <3>1, SameLedger DEF TryAdmit, Ledger!Next
    <2>3. ASSUME NEW i \in Ids, DropSlot(i) PROVE Ledger!Next
      BY <2>3, SameLedger DEF DropSlot, Ledger!Next
    <2>4. ASSUME NEW i \in Ids, NEW s \in Scopes, Submit(i, s), up' PROVE UNCHANGED slotVars
      BY <2>4 DEF Submit
    <2>5. ASSUME NEW i \in Ids, Advances(i) PROVE UNCHANGED slotVars
      BY <2>5 DEF Advances
    <2>6. Rests => UNCHANGED slotVars
      BY DEF Rests
    <2> QED
      BY <2>1, <2>2, <2>3, <2>4, <2>5, <2>6, Footprints
  <1> QED
    BY <1>1, BridgeOwnTypes, BridgeOwners, PTL DEF BridgeSpec

(* Store, ledger and bridge have their types together: BridgeTypeOK for    *)
(* every value of the constants.                                           *)
THEOREM BridgeTypeCorrect == BridgeSpec => []BridgeTypeOK
  <1>1. OwnTypeOK /\ StoreInv /\ OwnersInv => BridgeTypeOK
    <2> SUFFICES ASSUME OwnTypeOK, StoreInv, OwnersInv PROVE BridgeTypeOK
      OBVIOUS
    <2>1. StoreTypeOK
      BY DEF StoreInv, BasicInv
    <2>2. Slots!SlotsTypeOK
      BY SameLedger DEF OwnersInv, Ledger!SlotsInv
    <2> QED
      BY <2>1, <2>2 DEF BridgeTypeOK, OwnTypeOK
  <1> QED
    BY <1>1, BridgeOwnTypes, BridgeStore, BridgeOwners, PTL

(* A running slot is held by exactly the tasks between their admission and *)
(* AdmittedSlot::drop: none leaks on any return of run_invocation.         *)
THEOREM BridgeSlotsHaveOwners == BridgeSpec => []SlotsHaveOwners
  BY BridgeOwners, PTL DEF OwnersInv

(* At no time do more executors run than max_running_global, per tenant    *)
(* and per scope allow, a cancelled run being counted until its executor   *)
(* is gone.                                                                *)
THEOREM BridgeExecutorsWithinLimits == BridgeSpec => []ExecutorsWithinLimits
  <1>1. OwnersInv => ExecutorsWithinLimits
    <2> SUFFICES ASSUME OwnersInv PROVE ExecutorsWithinLimits
      OBVIOUS
    <2>1. ASSUME NEW i \in Ids, exec[i] = "running"
          PROVE  admitted[i] # None /\ admitted[i] = published[i].scope /\ admitted[i] \in Scopes
      BY <2>1 DEF OwnersInv, SlotsHaveOwners, Holding
    <2>2. ASSUME NEW A, NEW B \in SUBSET Ids, Executing(A) \subseteq B, NEW n \in Nat,
                 Ledger!Cardinality(B) <= n
          PROVE  Cardinality(Executing(A)) <= n
      <3>1. IsFiniteSet(B)
        BY StoreConfig, FS_Subset
      <3>2. Cardinality(Executing(A)) <= Cardinality(B) /\ IsFiniteSet(Executing(A))
        BY <2>2, <3>1, FS_Subset
      <3>3. Cardinality(Executing(A)) \in Nat /\ Cardinality(B) \in Nat
        BY <3>1, <3>2, FS_CardinalityType
      <3> QED
        BY <2>2, <3>2, <3>3, SameSize
    <2>3. /\ Ledger!Cardinality(Ledger!Holders) <= MaxGlobal
          /\ \A t \in Tenants : Ledger!Cardinality(Ledger!InTenant(t)) <= MaxPerTenant
          /\ \A s \in Scopes : Ledger!Cardinality(Ledger!InScope(s)) <= MaxPerScope
          /\ MaxGlobal \in Nat /\ MaxPerTenant \in Nat /\ MaxPerScope \in Nat
      BY BridgeConfig DEF OwnersInv, Ledger!SlotsInv, Ledger!CapsHold
    <2>4. Cardinality(Executing(Ids)) <= MaxGlobal
      <3>1. Executing(Ids) \subseteq Ledger!Holders /\ Ledger!Holders \in SUBSET Ids
        BY <2>1 DEF Executing, Ledger!Holders
      <3> QED
        BY <2>2, <2>3, <3>1
    <2>5. ASSUME NEW s \in Scopes
          PROVE  Cardinality(Executing({i \in Ids : published[i].scope = s})) <= MaxPerScope
      <3>1. /\ Executing({i \in Ids : published[i].scope = s}) \subseteq Ledger!InScope(s)
            /\ Ledger!InScope(s) \in SUBSET Ids
        BY <2>1 DEF Executing, Ledger!InScope
      <3> QED
        BY <2>2, <2>3, <3>1
    <2>6. ASSUME NEW t \in Tenants
          PROVE  Cardinality(Executing({i \in Ids : \E s \in Scopes :
                     TenantOf[s] = t /\ i \in {j \in Ids : published[j].scope = s}})) <= MaxPerTenant
      <3> DEFINE A == {i \in Ids : \E s \in Scopes :
                     TenantOf[s] = t /\ i \in {j \in Ids : published[j].scope = s}}
      <3>1. Executing(A) \subseteq Ledger!InTenant(t) /\ Ledger!InTenant(t) \in SUBSET Ids
        BY <2>1 DEF Executing, Ledger!InTenant, Ledger!Holders
      <3> QED
        BY <2>2, <2>3, <3>1
    <2> QED
      BY <2>4, <2>5, <2>6 DEF ExecutorsWithinLimits
  <1> QED
    BY <1>1, BridgeOwners, PTL

-----------------------------------------------------------------------------
(* One run per invocation, and on record.                                  *)

(* The record went through running: one that is finished has moved on.     *)
RanOnce(r) == Stored(r) /\ r.rev >= IF IsTerminal(r) THEN 3 ELSE 2

RunsInv ==
  \A i \in Ids :
    /\ runs[i] \in {0, 1}
    /\ runs[i] = 1 => i \in issued /\ task[i] \notin PreSpawn
    /\ runs[i] = 1 \/ task[i] = "spawn" => RanOnce(published[i])

(* A record that ran stays one that ran.                                   *)
LEMMA RanStays ==
  ASSUME OwnTypeOK, CallOK, StoreInv, [BridgeNext]_bridgeVars,
         NEW i \in Ids, RanOnce(published[i])
  PROVE  RanOnce(published'[i])
  <1>1. [StoreNext]_storeVars
    BY BridgeWrites DEF bridgeVars
  <1>2. BasicInv' /\ ShownContinues /\ ShownStays
    BY <1>1, BasicStep, HistoryStep, ShownStep DEF StoreInv
  <1>3. published[i] \in Record /\ published'[i] \in Record
    BY <1>2 DEF StoreInv, BasicInv, StoreTypeOK
  <1>4. Continues(published[i], published'[i]) /\ Stored(published'[i])
    BY <1>2 DEF ShownContinues, ShownStays, RanOnce
  <1> QED
    BY <1>3, <1>4 DEF RanOnce, Continues, IsTerminal, Record

(* Ids are not issued back.                                                *)
LEMMA IssuedStays ==
  ASSUME OwnTypeOK, CallOK, StoreInv, [BridgeNext]_bridgeVars
  PROVE  issued \subseteq issued'
  <1>1. [StoreNext]_storeVars
    BY BridgeWrites DEF bridgeVars
  <1> QED
    BY <1>1, StepsEvolve, WriteEffect DEF StoreInv, Crash, Tick, storeVars

(* The write to running succeeded, so the record that is shown now ran.    *)
LEMMA StartedRan ==
  ASSUME OwnTypeOK, CallOK, StoreInv, BridgeNext, up', NEW i \in Ids,
         mem'[i].state = "running"
  PROVE  RanOnce(published'[i])
  <1>1. [StoreNext]_storeVars
    BY BridgeWrites
  <1>2. BasicInv' /\ ShownInv'
    BY <1>1, BasicStep, ShownStep DEF StoreInv
  <1>3. Stored(mem'[i]) /\ mem'[i].state # "queued" /\ ~IsTerminal(mem'[i])
    BY DEF Stored, IsTerminal, Terminal
  <1>4. published'[i] = mem'[i] /\ mem'[i] = disk'[i]
    BY <1>2, <1>3 DEF ShownInv, BasicInv, MemoryIsDurable, Stored
  <1>5. mem'[i].rev \in Nat
    BY <1>2 DEF BasicInv, StoreTypeOK, Record
  <1>6. mem'[i].rev >= 1 /\ mem'[i].rev # 1
    BY <1>2, <1>3, <1>4 DEF ShownInv, Numbered, Stored
  <1> QED
    BY <1>3, <1>4, <1>5, <1>6 DEF RanOnce

(* An executor starts at the spawn, once, after the write to running       *)
(* reached the file: every step keeps RunsInv.                             *)
LEMMA RunsStep ==
  ASSUME OwnTypeOK, CallOK, StoreInv, OwnersInv, RunsInv, [BridgeNext]_bridgeVars
  PROVE  RunsInv'
  <1>0. /\ \A i \in Ids : RanOnce(published[i]) => RanOnce(published'[i])
        /\ issued \subseteq issued'
    BY RanStays, IssuedStays
  <1>00. \A i \in Ids : task[i] # "none" => i \in issued
    BY DEF OwnersInv, StoreInv, HistoryInv
  <1>1. CASE Die
    <2>1. \A i \in Ids : task'[i] = "none" /\ runs'[i] = runs[i]
      BY <1>1 DEF Die
    <2> QED
      BY <1>0, <2>1 DEF RunsInv, PreSpawn, Admitting, RanOnce, Stored, IsTerminal
  <1>2. ASSUME NEW i \in Ids, NEW s \in Scopes, Submit(i, s), up' PROVE RunsInv'
    <2>1. i \notin issued /\ runs' = runs
      BY <1>2 DEF Submit, Create, otherVars
    <2>2. task[i] = "none" /\ runs[i] = 0
      BY <1>00, <2>1 DEF RunsInv
    <2>3. task' = [task EXCEPT ![i] = "new"]
      BY <1>2, <2>2, SubmitShows
    <2> QED
      BY <1>0, <2>1, <2>2, <2>3 DEF RunsInv, OwnTypeOK, RanOnce, Stored, IsTerminal
  <1>3. ASSUME NEW i \in Ids, Advances(i), BridgeNext PROVE RunsInv'
    <2>1. \A j \in Ids \ {i} : task'[j] = task[j] /\ runs'[j] = runs[j]
      BY <1>3 DEF Advances
    <2>2. task'[i] = "spawn" => RanOnce(published'[i])
      BY <1>3, StartedRan DEF Advances
    <2>3. CASE task[i] = "spawn" /\ task'[i] = "executing" /\ runs'[i] = runs[i] + 1
      <3>1. runs[i] = 0
        BY <2>3 DEF RunsInv, PreSpawn
      <3>2. runs'[i] = 1 /\ i \in issued' /\ task'[i] \notin PreSpawn /\ RanOnce(published'[i])
        BY <1>0, <1>00, <2>3, <3>1 DEF RunsInv, PreSpawn, Admitting
      <3> QED
        BY <1>0, <2>1, <3>2 DEF RunsInv, RanOnce, Stored, IsTerminal
    <2>4. CASE runs'[i] = runs[i]
      BY <1>0, <1>3, <2>1, <2>2, <2>4 DEF Advances, RunsInv, RanOnce, Stored, IsTerminal
    <2> QED
      BY <1>3, <2>3, <2>4 DEF Advances
  <1>4. ASSUME NEW i \in Ids, TryAdmit(i) PROVE RunsInv'
    <2>1. /\ task[i] = "admit" /\ runs' = runs
          /\ task' = [task EXCEPT ![i] = "enter"] \/ task' = [task EXCEPT ![i] = "wait"]
      BY <1>4 DEF TryAdmit, Goto, otherVars
    <2>2. "admit" \in PreSpawn
      BY DEF PreSpawn, Admitting
    <2> QED
      BY <1>0, <2>1, <2>2 DEF RunsInv, OwnTypeOK, RanOnce, Stored, IsTerminal
  <1>5. ASSUME NEW i \in Ids, DropSlot(i) PROVE RunsInv'
    <2>1. runs' = runs /\ task' = [task EXCEPT ![i] = "leave"]
      BY <1>5 DEF DropSlot, Goto, otherVars
    <2>2. "leave" \notin PreSpawn
      BY DEF PreSpawn, Admitting
    <2> QED
      BY <1>0, <2>1, <2>2 DEF RunsInv, OwnTypeOK, RanOnce, Stored, IsTerminal
  <1>6. CASE Rests \/ UNCHANGED bridgeVars
    <2>1. runs' = runs /\ task' = task
      BY <1>6 DEF Rests, bridgeVars, otherVars
    <2> QED
      BY <1>0, <2>1 DEF RunsInv, RanOnce, Stored, IsTerminal
  <1> QED
    BY <1>1, <1>2, <1>3, <1>4, <1>5, <1>6, Footprints

(* No executor has been started.                                           *)
LEMMA RunsInitially == BridgeInit => RunsInv
  BY DEF BridgeInit, RunsInv

(* A task runs at most once, and the record of one that ran is past        *)
(* queued.                                                                 *)
THEOREM BridgeRuns == BridgeSpec => []RunsInv
  <1>1. OwnTypeOK /\ CallOK /\ StoreInv /\ OwnersInv /\ RunsInv /\ [BridgeNext]_bridgeVars
          => RunsInv'
    BY RunsStep
  <1> QED
    BY <1>1, RunsInitially, BridgeOwnTypes, BridgeStore, BridgeOwners, PTL DEF BridgeSpec

(* An executor is started at most once per invocation, and only for a      *)
(* record that went through running: a cancel, a failure or a crash before *)
(* that write keeps it from starting.                                      *)
THEOREM BridgeRunsAreOnRecord == BridgeSpec => []RunsAreOnRecord
  <1>1. RunsInv => RunsAreOnRecord
    <2> SUFFICES ASSUME RunsInv, NEW i \in Ids
                 PROVE  /\ runs[i] <= 1
                        /\ runs[i] = 1 => RanOnce(published[i])
      BY DEF RunsAreOnRecord, RanOnce
    <2> QED
      BY DEF RunsInv
  <1> QED
    BY <1>1, BridgeRuns, PTL

-----------------------------------------------------------------------------
(* Who changes the state of a record, and how.                             *)

(* What the step makes of record j in the file, and by whom.               *)
Keeps(j)  == disk'[j].state = disk[j].state
Sweeps(j) == disk'[j].state = "absent" /\ ~IsActive(disk[j])
Creates(j) == disk'[j].state = "queued" /\ j \notin issued /\ \E s \in Scopes : Submit(j, s)
Reopens(j) == ~up /\ disk'[j].state \in {"failed", "absent"}
Starts(j) == disk'[j].state = "running" /\ StartRunning(j) /\ disk[j].state = "queued"
Succeeded(j) == disk'[j].state = "succeeded" /\ Judge(j) /\ exec[j] = "completed"
Fails(j) == disk'[j].state = "failed" /\ up /\ (WritingStep(j) \/ WatcherWrites(j))
Cancels(j) ==
  /\ disk'[j].state = "cancelled" /\ disk[j].state \in {"queued", "cancel_requested"}
  /\ disk'[j].rev = disk[j].rev + 1
  /\ RecordCancel(j) \/ (CancelWrites /\ cancel.id = j /\ cancel.target = "cancelled")
Requests(j) ==
  /\ disk'[j].state = "cancel_requested" /\ disk[j].state = "running"
  /\ CancelWrites /\ cancel.id = j /\ cancel.target = "cancel_requested"

(* A lifecycle write changes one record, along an edge, or nothing.        *)
LEMMA AttemptMoves ==
  ASSUME StoreInv, NEW i \in Ids, NEW next \in States, NEW code, Attempt(i, next, code)
  PROVE  \/ UNCHANGED disk
         \/ /\ up /\ PermitsWith(disk[i].state, next, code)
            /\ disk'[i].state = next /\ disk'[i].rev = disk[i].rev + 1
            /\ \A j \in Ids \ {i} : disk'[j] = disk[j]
  <1>1. CASE Transition(i, 0, next, code)
    <2>1. /\ up /\ mem = disk /\ disk \in [Ids -> Record]
      BY <1>1 DEF Transition, StoreInv, BasicInv, MemoryIsDurable, StoreTypeOK
    <2>2. disk' = [disk EXCEPT ![i] = Moved(@, next, code)]
      BY <1>1, <2>1, WriteEffect DEF Transition
    <2>3. PermitsWith(disk[i].state, next, code)
      BY <1>1, <2>1 DEF Transition, TransitionOutcome
    <2>4. Moved(disk[i], next, code).state = next /\ Moved(disk[i], next, code).rev = disk[i].rev + 1
      BY <2>1 DEF Moved, Record
    <2> QED
      BY <2>1, <2>2, <2>3, <2>4
  <1>2. CASE UNCHANGED storeVars
    BY <1>2 DEF storeVars
  <1> QED
    BY <1>1, <1>2 DEF Attempt

(* Submitting and restarting.                                              *)
LEMMA SubmitMoves ==
  ASSUME StoreInv, NEW i \in Ids, NEW s \in Scopes, Submit(i, s), NEW j \in Ids
  PROVE  Keeps(j) \/ Sweeps(j) \/ Creates(j)
  <1>1. /\ up /\ mem = disk /\ StoreTypeOK /\ i \notin issued
        /\ disk' = CreatedRecords(i, s, None, None)
    BY WriteEffect DEF Submit, Create, StoreInv, BasicInv, MemoryIsDurable
  <1>2. CASE j = i
    <2>1. disk'[i] = NewRecord(s, None, None)
      BY <1>1 DEF CreatedRecords, DropBindings
    <2> QED
      BY <1>1, <1>2, <2>1 DEF Creates, NewRecord
  <1>3. CASE j # i
    BY <1>1, <1>3, CreatedAt
    DEF Keeps, Sweeps, SameButBound, Stored, Expired, IsActive, IsTerminal, Active, Terminal
  <1> QED
    BY <1>2, <1>3

(* open_with_config: an unfinished record comes back as failed, or was     *)
(* swept; the others keep their state.                                     *)
LEMMA RestartMoves ==
  ASSUME StoreInv, Restart, NEW j \in Ids
  PROVE  (Keeps(j) /\ ~IsActive(disk'[j])) \/ Reopens(j)
  <1>1. ~up /\ StoreTypeOK /\ disk' = Recovered(disk) /\ disk[j] \in Record
    BY WriteEffect DEF Restart, Open, StoreInv, BasicInv, StoreTypeOK
  <1>2. \/ Interrupted(disk[j]).state = "failed"
        \/ Interrupted(disk[j]) = disk[j] /\ ~IsActive(disk[j])
    BY <1>1 DEF Interrupted, Record
  <1> QED
    BY <1>1, <1>2, RecoveredAt DEF Keeps, Reopens, SameButBound, Stored, IsActive

(* Every way in which a step of the bridge can change the state of a       *)
(* record, with the task, the watcher or the call that does it.            *)
LEMMA DiskMoves ==
  ASSUME OwnTypeOK, CallOK, StoreInv, [BridgeNext]_bridgeVars, NEW j \in Ids
  PROVE  \/ Keeps(j) \/ Sweeps(j) \/ Creates(j) \/ Reopens(j) \/ Starts(j)
         \/ Succeeded(j) \/ Fails(j) \/ Cancels(j) \/ Requests(j)
  <1>0. {"running", "failed", "succeeded", "cancelled", "cancel_requested"} \subseteq States
    BY DEF States, Active, Terminal
  <1>1. /\ \A s : PermitsWith(s, "running", "none") => s = "queued"
        /\ \A s : PermitsWith(s, "cancelled", "none") => s \in {"queued", "cancel_requested"}
        /\ \A s : PermitsWith(s, "cancel_requested", "none") => s = "running"
    BY DEF PermitsWith, Permits, Successors
  <1>2. UNCHANGED disk => Keeps(j)
    BY DEF Keeps
  <1>3. ASSUME NEW i \in Ids, NEW next \in States, NEW code, Attempt(i, next, code), i # j
        PROVE  Keeps(j)
    BY <1>3, AttemptMoves DEF Keeps
  <1>4. ASSUME NEW i \in Ids, NEW code, Fail(i, code), WritingStep(i) \/ WatcherWrites(i)
        PROVE  Keeps(j) \/ Fails(j)
    BY <1>0, <1>2, <1>3, <1>4, AttemptMoves DEF Fail, Fails
  <1>5. ASSUME NEW i \in Ids, WritingStep(i)
        PROVE  Keeps(j) \/ Fails(j) \/ Starts(j) \/ Succeeded(j) \/ Cancels(j)
    <2>1. CASE StartRunning(i)
      BY <1>0, <1>1, <1>2, <1>3, <2>1, AttemptMoves DEF StartRunning, Starts
    <2>2. CASE RecordCancel(i)
      BY <1>0, <1>1, <1>2, <1>3, <2>2, AttemptMoves DEF RecordCancel, Cancels
    <2>3. CASE Judge(i)
      BY <1>0, <1>2, <1>3, <1>4, <1>5, <2>3, AttemptMoves DEF Judge, Succeeded
    <2>4. CASE Backstop(i)
      BY <1>4, <1>5, <2>4 DEF Backstop
    <2>5. CASE Prepare(i)
      BY <1>2, <1>4, <1>5, <2>5 DEF Prepare, storeVars
    <2> QED
      BY <1>5, <2>1, <2>2, <2>3, <2>4, <2>5 DEF WritingStep
  <1>6. ASSUME NEW i \in Ids, WatcherWrites(i) PROVE Keeps(j) \/ Fails(j)
    BY <1>4, <1>6 DEF WatcherWrites
  <1>7. CASE CancelWrites
    <2>1. cancel.target \in {"cancelled", "cancel_requested"} /\ cancel.id \in Ids
          /\ Attempt(cancel.id, cancel.target, "none")
      BY <1>7 DEF CancelWrites, CallOK
    <2>2. CASE cancel.id # j
      BY <1>0, <1>3, <2>1, <2>2
    <2>3. CASE cancel.id = j
      BY <1>0, <1>1, <1>2, <1>7, <2>1, <2>3, AttemptMoves DEF Cancels, Requests
    <2> QED
      BY <2>2, <2>3
  <1>8. ASSUME NEW i \in Ids,
               PlainStep(i) \/ TryAdmit(i) \/ DropSlot(i) \/ ExecutorStep(i) \/ WatchStep(i)
        PROVE  UNCHANGED disk
    BY <1>8 DEF PlainStep, Dispatch, Listen, Recheck, Snapshot, Choose, Wake, Enter,
          LastCheck, Spawn, Join, Unwind, Leave, TryAdmit, DropSlot, ExecutorStep,
          ExecutorReturns, WatchStep, DeadlinePasses, WatcherWakes, WatcherReads,
          WatcherSignals, WatcherNotifies, storeVars
  <1>9. QuietStep \/ ProcessCrash \/ UNCHANGED bridgeVars => UNCHANGED disk
    BY DEF QuietStep, CancelSignals, Shutdown, CancelReads, ShutdownSignals, ExecutorTimesOut, ProcessCrash,
           Crash, bridgeVars, storeVars
  <1> QED
    BY <1>2, <1>5, <1>6, <1>7, <1>8, <1>9, BridgeSteps, SubmitMoves, RestartMoves

-----------------------------------------------------------------------------
(* A process that is down has no tasks, and only a crash takes it down.    *)

DownInv ==
  ~up => /\ \A i \in Ids : /\ task[i] = "none" /\ watcher[i] = "none"
                          /\ token[i] = "none" /\ seen[i] = {} /\ exec[i] # "running"
         /\ registered = {} /\ cancel = NoCall

(* A crash, in a write or outside one, takes every task, watcher, token,   *)
(* registration and call with it, and a restart dispatches nothing.        *)
LEMMA DownStep ==
  ASSUME OwnTypeOK, CallOK, DownInv, [BridgeNext]_bridgeVars
  PROVE  DownInv'
  <1>1. ASSUME NEW i \in Ids,
               PlainStep(i) \/ TryAdmit(i) \/ DropSlot(i) \/ ExecutorStep(i) \/ WatchStep(i)
        PROVE  UNCHANGED up
    BY <1>1 DEF PlainStep, Dispatch, Listen, Recheck, Snapshot, Choose, Wake, Enter,
          LastCheck, Spawn, Join, Unwind, Leave, TryAdmit, DropSlot, ExecutorStep,
          ExecutorReturns, WatchStep, DeadlinePasses, WatcherWakes, WatcherReads,
          WatcherSignals, WatcherNotifies, storeVars
  <1>2. QuietStep \/ UNCHANGED bridgeVars => UNCHANGED up
    BY DEF QuietStep, CancelSignals, Shutdown, CancelReads, ShutdownSignals,
          ExecutorTimesOut, bridgeVars, storeVars
  <1>3. CASE up
    <2>1. CASE up'
      BY <2>1 DEF DownInv
    <2>2. CASE ~up'
      <3>1. Die => DownInv'
        BY DEF Die, DownInv, OwnTypeOK
      <3>2. ASSUME NEW i \in Ids, WritingStep(i) PROVE Die
        BY <1>3, <2>2, <3>2 DEF WritingStep, Backstop, Prepare, StartRunning, RecordCancel,
                                Judge, Then, storeVars
      <3>3. ASSUME NEW i \in Ids, NEW s \in Scopes, Submit(i, s) PROVE Die
        BY <2>2, <3>3 DEF Submit
      <3>4. ASSUME NEW i \in Ids, WatcherWrites(i) PROVE Die
        BY <2>2, <3>4 DEF WatcherWrites
      <3>5. CASE CancelWrites \/ ProcessCrash
        BY <2>2, <3>1, <3>5 DEF CancelWrites, ProcessCrash
      <3> QED
        BY <1>1, <1>2, <1>3, <2>2, <3>1, <3>2, <3>3, <3>4, <3>5, BridgeSteps DEF Restart, Open
    <2> QED
      BY <2>1, <2>2
  <1>4. CASE ~up
    <2>0. /\ \A i \in Ids : /\ task[i] = "none" /\ watcher[i] = "none"
                           /\ token[i] = "none" /\ seen[i] = {} /\ exec[i] # "running"
          /\ registered = {} /\ cancel = NoCall
      BY <1>4 DEF DownInv
    <2>1. ASSUME NEW i \in Ids PROVE ~(PlainStep(i) \/ WritingStep(i) \/ TryAdmit(i) \/ DropSlot(i))
      BY <2>0 DEF PlainStep, Dispatch, Listen, Recheck, Snapshot, Choose, Wake, Enter,
          LastCheck, Spawn, Join, Unwind, Leave, TryAdmit, DropSlot, WritingStep, Backstop,
          Prepare, StartRunning, RecordCancel, Judge
    <2>2. ASSUME NEW i \in Ids PROVE ~(WatchStep(i) \/ WatcherWrites(i))
      BY <2>0 DEF WatchStep, DeadlinePasses, WatcherWakes, WatcherReads, WatcherSignals,
          WatcherNotifies, Watch, WatcherWrites
    <2>3. ~(QuietStep \/ CancelWrites \/ ProcessCrash)
      BY <1>4, <2>0 DEF QuietStep, CancelSignals, Shutdown, CancelReads, ShutdownSignals, ExecutorTimesOut,
          CancelWrites, ProcessCrash, Crash, NoCall, Admitting, Holding
    <2>4. ASSUME NEW i \in Ids, NEW s \in Scopes PROVE ~Submit(i, s)
      BY <1>4 DEF Submit, Create
    <2>5. ASSUME NEW i \in Ids PROVE ~ExecutorStep(i)
      BY <2>0 DEF ExecutorStep, ExecutorReturns
    <2>6. CASE Restart \/ UNCHANGED bridgeVars
      BY <2>0, <2>6 DEF Restart, bridgeVars, signalVars, DownInv
    <2> QED
      BY <2>1, <2>2, <2>3, <2>4, <2>5, <2>6, BridgeSteps
  <1> QED
    BY <1>3, <1>4

(* The process is up at the start.                                         *)
LEMMA DownInitially == BridgeInit => DownInv
  BY DEF BridgeInit, StoreInit, DownInv

(* While the process is down nothing of it is left.                        *)
THEOREM BridgeDown == BridgeSpec => []DownInv
  <1>1. OwnTypeOK /\ CallOK /\ DownInv /\ [BridgeNext]_bridgeVars => DownInv'
    BY DownStep
  <1> QED
    BY <1>1, DownInitially, BridgeOwnTypes, PTL DEF BridgeSpec

-----------------------------------------------------------------------------
(* Outcomes are earned.                                                    *)

(* What the run of i must have come to for state st to be recorded.        *)
Earned(i, st) ==
  /\ st = "succeeded" => exec[i] = "completed"
  /\ st = "cancelled" => exec[i] \in {"none", "stopped"}

(* While its task is in a run, a record is not yet finished but by the     *)
(* deadline; a cancel aimed at a queued invocation never meets a requested *)
(* cancel.                                                                 *)
OutcomesInv ==
  /\ \A i \in Ids :
       /\ exec[i] # "none" => runs[i] = 1
       /\ task[i] \in RunSteps => published[i].state \in {"running", "cancel_requested", "failed"}
       /\ task[i] = "record_cancel" => KindCancelled(i)
       /\ Earned(i, published[i].state) /\ Earned(i, disk[i].state)
  /\ cancel.at = "write" /\ cancel.target = "cancelled"
       => published[cancel.id].state # "cancel_requested"

BridgeInv == OwnTypeOK /\ CallOK /\ StoreInv /\ OwnersInv /\ RunsInv /\ DownInv

(* Memory shows the file, or what it showed before.                        *)
LEMMA ShownFrom ==
  ASSUME OwnTypeOK, CallOK, StoreInv, [BridgeNext]_bridgeVars, NEW i \in Ids
  PROVE  \/ published'[i] = published[i]
         \/ published'[i] = disk'[i] /\ Stored(disk'[i])
  <1>1. [StoreNext]_storeVars
    BY BridgeWrites DEF bridgeVars
  <1>2. ASSUME NEW next, Write(next)
        PROVE  \/ published'[i] = published[i]
               \/ published'[i] = disk'[i] /\ Stored(disk'[i])
    BY <1>2, WriteEffect DEF Show
  <1> QED
    BY <1>1, <1>2, StepsEvolve DEF StoreInv, Crash, Tick, storeVars

(* What is stored while the process runs is what it shows.                 *)
LEMMA StoredIsShown ==
  ASSUME StoreInv, up, NEW i \in Ids
  PROVE  mem[i] = disk[i] /\ (Stored(disk[i]) => published[i] = disk[i])
  BY DEF StoreInv, BasicInv, MemoryIsDurable, ShownInv

(* An executor starts at the spawn and changes only while it runs.         *)
LEMMA ExecMoves ==
  ASSUME OwnTypeOK, CallOK, BridgeNext, NEW j \in Ids
  PROVE  \/ exec'[j] = exec[j]
         \/ task[j] = "spawn" /\ exec'[j] = "running" /\ UNCHANGED storeVars
         \/ exec[j] = "running" /\ runs'[j] = runs[j]
  <1>1. CASE Die
    BY <1>1 DEF Die, OwnTypeOK
  <1>2. ASSUME NEW i \in Ids, Advances(i)
        PROVE  \/ exec'[j] = exec[j]
               \/ task[j] = "spawn" /\ exec'[j] = "running" /\ UNCHANGED storeVars
    BY <1>2 DEF Advances
  <1>3. ASSUME NEW i \in Ids, TryAdmit(i) \/ DropSlot(i) PROVE exec' = exec
    BY <1>3 DEF TryAdmit, DropSlot
  <1>4. ASSUME NEW i \in Ids, NEW s \in Scopes, Submit(i, s), up' PROVE exec' = exec
    BY <1>4 DEF Submit
  <1>5. ASSUME NEW i \in Ids, ExecutorStep(i)
        PROVE  exec'[j] = exec[j] \/ (exec[j] = "running" /\ runs'[j] = runs[j])
    BY <1>5 DEF ExecutorStep, ExecutorReturns, OwnTypeOK, otherVars
  <1>6. ASSUME NEW i \in Ids, WatchStep(i) \/ WatcherWrites(i) PROVE exec' = exec \/ Die
    BY <1>6 DEF WatchStep, DeadlinePasses, WatcherWakes, WatcherReads, WatcherSignals,
                WatcherNotifies, WatcherWrites
  <1>7. CASE QuietStep \/ CancelWrites
    BY <1>1, <1>7 DEF QuietStep, CancelSignals, Shutdown, CancelReads, ShutdownSignals,
          ExecutorTimesOut, CancelWrites
  <1>8. CASE ProcessCrash \/ Restart \/ UNCHANGED bridgeVars
    BY <1>1, <1>8 DEF ProcessCrash, Restart, bridgeVars
  <1>9. ASSUME NEW i \in Ids, NEW s \in Scopes, Submit(i, s) PROVE up' \/ Die
    BY <1>9 DEF Submit
  <1> QED
    BY <1>1, <1>2, <1>3, <1>4, <1>5, <1>6, <1>7, <1>8, <1>9, BridgeSteps,
       PlainAdvances, WritingAdvances

(* A cancel call begins to write by reading.                               *)
LEMMA CancelMoves ==
  ASSUME OwnTypeOK, CallOK, BridgeNext, cancel'.at = "write"
  PROVE  cancel' = cancel \/ \E i \in Ids : CancelReads(i)
  <1>1. ~Die
    BY DEF Die, NoCall
  <1>2. ASSUME NEW i \in Ids,
               PlainStep(i) \/ TryAdmit(i) \/ DropSlot(i) \/ ExecutorStep(i) \/ WatchStep(i)
        PROVE  cancel' = cancel
    BY <1>2 DEF PlainStep, Dispatch, Listen, Recheck, Snapshot, Choose, Wake, Enter,
          LastCheck, Spawn, Join, Unwind, Leave, TryAdmit, DropSlot, ExecutorStep,
          ExecutorReturns, WatchStep, DeadlinePasses, WatcherWakes, WatcherReads,
          WatcherSignals, WatcherNotifies
  <1>3. ASSUME NEW i \in Ids, WritingStep(i) PROVE cancel' = cancel
    BY <1>1, <1>3 DEF WritingStep, Backstop, Prepare, StartRunning, RecordCancel, Judge, Then
  <1>4. ASSUME NEW i \in Ids, WatcherWrites(i) PROVE cancel' = cancel
    BY <1>1, <1>4 DEF WatcherWrites
  <1>5. ASSUME NEW i \in Ids, NEW s \in Scopes, Submit(i, s) PROVE cancel' = cancel
    BY <1>1, <1>5 DEF Submit
  <1>6. ~CancelSignals
    BY DEF CancelSignals, NoCall
  <1>7. ~CancelWrites
    BY <1>1 DEF CancelWrites, NoCall, OwnTypeOK
  <1>8. CASE Shutdown \/ ProcessCrash \/ Restart \/ UNCHANGED bridgeVars
    BY <1>1, <1>8 DEF Shutdown, ProcessCrash, Restart, bridgeVars
  <1>9. ASSUME NEW i \in Ids, ShutdownSignals(i) \/ ExecutorTimesOut(i) PROVE cancel' = cancel
    BY <1>9 DEF ShutdownSignals, ExecutorTimesOut
  <1> QED
    BY <1>2, <1>3, <1>4, <1>5, <1>6, <1>7, <1>8, <1>9, BridgeSteps DEF QuietStep

(* A record that is queued was never run.                                  *)
LEMMA QueuedNeverRan ==
  ASSUME BridgeInv, OutcomesInv, up, NEW j \in Ids, disk[j].state = "queued"
  PROVE  runs[j] = 0 /\ exec[j] = "none" /\ task[j] \notin RunSteps
  <1>1. Stored(disk[j]) /\ published[j] = disk[j]
    BY StoredIsShown DEF BridgeInv, Stored
  <1>2. disk[j].rev = 1
    BY <1>1 DEF BridgeInv, StoreInv, ShownInv, Numbered
  <1>3. ~RanOnce(published[j])
    BY <1>1, <1>2 DEF RanOnce
  <1> QED
    BY <1>1, <1>3 DEF BridgeInv, RunsInv, OutcomesInv

(* A cancel that was aimed at a queued invocation writes only then.        *)
LEMMA AimedCancel ==
  ASSUME BridgeInv, OutcomesInv, up, CancelWrites, cancel.target = "cancelled",
         disk[cancel.id].state \in {"queued", "cancel_requested"}
  PROVE  disk[cancel.id].state = "queued"
  <1>1. cancel.id \in Ids /\ cancel.at = "write"
    BY DEF CancelWrites, BridgeInv, CallOK
  <1>2. published[cancel.id] = disk[cancel.id]
    BY <1>1, StoredIsShown DEF BridgeInv, Stored
  <1> QED
    BY <1>1, <1>2 DEF OutcomesInv

(* While the task of an invocation is in a run and does not record its     *)
(* end, nobody else records one, but for the deadline.                     *)
LEMMA RunningKeeps ==
  ASSUME BridgeInv, OutcomesInv, [BridgeNext]_bridgeVars, NEW j \in Ids,
         task[j] \in RunSteps, ~Judge(j), ~RecordCancel(j)
  PROVE  /\ disk'[j].state \in {"running", "cancel_requested", "failed", "absent"}
         /\ published'[j].state \in {"running", "cancel_requested", "failed"}
  <1>1. up /\ task[j] # "none"
    BY DEF BridgeInv, DownInv, RunSteps
  <1>2. published[j].state \in {"running", "cancel_requested", "failed"}
    BY DEF OutcomesInv
  <1>3. disk[j].state \in {"running", "cancel_requested", "failed", "absent"}
    BY <1>1, <1>2, StoredIsShown DEF BridgeInv, Stored
  <1>4. ~Creates(j)
    BY <1>1 DEF Creates, BridgeInv, OwnersInv, StoreInv, HistoryInv
  <1>5. ~Cancels(j)
    BY <1>1, <1>3, AimedCancel DEF Cancels
  <1>6. disk'[j].state \in {"running", "cancel_requested", "failed", "absent"}
    BY <1>1, <1>3, <1>4, <1>5, DiskMoves
    DEF BridgeInv, Keeps, Sweeps, Reopens, Starts, Succeeded, Fails, Requests
  <1>7. published'[j].state \in {"running", "cancel_requested", "failed"}
    BY <1>2, <1>6, ShownFrom DEF BridgeInv, Stored
  <1> QED
    BY <1>6, <1>7

(* What is recorded next was earned by the run as it is.                   *)
LEMMA NewOutcome ==
  ASSUME BridgeInv, OutcomesInv, [BridgeNext]_bridgeVars, NEW j \in Ids
  PROVE  Earned(j, disk'[j].state) /\ Earned(j, published'[j].state)
  <1>1. Cancels(j) => Earned(j, "cancelled")
    <2>1. CASE RecordCancel(j)
      BY <2>1 DEF RecordCancel, OutcomesInv, KindCancelled, Earned
    <2>2. ASSUME Cancels(j), CancelWrites, cancel.id = j, cancel.target = "cancelled"
          PROVE  exec[j] = "none"
      <3>1. up
        BY <2>2 DEF CancelWrites, BridgeInv, DownInv, NoCall
      <3>2. disk[j].state = "queued"
        BY <2>2, <3>1, AimedCancel DEF Cancels
      <3> QED
        BY <3>1, <3>2, QueuedNeverRan
    <2> QED
      BY <2>1, <2>2 DEF Cancels, Earned
  <1>2. Earned(j, disk'[j].state)
    BY <1>1, DiskMoves
    DEF BridgeInv, OutcomesInv, Keeps, Sweeps, Creates, Reopens, Starts, Succeeded, Fails,
        Cancels, Requests, Earned
  <1> QED
    BY <1>2, ShownFrom DEF BridgeInv, OutcomesInv

(* A task enters a run by the write to running.                            *)
LEMMA TaskRuns ==
  ASSUME BridgeInv, OutcomesInv, [BridgeNext]_bridgeVars, NEW j \in Ids,
         task'[j] \in RunSteps
  PROVE  /\ \/ task'[j] = "spawn" /\ up' /\ mem'[j].state = "running"
            \/ task[j] \in RunSteps
         /\ task'[j] = "record_cancel" => KindCancelled(j)
  <1>0. OwnTypeOK /\ (task[j] = "record_cancel" => KindCancelled(j))
    BY DEF BridgeInv, OutcomesInv
  <1>1. CASE task'[j] = task[j]
    BY <1>0, <1>1
  <1>2. ASSUME NEW i \in Ids, Advances(i)
        PROVE  /\ \/ task'[j] = "spawn" /\ up' /\ mem'[j].state = "running"
                  \/ task[j] \in RunSteps
               /\ task'[j] = "record_cancel" => KindCancelled(j)
    BY <1>0, <1>2 DEF Advances
  <1>3. CASE Die
    BY <1>3 DEF Die, RunSteps
  <1>4. ASSUME NEW i \in Ids, NEW s \in Scopes, Submit(i, s), up' PROVE task'[j] = task[j]
    BY <1>0, <1>4 DEF Submit, Goto, RunSteps, OwnTypeOK
  <1>5. ASSUME NEW i \in Ids, TryAdmit(i) \/ DropSlot(i) PROVE task'[j] = task[j]
    BY <1>0, <1>5 DEF TryAdmit, DropSlot, Goto, RunSteps, OwnTypeOK
  <1>6. CASE Rests \/ UNCHANGED bridgeVars
    BY <1>1, <1>6 DEF Rests, bridgeVars
  <1> QED
    BY <1>1, <1>2, <1>3, <1>4, <1>5, <1>6, Footprints DEF BridgeInv

(* run_invocation records what the executor came to: no interleaving of    *)
(* its writes with a cancel, a deadline or a crash keeps an outcome that   *)
(* was not earned.                                                         *)
LEMMA OutcomesStep ==
  ASSUME BridgeInv, OutcomesInv, [BridgeNext]_bridgeVars, StoreInv'
  PROVE  OutcomesInv'
  <1>1. ASSUME NEW j \in Ids
        PROVE  \/ exec'[j] = exec[j]
               \/ task[j] = "spawn" /\ exec'[j] = "running" /\ UNCHANGED storeVars
               \/ exec[j] = "running" /\ task[j] \in {"executing", "unwind"} /\ runs'[j] = runs[j]
    BY ExecMoves DEF BridgeInv, OwnersInv, bridgeVars
  <1>2. ASSUME NEW j \in Ids, exec'[j] # "none" PROVE runs'[j] = 1
    <2>1. runs[j] = 1 => runs'[j] = 1
      <3>1. CASE Die \/ Rests \/ UNCHANGED bridgeVars
        BY <3>1 DEF Die, Rests, bridgeVars, otherVars
      <3>2. ASSUME NEW i \in Ids, NEW s \in Scopes, Submit(i, s), up' PROVE runs' = runs
        BY <3>2 DEF Submit, otherVars
      <3>3. ASSUME NEW i \in Ids, TryAdmit(i) \/ DropSlot(i) PROVE runs' = runs
        BY <3>3 DEF TryAdmit, DropSlot, otherVars
      <3>4. ASSUME NEW i \in Ids, Advances(i), runs[j] = 1 PROVE runs'[j] = 1
        BY <3>4 DEF Advances, BridgeInv, RunsInv, PreSpawn
      <3> QED
        BY <3>1, <3>2, <3>3, <3>4, Footprints DEF BridgeInv
    <2>2. CASE task[j] = "spawn" /\ exec'[j] = "running" /\ exec[j] = "none"
      <3>1. ASSUME NEW i \in Ids, Advances(i) PROVE runs'[j] = 1
        BY <2>2, <3>1 DEF Advances, BridgeInv, RunsInv, PreSpawn
      <3>2. CASE Die
        BY <2>2, <3>2 DEF Die
      <3>3. ASSUME NEW i \in Ids, TryAdmit(i) \/ DropSlot(i) PROVE exec' = exec
        BY <3>3 DEF TryAdmit, DropSlot
      <3>4. ASSUME NEW i \in Ids, NEW s \in Scopes, Submit(i, s), up' PROVE exec' = exec
        BY <3>4 DEF Submit
      <3>5. Rests => exec'[j] = exec[j] \/ exec'[j] # "running"
        BY DEF Rests
      <3> QED
        BY <2>2, <3>1, <3>2, <3>3, <3>4, <3>5, Footprints DEF BridgeInv, bridgeVars
    <2> QED
      BY <1>1, <1>2, <2>1, <2>2 DEF OutcomesInv
  <1>3. ASSUME NEW j \in Ids, task'[j] \in RunSteps
        PROVE  published'[j].state \in {"running", "cancel_requested", "failed"}
    <2>1. CASE up' /\ mem'[j].state = "running"
      <3>1. Stored(mem'[j]) /\ published'[j] = mem'[j]
        BY <2>1 DEF StoreInv, ShownInv, Stored
      <3> QED
        BY <2>1, <3>1
    <2>2. CASE task[j] \in RunSteps
      <3>1. ~Judge(j) /\ ~RecordCancel(j)
        BY <1>3 DEF Judge, RecordCancel, Then, Goto, Die, RunSteps, BridgeInv, OwnTypeOK
      <3> QED
        BY <2>2, <3>1, RunningKeeps
    <2> QED
      BY <1>3, <2>1, <2>2, TaskRuns
  <1>4. ASSUME NEW j \in Ids, task'[j] = "record_cancel" PROVE KindCancelled(j)'
    <2>1. KindCancelled(j)
      BY <1>4, TaskRuns DEF RunSteps
    <2>2. task[j] # "spawn"
      BY <2>1 DEF KindCancelled, OutcomesInv, BridgeInv, RunsInv, PreSpawn
    <2> QED
      BY <1>1, <2>1, <2>2 DEF KindCancelled
  <1>5. ASSUME NEW j \in Ids
        PROVE  Earned(j, published[j].state)' /\ Earned(j, disk[j].state)'
    <2>1. CASE exec'[j] = exec[j]
      BY <2>1, NewOutcome DEF Earned
    <2>2. CASE task[j] \in {"spawn", "executing", "unwind"}
      <3>1. ~Judge(j) /\ ~RecordCancel(j) /\ task[j] \in RunSteps
        BY <2>2 DEF Judge, RecordCancel, RunSteps
      <3> QED
        BY <3>1, RunningKeeps DEF Earned
    <2> QED
      BY <1>1, <2>1, <2>2
  <1>6. ASSUME cancel'.at = "write", cancel'.target = "cancelled"
        PROVE  published'[cancel'.id].state # "cancel_requested"
    <2>1. CASE UNCHANGED bridgeVars
      BY <1>6, <2>1 DEF bridgeVars, storeVars, OutcomesInv
    <2>2. ASSUME NEW i \in Ids, CancelReads(i)
          PROVE  published'[cancel'.id].state # "cancel_requested"
      <3>1. CancelTarget(mem[i].state) = "cancelled" /\ cancel'.id = i /\ up
            /\ UNCHANGED published
        BY <1>6, <2>2 DEF CancelReads, NoCall, storeVars
      <3>2. mem[i].state \in {"queued", "cancelled"}
        BY <3>1 DEF CancelTarget
      <3>3. published[i] = mem[i]
        BY <3>1, <3>2, StoredIsShown DEF BridgeInv, Stored
      <3> QED
        BY <3>1, <3>2, <3>3
    <2>3. CASE cancel' = cancel /\ BridgeNext
      <3>1. /\ cancel.id \in Ids /\ up
            /\ published[cancel.id].state # "cancel_requested"
        BY <1>6, <2>3 DEF BridgeInv, CallOK, DownInv, NoCall, OutcomesInv
      <3>2. disk[cancel.id].state # "cancel_requested"
        BY <3>1, StoredIsShown DEF BridgeInv, Stored
      <3>3. disk'[cancel.id].state # "cancel_requested"
        BY <1>6, <2>3, <3>1, <3>2, DiskMoves
        DEF BridgeInv, Keeps, Sweeps, Creates, Reopens, Starts, Succeeded, Fails, Cancels, Requests
      <3> QED
        BY <2>3, <3>1, <3>3, ShownFrom DEF BridgeInv
    <2> QED
      BY <1>6, <2>1, <2>2, <2>3, CancelMoves DEF BridgeInv
  <1> QED
    BY <1>2, <1>3, <1>4, <1>5, <1>6 DEF OutcomesInv

(* Nothing is recorded at the start.                                       *)
LEMMA OutcomesInitially == BridgeInit => OutcomesInv
  BY DEF BridgeInit, StoreInit, NoRecords, Absent, NoCall, OutcomesInv, Earned, RunSteps

(* Types, store, owners, runs and a dead process's silence, together.      *)
THEOREM BridgeInvariant == BridgeSpec => []BridgeInv
  BY BridgeOwnTypes, BridgeStore, BridgeOwners, BridgeRuns, BridgeDown, PTL DEF BridgeInv

(* What is recorded, in the file and in memory, was earned by the run.     *)
THEOREM BridgeOutcomes == BridgeSpec => []OutcomesInv
  <1>1. BridgeInv /\ BridgeInv' /\ OutcomesInv /\ [BridgeNext]_bridgeVars => OutcomesInv'
    BY OutcomesStep DEF BridgeInv
  <1> QED
    BY <1>1, OutcomesInitially, BridgeInvariant, PTL DEF BridgeSpec

(* succeeded is recorded only for an executor that completed, cancelled    *)
(* never for one that completed, failed or hit its own run timeout, which  *)
(* cancels the same token: the real outcome of a run is kept, with one     *)
(* cancel call at a time.                                                  *)
THEOREM BridgeOutcomesAreEarned == BridgeSpec => []OutcomesAreEarned
  <1>1. OutcomesInv => OutcomesAreEarned
    BY DEF OutcomesInv, OutcomesAreEarned, Earned
  <1> QED
    BY <1>1, BridgeOutcomes, PTL

-----------------------------------------------------------------------------
(* Nobody is forgotten.                                                    *)

(* What the stage of a task says about its token, its watcher and its      *)
(* record, and what a cancel has written before it signals.                *)
StagesInv ==
  /\ \A i \in Ids :
       /\ task[i] \in {"none", "new"} =>
            token[i] = "none" /\ i \notin registered /\ watcher[i] = "none"
       /\ task[i] \in PreSpawn \ {"spawn"} => mem[i].state \notin {"running", "cancel_requested"}
       /\ task[i] \in {"unwind", "record_cancel"} => Cancelled(i)
  /\ cancel.at = "signal" => published[cancel.id].state \notin {"absent", "queued", "running"}

(* Somebody is still going to finish i: its task, or the watcher that is   *)
(* about to write; a cancelled token comes with a requested cancel, with   *)
(* that watcher, or with a run that ends as a failure.                     *)
Attended(i) ==
  /\ task[i] # "none"
  /\ task[i] \in {"release", "leave", "done"} => watcher[i] = "write"
  /\ Cancelled(i) => \/ mem[i].state = "cancel_requested" \/ watcher[i] = "write"
                     \/ i \in expired \/ exec[i] = "failed"

Undisturbed == "write_failure" \notin Environment /\ up /\ ~shutdown

AttendedInv == Undisturbed => \A i \in Ids : IsActive(mem[i]) => Attended(i)

(* A task moves by its own steps, while the process lives.                 *)
LEMMA TaskMoves ==
  ASSUME OwnTypeOK, CallOK, [BridgeNext]_bridgeVars, up', NEW j \in Ids
  PROVE  \/ task'[j] = task[j] \/ \E s \in Scopes : Submit(j, s)
         \/ PlainStep(j) \/ WritingStep(j) \/ TryAdmit(j) \/ DropSlot(j)
  <1>1. ASSUME NEW i \in Ids, i # j, NEW s \in Scopes, Submit(i, s) PROVE task'[j] = task[j]
    BY <1>1 DEF Submit, Goto, OwnTypeOK
  <1>2. ASSUME NEW i \in Ids, i # j, PlainStep(i) \/ TryAdmit(i) \/ DropSlot(i)
        PROVE  task'[j] = task[j]
    BY <1>2 DEF PlainStep, Dispatch, Listen, Recheck, Snapshot, Choose, Wake, Enter,
          LastCheck, Spawn, Join, Unwind, Leave, TryAdmit, DropSlot, Goto, OwnTypeOK
  <1>3. ASSUME NEW i \in Ids, i # j, WritingStep(i) PROVE task'[j] = task[j]
    BY <1>3 DEF WritingStep, Backstop, Prepare, StartRunning, RecordCancel, Judge, Then,
                Goto, OwnTypeOK
  <1>4. ASSUME NEW i \in Ids, ExecutorStep(i) \/ WatchStep(i) \/ WatcherWrites(i) PROVE task' = task
    BY <1>4 DEF ExecutorStep, ExecutorReturns, WatchStep, DeadlinePasses, WatcherWakes,
          WatcherReads, WatcherSignals, WatcherNotifies, WatcherWrites
  <1>5. QuietStep \/ CancelWrites \/ UNCHANGED bridgeVars => task' = task
    BY DEF QuietStep, CancelSignals, Shutdown, CancelReads, ShutdownSignals,
          ExecutorTimesOut, CancelWrites, bridgeVars
  <1>6. ProcessCrash \/ Restart => task' = task
    BY DEF ProcessCrash, Crash, Restart
  <1> QED
    BY <1>1, <1>2, <1>3, <1>4, <1>5, <1>6, BridgeSteps

(* Who signals a token, who registers one and what moves a watcher.        *)
SignalMove(j) ==
  /\ \/ token'[j] = token[j] \/ Dispatch(j) \/ Leave(j) \/ WatcherSignals(j)
     \/ ShutdownSignals(j) \/ ExecutorTimesOut(j)
     \/ (CancelSignals /\ cancel.id = j /\ j \in registered)
  /\ Dispatch(j) \/ (j \in registered' => j \in registered)
  /\ \/ watcher'[j] = watcher[j] \/ Dispatch(j) \/ WatcherSignals(j) \/ WatcherWrites(j)
     \/ watcher[j] \notin {"none", "signal", "write"}

(* A token is cancelled by its task on leaving, its watcher, its executor's *)
(* timeout, a cancel call that finds it registered, or the shutdown; a     *)
(* watcher writes only after it has signalled.                             *)
LEMMA SignalMoves ==
  ASSUME OwnTypeOK, CallOK, [BridgeNext]_bridgeVars, up', NEW j \in Ids
  PROVE  SignalMove(j)
  <1>0. UNCHANGED <<token, registered, watcher>> => SignalMove(j)
    BY DEF SignalMove
  <1>1. ASSUME NEW i \in Ids, NEW s \in Scopes, Submit(i, s) PROVE SignalMove(j)
    BY <1>0, <1>1 DEF Submit, signalVars
  <1>2. ASSUME NEW i \in Ids, PlainStep(i) PROVE SignalMove(j)
    <2>1. CASE Dispatch(i) \/ Leave(i)
      BY <2>1 DEF Dispatch, Leave, SignalMove, OwnTypeOK
    <2> QED
      BY <1>0, <1>2, <2>1 DEF PlainStep, Listen, Recheck, Snapshot, Choose, Wake, Enter,
          LastCheck, Spawn, Join, Unwind, signalVars
  <1>3. ASSUME NEW i \in Ids, WritingStep(i) PROVE SignalMove(j)
    BY <1>0, <1>3 DEF WritingStep, Backstop, Prepare, StartRunning, RecordCancel, Judge, Then,
                      signalVars
  <1>4. ASSUME NEW i \in Ids, TryAdmit(i) \/ DropSlot(i) \/ ExecutorStep(i) PROVE SignalMove(j)
    BY <1>0, <1>4 DEF TryAdmit, DropSlot, ExecutorStep, ExecutorReturns, signalVars
  <1>5. ASSUME NEW i \in Ids, WatchStep(i) PROVE SignalMove(j)
    <2>1. CASE WatcherSignals(i)
      BY <2>1 DEF WatcherSignals, Watch, SignalMove, OwnTypeOK
    <2>2. CASE WatcherWakes(i) \/ WatcherReads(i) \/ WatcherNotifies(i)
      BY <2>2 DEF WatcherWakes, WatcherReads, WatcherNotifies, Watch, SignalMove, OwnTypeOK,
                  signalVars
    <2> QED
      BY <1>0, <1>5, <2>1, <2>2 DEF WatchStep, DeadlinePasses, signalVars
  <1>6. ASSUME NEW i \in Ids, WatcherWrites(i) PROVE SignalMove(j)
    BY <1>6 DEF WatcherWrites, SignalMove, OwnTypeOK, signalVars
  <1>7. CASE QuietStep
    <2>1. CASE CancelSignals
      BY <2>1 DEF CancelSignals, SignalMove, OwnTypeOK
    <2>2. ASSUME NEW i \in Ids, ShutdownSignals(i) \/ ExecutorTimesOut(i) PROVE SignalMove(j)
      BY <2>2 DEF ShutdownSignals, ExecutorTimesOut, SignalMove, OwnTypeOK
    <2> QED
      BY <1>0, <1>7, <2>1, <2>2 DEF QuietStep, Shutdown, CancelReads, signalVars
  <1>8. CASE CancelWrites \/ ProcessCrash \/ Restart \/ UNCHANGED bridgeVars
    BY <1>0, <1>8 DEF CancelWrites, ProcessCrash, Crash, Restart, bridgeVars, signalVars
  <1> QED
    BY <1>1, <1>2, <1>3, <1>4, <1>5, <1>6, <1>7, <1>8, BridgeSteps

(* A cancel call begins to signal when its target is on record.            *)
LEMMA CancelAnswers ==
  ASSUME OwnTypeOK, CallOK, [BridgeNext]_bridgeVars, up', cancel'.at = "signal"
  PROVE  \/ cancel' = cancel
         \/ CancelWrites /\ cancel'.id = cancel.id /\ mem'[cancel.id].state = cancel.target
  <1>1. ASSUME NEW i \in Ids,
               PlainStep(i) \/ TryAdmit(i) \/ DropSlot(i) \/ ExecutorStep(i) \/ WatchStep(i)
        PROVE  cancel' = cancel
    BY <1>1 DEF PlainStep, Dispatch, Listen, Recheck, Snapshot, Choose, Wake, Enter,
          LastCheck, Spawn, Join, Unwind, Leave, TryAdmit, DropSlot, ExecutorStep,
          ExecutorReturns, WatchStep, DeadlinePasses, WatcherWakes, WatcherReads,
          WatcherSignals, WatcherNotifies
  <1>2. ASSUME NEW i \in Ids, WritingStep(i) \/ WatcherWrites(i) PROVE cancel' = cancel
    BY <1>2 DEF WritingStep, Backstop, Prepare, StartRunning, RecordCancel, Judge, Then, WatcherWrites
  <1>3. ASSUME NEW i \in Ids, NEW s \in Scopes, Submit(i, s) PROVE cancel' = cancel
    BY <1>3 DEF Submit
  <1>4. QuietStep => cancel' = cancel
    BY DEF QuietStep, CancelSignals, Shutdown, CancelReads, ShutdownSignals, ExecutorTimesOut, NoCall
  <1>5. CASE CancelWrites
    BY <1>5 DEF CancelWrites, NoCall, OwnTypeOK
  <1>6. ProcessCrash \/ Restart \/ UNCHANGED bridgeVars => cancel' = cancel
    BY DEF ProcessCrash, Crash, Restart, bridgeVars
  <1> QED
    BY <1>1, <1>2, <1>3, <1>4, <1>5, <1>6, BridgeSteps

(* While the process is down, and when it comes up, nothing is under way.  *)
LEMMA NothingUnderWay ==
  ASSUME OwnTypeOK, CallOK, DownInv, DownInv', [BridgeNext]_bridgeVars, ~up \/ ~up'
  PROVE  /\ \A i \in Ids : /\ task'[i] = "none" /\ watcher'[i] = "none"
                          /\ token'[i] = "none" /\ seen'[i] = {}
         /\ registered' = {} /\ cancel' = NoCall
         /\ up' => Restart
  <1>1. CASE ~up'
    BY <1>1 DEF DownInv
  <1>2. CASE ~up /\ up'
    <2>1. /\ \A i \in Ids : task[i] = "none" /\ watcher[i] = "none" /\ exec[i] # "running"
          /\ cancel = NoCall
      BY <1>2 DEF DownInv
    <2>2. ASSUME NEW i \in Ids
          PROVE  ~(PlainStep(i) \/ WritingStep(i) \/ TryAdmit(i) \/ DropSlot(i))
      BY <2>1 DEF PlainStep, Dispatch, Listen, Recheck, Snapshot, Choose, Wake, Enter,
          LastCheck, Spawn, Join, Unwind, Leave, TryAdmit, DropSlot, WritingStep, Backstop,
          Prepare, StartRunning, RecordCancel, Judge
    <2>3. ASSUME NEW i \in Ids PROVE ~(ExecutorStep(i) \/ WatchStep(i) \/ WatcherWrites(i))
      BY <1>2, <2>1 DEF ExecutorStep, ExecutorReturns, WatchStep, DeadlinePasses, WatcherWakes,
          WatcherReads, WatcherSignals, WatcherNotifies, Watch, WatcherWrites, storeVars
    <2>4. ~(QuietStep \/ CancelWrites \/ ProcessCrash)
      BY <1>2, <2>1 DEF QuietStep, CancelSignals, Shutdown, CancelReads, ShutdownSignals, ExecutorTimesOut,
          CancelWrites, ProcessCrash, Crash, NoCall, Admitting, Holding
    <2>5. ASSUME NEW i \in Ids, NEW s \in Scopes PROVE ~Submit(i, s)
      BY <1>2 DEF Submit, Create
    <2>6. Restart
      BY <1>2, <2>2, <2>3, <2>4, <2>5, BridgeSteps DEF bridgeVars, storeVars
    <2> QED
      BY <1>2, <2>6 DEF Restart, signalVars, DownInv
  <1> QED
    BY <1>1, <1>2

(* The record of a new invocation.                                         *)
LEMMA SubmitQueues ==
  ASSUME NEW i \in Ids, NEW s \in Scopes, Submit(i, s)
  PROVE  disk'[i].state = "queued"
  <1>1. disk' = CreatedRecords(i, s, None, None)
    BY WriteEffect DEF Submit, Create
  <1> QED
    BY <1>1 DEF CreatedRecords, DropBindings, NewRecord

(* What was shown was issued.                                              *)
LEMMA ShownIsIssued ==
  ASSUME StoreInv, NEW i \in Ids, Stored(published[i])
  PROVE  i \in issued
  BY DEF StoreInv, HistoryInv

(* Every step keeps StagesInv: the record is cancel_requested or running   *)
(* only after the write to running of its task, a task unwinds only        *)
(* because of its token, and a cancel call signals only after its write.   *)
LEMMA StagesStep ==
  ASSUME BridgeInv, BridgeInv', StagesInv, [BridgeNext]_bridgeVars
  PROVE  StagesInv'
  <1>0. OwnTypeOK /\ CallOK /\ StoreInv /\ DownInv /\ StoreInv' /\ DownInv'
    BY DEF BridgeInv
  <1>1. CASE ~up \/ ~up'
    <2>1. /\ \A i \in Ids : task'[i] = "none" /\ token'[i] = "none" /\ watcher'[i] = "none"
          /\ registered' = {} /\ cancel' = NoCall
      BY <1>0, <1>1, NothingUnderWay
    <2> QED
      BY <2>1 DEF StagesInv, PreSpawn, Admitting, NoCall
  <1>2. CASE up /\ up'
    <2>0. \A j \in Ids : mem[j] = disk[j] /\ mem'[j] = disk'[j]
      BY <1>0, <1>2 DEF StoreInv, BasicInv, MemoryIsDurable
    <2>1. ASSUME NEW j \in Ids, task'[j] \in {"none", "new"}
          PROVE  token'[j] = "none" /\ j \notin registered' /\ watcher'[j] = "none"
      <3>1. ASSUME NEW s \in Scopes, Submit(j, s) PROVE task[j] \in {"none", "new"}
        <4>1. j \notin issued
          BY <3>1 DEF Submit, Create
        <4> QED
          BY <1>0, <4>1, ShownIsIssued DEF BridgeInv, OwnersInv
      <3>2. task[j] \in {"none", "new"}
        BY <1>0, <1>2, <2>1, <3>1, TaskMoves
        DEF PlainStep, Dispatch, Listen, Recheck, Snapshot, Choose, Wake, Enter, LastCheck,
            Spawn, Join, Unwind, Leave, TryAdmit, DropSlot, WritingStep, Backstop, Prepare,
            StartRunning, AfterStart, RecordCancel, Judge, Then, Goto, OwnTypeOK
      <3>3. token[j] = "none" /\ j \notin registered /\ watcher[j] = "none"
        BY <3>2 DEF StagesInv
      <3>4. ~Dispatch(j) /\ ~Leave(j)
        BY <1>0, <2>1 DEF Dispatch, Leave, Goto, OwnTypeOK
      <3>5. ~WatcherSignals(j) /\ ~WatcherWrites(j)
        BY <3>3 DEF WatcherSignals, Watch, WatcherWrites
      <3>6. ~ShutdownSignals(j) /\ ~ExecutorTimesOut(j)
        BY <3>2 DEF ShutdownSignals, ExecutorTimesOut, Admitting, Holding, BridgeInv, RunsInv,
                    OwnersInv
      <3> QED
        BY <1>0, <1>2, <3>3, <3>4, <3>5, <3>6, SignalMoves DEF SignalMove
    <2>2. ASSUME NEW j \in Ids, task'[j] \in PreSpawn \ {"spawn"}
          PROVE  mem'[j].state \notin {"running", "cancel_requested"}
      <3>1. CASE \E s \in Scopes : Submit(j, s)
        BY <2>0, <3>1, SubmitQueues
      <3>2. CASE ~\E s \in Scopes : Submit(j, s)
        <4>1. ~StartRunning(j)
          BY <1>0, <1>2, <2>2
          DEF StartRunning, AfterStart, Then, Goto, OwnTypeOK, PreSpawn, Admitting
        <4>2. task[j] \in PreSpawn \ {"spawn"}
          <5>1. CASE task'[j] = task[j]
            BY <2>2, <5>1
          <5>2. CASE PlainStep(j)
            BY <1>0, <2>2, <5>2, PlainAdvances DEF Advances
          <5>3. CASE WritingStep(j)
            <6>1. ~Die
              BY <2>2 DEF Die, PreSpawn, Admitting
            <6> QED
              BY <1>0, <2>2, <5>3, <6>1, WritingAdvances DEF Advances
          <5>4. CASE TryAdmit(j)
            BY <5>4 DEF TryAdmit, PreSpawn, Admitting
          <5>5. CASE DropSlot(j)
            BY <1>0, <2>2, <5>5 DEF DropSlot, Goto, OwnTypeOK, PreSpawn, Admitting
          <5> QED
            BY <1>0, <1>2, <3>2, <5>1, <5>2, <5>3, <5>4, <5>5, TaskMoves
        <4>3. disk[j].state \notin {"running", "cancel_requested"}
          BY <2>0, <4>2 DEF StagesInv
        <4>4. ~Creates(j)
          BY <3>2 DEF Creates
        <4> QED
          BY <1>0, <2>0, <4>1, <4>3, <4>4, DiskMoves
          DEF Keeps, Sweeps, Reopens, Starts, Succeeded, Fails, Cancels, Requests
      <3> QED
        BY <3>1, <3>2
    <2>3. ASSUME NEW j \in Ids, task'[j] \in {"unwind", "record_cancel"}
          PROVE  Cancelled(j)'
      <3>1. task[j] \in {"executing", "unwind", "record_cancel"} /\ Cancelled(j)
        BY <1>0, <1>2, <2>3, TaskMoves
        DEF PlainStep, Dispatch, Listen, Recheck, Snapshot, Choose, Wake, Enter, LastCheck,
            Spawn, Join, Unwind, Leave, TryAdmit, DropSlot, WritingStep, Backstop, Prepare,
            StartRunning, AfterStart, RecordCancel, Judge, Then, Goto, OwnTypeOK, Submit, StagesInv
      <3>2. ~Dispatch(j)
        BY <3>1 DEF Dispatch
      <3> QED
        BY <1>0, <1>2, <3>1, <3>2, SignalMoves
        DEF SignalMove, Cancelled, Leave, WatcherSignals, ShutdownSignals, ExecutorTimesOut,
            CancelSignals, OwnTypeOK
    <2>4. ASSUME cancel'.at = "signal"
          PROVE  published'[cancel'.id].state \notin {"absent", "queued", "running"}
      <3>1. CASE cancel' = cancel
        <4>1. cancel.id \in Ids /\ published[cancel.id].state \notin {"absent", "queued", "running"}
          BY <1>0, <2>4, <3>1 DEF CallOK, StagesInv
        <4>2. cancel.id \in issued /\ disk[cancel.id].state \notin {"queued", "running"}
          BY <1>0, <1>2, <4>1, ShownIsIssued, StoredIsShown DEF Stored
        <4>3. disk'[cancel.id].state \notin {"queued", "running"}
          BY <1>0, <1>2, <4>1, <4>2, DiskMoves
          DEF Keeps, Sweeps, Creates, Reopens, Starts, Succeeded, Fails, Cancels, Requests
        <4> QED
          BY <1>0, <3>1, <4>1, <4>3, ShownFrom DEF Stored
      <3>2. CASE CancelWrites /\ cancel'.id = cancel.id /\ mem'[cancel.id].state = cancel.target
        <4>1. cancel.id \in Ids /\ cancel.target \in {"cancelled", "cancel_requested"}
          BY <1>0, <3>2 DEF CancelWrites, CallOK
        <4>2. published'[cancel.id] = mem'[cancel.id]
          BY <1>0, <1>2, <3>2, <4>1 DEF StoreInv, ShownInv, Stored
        <4> QED
          BY <3>2, <4>1, <4>2
      <3> QED
        BY <1>0, <1>2, <2>4, <3>1, <3>2, CancelAnswers
    <2> QED
      BY <2>1, <2>2, <2>3, <2>4 DEF StagesInv
  <1> QED
    BY <1>1, <1>2 DEF BridgeInv, OwnTypeOK, StoreInv, BasicInv, StoreTypeOK

(* No task has begun.                                                      *)
LEMMA StagesInitially == BridgeInit => StagesInv
  BY DEF BridgeInit, StagesInv, PreSpawn, Admitting, NoCall

(* The stage of a task bounds the state of its record, its token and its   *)
(* watcher.                                                                *)
THEOREM BridgeStages == BridgeSpec => []StagesInv
  <1>1. BridgeInv /\ BridgeInv' /\ StagesInv /\ [BridgeNext]_bridgeVars => StagesInv'
    BY StagesStep
  <1> QED
    BY <1>1, StagesInitially, BridgeInvariant, PTL DEF BridgeSpec

(* Without write failures a lifecycle write that is permitted is made.     *)
LEMMA AttemptTakes ==
  ASSUME StoreInv, Undisturbed, NEW i \in Ids, NEW next \in States, NEW code,
         Attempt(i, next, code), up', IsActive(mem[i]), PermitsWith(mem[i].state, next, code)
  PROVE  mem'[i].state = next
  <1>1. Stored(mem[i])
    BY DEF IsActive, Active, Stored
  <1>2. CASE mem[i].state = next
    <2>1. UNCHANGED storeVars
      BY <1>1, <1>2 DEF Attempt, TransitionOutcome, Transition
    <2> QED
      BY <1>2, <2>1 DEF storeVars
  <1>3. CASE mem[i].state # next
    <2>1. TransitionOutcome(i, 0, next, code) = "changed"
      BY <1>1, <1>3 DEF TransitionOutcome
    <2>2. Write([mem EXCEPT ![i] = Moved(@, next, code)])
      BY <2>1 DEF Attempt, Transition, Undisturbed
    <2>3. mem' = [mem EXCEPT ![i] = Moved(@, next, code)] /\ mem \in [Ids -> Record]
      BY <2>2, WriteEffect DEF StoreInv, BasicInv, StoreTypeOK
    <2>4. Moved(mem[i], next, code).state = next
      BY <2>3 DEF Moved, Record
    <2> QED
      BY <2>3, <2>4
  <1> QED
    BY <1>2, <1>3

(* A failure before the run is recorded in every unfinished state, one of  *)
(* the run in every state of a run.                                        *)
LEMMA FailTakes ==
  ASSUME StoreInv, Undisturbed, NEW i \in Ids, NEW code, Fail(i, code), up', IsActive(mem[i]),
         code \in PreExecutionCodes \/ mem[i].state # "queued"
  PROVE  ~IsActive(mem'[i])
  <1>1. PermitsWith(mem[i].state, "failed", code)
    BY DEF PermitsWith, Permits, Successors, IsActive, Active
  <1>2. "failed" \in States /\ "failed" \notin Active
    BY DEF States, Terminal, Active
  <1> QED
    BY <1>1, <1>2, AttemptTakes DEF Fail, IsActive

(* A shutdown that has begun lasts until the process dies.                 *)
LEMMA ShutdownLasts ==
  ASSUME OwnTypeOK, CallOK, [BridgeNext]_bridgeVars, up', shutdown
  PROVE  shutdown'
  <1>1. ASSUME NEW i \in Ids,
               PlainStep(i) \/ TryAdmit(i) \/ DropSlot(i) \/ ExecutorStep(i) \/ WatchStep(i)
        PROVE  shutdown' = shutdown
    BY <1>1 DEF PlainStep, Dispatch, Listen, Recheck, Snapshot, Choose, Wake, Enter,
          LastCheck, Spawn, Join, Unwind, Leave, TryAdmit, DropSlot, ExecutorStep,
          ExecutorReturns, WatchStep, DeadlinePasses, WatcherWakes, WatcherReads,
          WatcherSignals, WatcherNotifies, otherVars
  <1>2. ASSUME NEW i \in Ids, WritingStep(i) \/ WatcherWrites(i) PROVE shutdown' = shutdown
    BY <1>2 DEF WritingStep, Backstop, Prepare, StartRunning, RecordCancel, Judge, Then,
                WatcherWrites, otherVars
  <1>3. ASSUME NEW i \in Ids, NEW s \in Scopes, Submit(i, s) PROVE shutdown' = shutdown
    BY <1>3 DEF Submit, otherVars
  <1>4. CASE QuietStep \/ CancelWrites
    BY <1>4 DEF QuietStep, CancelSignals, Shutdown, CancelReads, ShutdownSignals,
          ExecutorTimesOut, CancelWrites,
                otherVars
  <1>5. ProcessCrash \/ Restart \/ UNCHANGED bridgeVars => shutdown' = shutdown
    BY DEF ProcessCrash, Crash, Restart, bridgeVars, otherVars
  <1> QED
    BY <1>1, <1>2, <1>3, <1>4, <1>5, BridgeSteps

(* A task gives an unfinished invocation up only to the deadline watcher   *)
(* that is about to write.                                                 *)
LEMMA GivesUp ==
  ASSUME BridgeInv, StoreInv', OutcomesInv, StagesInv, Undisturbed, up', NEW j \in Ids,
         IsActive(mem[j]), IsActive(mem'[j]), Attended(j),
         PlainStep(j) \/ WritingStep(j) \/ TryAdmit(j) \/ DropSlot(j),
         task'[j] \in {"release", "leave", "done"}
  PROVE  watcher[j] = "write"
  <1>0. OwnTypeOK /\ StoreInv /\ up /\ mem[j].state \in {"queued", "running", "cancel_requested"}
    BY DEF BridgeInv, Undisturbed, IsActive, Active
  <1>1. ASSUME task[j] \in PreSpawn \ {"spawn"} PROVE mem[j].state = "queued"
    BY <1>0, <1>1 DEF StagesInv
  <1>2. CASE task[j] \in {"release", "leave", "done"}
    BY <1>2 DEF Attended
  <1>3. CASE Cancelled(j) /\ task[j] \in PreSpawn \ {"spawn"}
    <2>1. exec[j] = "none"
      BY <1>3 DEF BridgeInv, RunsInv, OutcomesInv
    <2>2. j \notin expired
      BY <1>0, <2>1 DEF OwnTypeOK
    <2> QED
      BY <1>1, <1>3, <2>1, <2>2 DEF Attended
  <1>4. CASE PlainStep(j)
    <2>1. task[j] = "leave" \/ (task[j] \in PreSpawn \ {"spawn"}
                                  /\ (Cancelled(j) \/ mem[j].state # "queued"))
      BY <1>0, <1>4
      DEF PlainStep, Dispatch, Listen, Recheck, Snapshot, Choose, Wake, Enter, LastCheck,
          Spawn, Join, Unwind, Leave, Goto, OwnTypeOK, PreSpawn, Admitting
    <2> QED
      BY <1>1, <1>2, <1>3, <2>1
  <1>5. CASE TryAdmit(j)
    BY <1>0, <1>5 DEF TryAdmit, Goto, OwnTypeOK
  <1>6. CASE DropSlot(j)
    BY <1>2, <1>6 DEF DropSlot
  <1>7. CASE Backstop(j)
    BY <1>0, <1>7, FailTakes DEF Backstop, PreExecutionCodes
  <1>8. CASE Prepare(j)
    <2>1. ~Fail(j, "task_init_failed")
      BY <1>0, <1>8, FailTakes DEF PreExecutionCodes
    <2>2. Cancelled(j) /\ task[j] \in PreSpawn \ {"spawn"}
      BY <1>0, <1>8, <2>1 DEF Prepare, Goto, OwnTypeOK, PreSpawn
    <2> QED
      BY <1>3, <2>2
  <1>9. CASE StartRunning(j)
    <2>1. mem[j].state = "queued" /\ Attempt(j, "running", "none")
      BY <1>1, <1>9 DEF StartRunning, PreSpawn
    <2>2. mem'[j].state = "running"
      BY <1>0, <2>1, AttemptTakes
      DEF PermitsWith, Permits, Successors, States, Active
    <2> QED
      BY <1>0, <1>9, <2>2 DEF StartRunning, AfterStart, Then, Goto, OwnTypeOK
  <1>10. CASE RecordCancel(j)
    <2>1. Cancelled(j) /\ Attempt(j, "cancelled", "none")
      BY <1>10 DEF RecordCancel, StagesInv
    <2>2. mem[j].state = "cancel_requested" => mem'[j].state = "cancelled"
      BY <1>0, <2>1, AttemptTakes
      DEF PermitsWith, Permits, Successors, States, Terminal
    <2>3. exec[j] = "stopped"
      BY <1>10 DEF RecordCancel, OutcomesInv, KindCancelled
    <2>4. j \notin expired
      BY <1>0, <2>3 DEF OwnTypeOK
    <2> QED
      BY <2>1, <2>2, <2>3, <2>4 DEF Attended, IsActive, Active
  <1>11. CASE Judge(j)
    <2>1. task[j] = "judge" /\ published[j].state # "queued"
      BY <1>11 DEF Judge, OutcomesInv, RunSteps
    <2>2. mem[j].state \in {"running", "cancel_requested"}
      BY <1>0, <2>1, StoredIsShown DEF Stored
    <2>3. ~Fail(j, "task_failed")
      BY <1>0, <2>2, FailTakes
    <2>4. Attempt(j, "succeeded", "none")
      BY <1>11, <2>3 DEF Judge
    <2>5. mem'[j].state = "succeeded"
      BY <1>0, <2>2, <2>4, AttemptTakes
      DEF PermitsWith, Permits, Successors, States, Terminal
    <2> QED
      BY <2>5 DEF IsActive, Active
  <1> QED
    BY <1>4, <1>5, <1>6, <1>7, <1>8, <1>9, <1>10, <1>11 DEF WritingStep

(* An executor that unwinds from its timeout fails, and a failed one stays *)
(* what it is.                                                             *)
LEMMA TimeoutFails ==
  ASSUME BridgeInv, OutcomesInv, [BridgeNext]_bridgeVars, up', NEW j \in Ids,
         j \in expired \/ exec[j] = "failed"
  PROVE  j \in expired' \/ exec'[j] = "failed"
  <1>0. OwnTypeOK /\ CallOK /\ exec[j] # "none"
    BY DEF BridgeInv, OwnTypeOK
  <1>1. ASSUME NEW i \in Ids, PlainStep(i)
        PROVE  expired' = expired /\ exec'[j] = exec[j]
    <2>1. CASE Spawn(i)
      <3>1. exec[i] = "none"
        BY <2>1 DEF Spawn, PreSpawn, BridgeInv, RunsInv, OutcomesInv
      <3> QED
        BY <1>0, <2>1, <3>1 DEF Spawn, OwnTypeOK
    <2> QED
      BY <1>1, <2>1 DEF PlainStep, Dispatch, Listen, Recheck, Snapshot, Choose, Wake, Enter,
          LastCheck, Join, Unwind, Leave, otherVars
  <1>2. ASSUME NEW i \in Ids, ExecutorStep(i) PROVE j \in expired' \/ exec'[j] = "failed"
    BY <1>0, <1>2 DEF ExecutorStep, ExecutorReturns, OwnTypeOK
  <1>3. ASSUME NEW i \in Ids,
               WritingStep(i) \/ TryAdmit(i) \/ DropSlot(i) \/ WatchStep(i) \/ WatcherWrites(i)
        PROVE  expired' = expired /\ exec' = exec
    BY <1>3 DEF WritingStep, Backstop, Prepare, StartRunning, RecordCancel, Judge, Then, TryAdmit,
          DropSlot, WatchStep, DeadlinePasses, WatcherWakes, WatcherReads, WatcherSignals,
          WatcherNotifies, WatcherWrites, otherVars
  <1>4. ASSUME NEW i \in Ids, NEW s \in Scopes, Submit(i, s) PROVE expired' = expired /\ exec' = exec
    BY <1>4 DEF Submit, otherVars
  <1>5. CASE QuietStep \/ CancelWrites
    BY <1>5 DEF QuietStep, CancelSignals, Shutdown, CancelReads, ShutdownSignals,
          ExecutorTimesOut, CancelWrites, otherVars
  <1>6. ProcessCrash \/ Restart \/ UNCHANGED bridgeVars => expired' = expired /\ exec' = exec
    BY DEF ProcessCrash, Crash, Restart, bridgeVars, otherVars
  <1> QED
    BY <1>0, <1>1, <1>2, <1>3, <1>4, <1>5, <1>6, BridgeSteps

(* Undisturbed by write failures and shutdown, no step leaves an           *)
(* unfinished record without a task or a watcher that finishes it.         *)
LEMMA AttendedStep ==
  ASSUME BridgeInv, BridgeInv', OutcomesInv, StagesInv, StagesInv', AttendedInv,
         [BridgeNext]_bridgeVars
  PROVE  AttendedInv'
  <1> SUFFICES ASSUME Undisturbed', NEW j \in Ids, IsActive(mem'[j])
               PROVE  Attended(j)'
    BY DEF AttendedInv
  <1>0. /\ OwnTypeOK /\ CallOK /\ StoreInv /\ DownInv /\ StoreInv' /\ DownInv'
        /\ up' /\ mem'[j] = disk'[j]
    BY DEF BridgeInv, Undisturbed, StoreInv, BasicInv, MemoryIsDurable
  <1>1. up
    <2>1. ASSUME ~up PROVE FALSE
      <3>1. Restart
        BY <1>0, <2>1, NothingUnderWay
      <3> QED
        BY <1>0, <3>1, RestartMoves DEF Reopens, IsActive, Active
    <2> QED
      BY <2>1
  <1>2. Undisturbed /\ mem[j] = disk[j]
    BY <1>0, <1>1, ShutdownLasts DEF Undisturbed, StoreInv, BasicInv, MemoryIsDurable
  <1>3. CASE \E s \in Scopes : Submit(j, s)
    <2>1. task'[j] = "new"
      BY <1>0, <1>3 DEF Submit, Goto, OwnTypeOK
    <2>2. token'[j] = "none"
      BY <2>1 DEF StagesInv
    <2> QED
      BY <2>1, <2>2 DEF Attended, Cancelled
  <1>4. CASE ~\E s \in Scopes : Submit(j, s)
    <2>1. IsActive(mem[j]) /\ (mem[j].state = "cancel_requested"
                                => mem'[j].state = "cancel_requested")
      BY <1>0, <1>1, <1>2, <1>4, DiskMoves
      DEF Keeps, Sweeps, Creates, Reopens, Starts, Succeeded, Fails, Cancels, Requests,
          IsActive, Active
    <2>2. Attended(j)
      BY <1>2, <2>1 DEF AttendedInv
    <2>3. watcher[j] = "write" => watcher'[j] = "write"
      <3>1. ~WatcherWrites(j)
        BY <1>0, <1>2, <2>1, FailTakes DEF WatcherWrites, PreExecutionCodes
      <3>2. watcher[j] = "write" => ~Dispatch(j) /\ ~WatcherSignals(j)
        BY DEF StagesInv, Dispatch, WatcherSignals, Watch
      <3> QED
        BY <1>0, <3>1, <3>2, SignalMoves DEF SignalMove
    <2>4. task'[j] # "none"
      BY <1>0, <1>4, <2>2, TaskMoves
      DEF Attended, PlainStep, Dispatch, Listen, Recheck, Snapshot, Choose, Wake, Enter,
          LastCheck, Spawn, Join, Unwind, Leave, TryAdmit, DropSlot, WritingStep, Backstop,
          Prepare, StartRunning, AfterStart, RecordCancel, Judge, Then, Goto, OwnTypeOK
    <2>5. task'[j] \in {"release", "leave", "done"} => watcher'[j] = "write"
      <3>1. CASE task'[j] = task[j]
        BY <2>2, <2>3, <3>1 DEF Attended
      <3>2. CASE PlainStep(j) \/ WritingStep(j) \/ TryAdmit(j) \/ DropSlot(j)
        BY <1>0, <1>2, <2>1, <2>2, <2>3, <3>2, GivesUp
      <3> QED
        BY <1>0, <1>4, <3>1, <3>2, TaskMoves
    <2>6. Cancelled(j)' => \/ mem'[j].state = "cancel_requested" \/ watcher'[j] = "write"
                           \/ j \in expired' \/ exec'[j] = "failed"
      <3>0. j \in expired \/ exec[j] = "failed" => j \in expired' \/ exec'[j] = "failed"
        BY <1>0, <1>4, TimeoutFails
      <3>1. CASE token'[j] = token[j]
        BY <2>1, <2>2, <2>3, <3>0, <3>1 DEF Attended, Cancelled
      <3>2. CASE Dispatch(j)
        BY <1>0, <3>2 DEF Dispatch, Cancelled, OwnTypeOK
      <3>3. CASE Leave(j)
        BY <2>2, <2>3, <3>3 DEF Leave, Attended
      <3>4. CASE WatcherSignals(j)
        BY <1>0, <3>4 DEF WatcherSignals, Watch, OwnTypeOK
      <3>5. ~ShutdownSignals(j)
        BY <1>2 DEF ShutdownSignals, Undisturbed
      <3>7. CASE ExecutorTimesOut(j)
        BY <3>7 DEF ExecutorTimesOut
      <3>6. CASE CancelSignals /\ cancel.id = j
        <4>1. published[j].state \notin {"queued", "running"}
          BY <3>6 DEF CancelSignals, StagesInv
        <4>2. published[j] = mem[j]
          BY <1>0, <1>1, <2>1, StoredIsShown DEF IsActive, Active, Stored
        <4> QED
          BY <2>1, <4>1, <4>2 DEF IsActive, Active
      <3> QED
        BY <1>0, <3>1, <3>2, <3>3, <3>4, <3>5, <3>6, <3>7, SignalMoves DEF SignalMove
    <2> QED
      BY <2>4, <2>5, <2>6 DEF Attended
  <1> QED
    BY <1>3, <1>4

(* There is no record at the start.                                        *)
LEMMA AttendedInitially == BridgeInit => AttendedInv
  BY DEF BridgeInit, StoreInit, NoRecords, Absent, AttendedInv, IsActive, Active

(* Every unfinished record is attended to.                                 *)
THEOREM BridgeAttends == BridgeSpec => []AttendedInv
  <1>1. /\ BridgeInv /\ BridgeInv' /\ OutcomesInv /\ StagesInv /\ StagesInv' /\ AttendedInv
        /\ [BridgeNext]_bridgeVars
        => AttendedInv'
    BY AttendedStep
  <1> QED
    BY <1>1, AttendedInitially, BridgeInvariant, BridgeOutcomes, BridgeStages, PTL DEF BridgeSpec

(* While writes succeed and nobody shuts the server down, an invocation    *)
(* whose record is unfinished has a task that has not left, or a deadline  *)
(* watcher about to fail it: crashes and restarts, early cancels and       *)
(* deadlines included.                                                     *)
THEOREM BridgeForgetsNobody == BridgeSpec => []NobodyForgotten
  <1>1. AttendedInv => NobodyForgotten
    BY DEF AttendedInv, Attended, NobodyForgotten, Undisturbed
  <1> QED
    BY <1>1, BridgeAttends, PTL

-----------------------------------------------------------------------------
(* First in, first out within a scope.                                     *)

Waiting == Admitting \cup {"new"}

(* Ids are issued in order; whoever was seen with a slot does not wait any *)
(* more; and before a task that was chosen nobody of its scope waits.      *)
OrderInv ==
  /\ \A i \in issued, k \in Ids \ issued : i < k
  /\ \A i \in Ids : \A j \in seen[i] : task[j] \notin Waiting \cup {"none"}
  /\ \A i, j \in Ids :
       /\ task[i] = "admit" /\ j < i
       /\ mem[j].state = "queued" /\ mem[j].scope = published[i].scope
       => task[j] \notin Waiting

(* Only a create issues an id.                                             *)
LEMMA IssuedBy ==
  ASSUME BridgeInv, [BridgeNext]_bridgeVars, NEW j \in Ids, j \in issued' \ issued
  PROVE  \E s \in Scopes : Submit(j, s)
  <1>0. OwnTypeOK /\ CallOK /\ StoreInv
    BY DEF BridgeInv
  <1>1. [StoreNext]_storeVars
    BY <1>0, BridgeWrites DEF bridgeVars
  <1>2. ~Stored(disk[j])
    BY <1>0 DEF StoreInv, HistoryInv
  <1>3. PICK next : Write(next) /\ Evolves(next)
    BY <1>0, <1>1, StepsEvolve DEF StoreInv, Crash, Tick, storeVars
  <1>4. Stored(disk'[j]) /\ disk' = next
    BY <1>3, WriteEffect DEF StoredIds
  <1>5. disk'[j].state = "queued"
    BY <1>2, <1>3, <1>4 DEF Evolves, Added, Fresh
  <1> QED
    BY <1>0, <1>2, <1>5, DiskMoves
    DEF Keeps, Sweeps, Creates, Reopens, Starts, Succeeded, Fails, Cancels, Requests, Stored

(* A task reads the ledger at its snapshot and forgets it when it chooses. *)
LEMMA SeenMoves ==
  ASSUME OwnTypeOK, CallOK, [BridgeNext]_bridgeVars, up', NEW i \in Ids
  PROVE  seen'[i] = seen[i] \/ Snapshot(i) \/ (Choose(i) /\ seen'[i] = {})
  <1>1. ASSUME NEW k \in Ids, PlainStep(k)
        PROVE  seen'[i] = seen[i] \/ Snapshot(i) \/ (Choose(i) /\ seen'[i] = {})
    <2>1. CASE Snapshot(k) \/ Choose(k)
      BY <2>1 DEF Snapshot, Choose, OwnTypeOK
    <2> QED
      BY <1>1, <2>1 DEF PlainStep, Dispatch, Listen, Recheck, Wake, Enter, LastCheck, Spawn,
          Join, Unwind, Leave, signalVars
  <1>2. ASSUME NEW k \in Ids, WritingStep(k) PROVE seen' = seen
    BY <1>2 DEF WritingStep, Backstop, Prepare, StartRunning, RecordCancel, Judge, Then, signalVars
  <1>3. ASSUME NEW k \in Ids, TryAdmit(k) \/ DropSlot(k) \/ ExecutorStep(k) \/ WatchStep(k)
        PROVE  seen' = seen
    BY <1>3 DEF TryAdmit, DropSlot, ExecutorStep, ExecutorReturns, WatchStep, DeadlinePasses,
          WatcherWakes, WatcherReads, WatcherSignals, WatcherNotifies, signalVars
  <1>4. ASSUME NEW k \in Ids, WatcherWrites(k) \/ \E s \in Scopes : Submit(k, s)
        PROVE  seen' = seen
    BY <1>4 DEF WatcherWrites, Submit, signalVars
  <1>5. CASE QuietStep \/ CancelWrites
    BY <1>5 DEF QuietStep, CancelSignals, Shutdown, CancelReads, ShutdownSignals,
          ExecutorTimesOut, CancelWrites,
                signalVars
  <1>6. ProcessCrash \/ Restart \/ UNCHANGED bridgeVars => seen' = seen
    BY DEF ProcessCrash, Crash, Restart, bridgeVars, signalVars
  <1> QED
    BY <1>1, <1>2, <1>3, <1>4, <1>5, <1>6, BridgeSteps

(* A task that has left the admission loop does not come back, and one     *)
(* that has not was there before, or is new.                               *)
LEMMA WaitingMoves ==
  ASSUME BridgeInv, [BridgeNext]_bridgeVars, up', NEW j \in Ids
  PROVE  /\ task[j] \notin Waiting \cup {"none"} => task'[j] \notin Waiting \cup {"none"}
         /\ task'[j] = "admit" => task[j] = "admit" \/ Choose(j)
         /\ task'[j] \in Waiting => task[j] \in Waiting \/ \E s \in Scopes : Submit(j, s)
  <1>0. OwnTypeOK /\ CallOK /\ StoreInv
    BY DEF BridgeInv
  <1>1. ASSUME NEW s \in Scopes, Submit(j, s) PROVE task[j] = "none" /\ task'[j] = "new"
    <2>1. j \notin issued /\ task'[j] = "new"
      BY <1>0, <1>1 DEF Submit, Create, Goto, OwnTypeOK
    <2> QED
      BY <1>0, <2>1, ShownIsIssued DEF BridgeInv, OwnersInv
  <1>2. CASE PlainStep(j) \/ TryAdmit(j) \/ DropSlot(j)
    BY <1>0, <1>2
    DEF PlainStep, Dispatch, Listen, Recheck, Snapshot, Choose, Wake, Enter, LastCheck,
        Spawn, Join, Unwind, Leave, TryAdmit, DropSlot, Goto, OwnTypeOK, Waiting, Admitting
  <1>3. CASE WritingStep(j)
    BY <1>0, <1>3
    DEF WritingStep, Backstop, Prepare, StartRunning, AfterStart, RecordCancel, Judge, Then,
        Goto, OwnTypeOK, Waiting, Admitting
  <1>4. "admit" \in Waiting /\ "new" \in Waiting
    BY DEF Waiting, Admitting
  <1> QED
    BY <1>0, <1>1, <1>2, <1>3, <1>4, TaskMoves

(* Every step keeps OrderInv: the snapshot of the ledger that the FIFO     *)
(* choice is made with may be stale, but whoever it shows with a slot      *)
(* never waits again, and whoever comes later has a higher id.             *)
LEMMA OrderStep ==
  ASSUME BridgeInv, BridgeInv', OrderInv, [BridgeNext]_bridgeVars
  PROVE  OrderInv'
  <1>0. /\ OwnTypeOK /\ CallOK /\ StoreInv /\ DownInv /\ StoreInv' /\ DownInv'
        /\ issued \subseteq issued' /\ Ids \subseteq Nat
    BY BridgeConfig, IssuedStays DEF BridgeInv
  <1>1. ASSUME NEW i \in issued', NEW k \in Ids \ issued' PROVE i < k
    <2>1. i \in Ids
      BY <1>0 DEF StoreInv, BasicInv, StoreTypeOK
    <2>2. CASE i \in issued
      BY <1>0, <2>2 DEF OrderInv
    <2>3. CASE i \notin issued
      <3>1. i <= k
        BY <1>0, <2>1, <2>3, IssuedBy DEF Submit
      <3> QED
        BY <1>0, <2>1, <3>1
    <2> QED
      BY <2>2, <2>3
  <1>2. CASE ~up \/ ~up'
    <2>1. \A i \in Ids : task'[i] = "none" /\ seen'[i] = {}
      BY <1>0, <1>2, NothingUnderWay
    <2> QED
      BY <1>1, <2>1 DEF OrderInv
  <1>3. CASE up /\ up'
    <2>0. \A j \in Ids : mem[j] = disk[j] /\ mem'[j] = disk'[j]
      BY <1>0, <1>3 DEF StoreInv, BasicInv, MemoryIsDurable
    <2>1. ASSUME NEW i \in Ids, NEW j \in seen'[i]
          PROVE  task'[j] \notin Waiting \cup {"none"}
      <3>1. j \in Ids
        BY <1>0 DEF BridgeInv, OwnTypeOK
      <3>2. task[j] \notin Waiting \cup {"none"}
        <4>1. CASE j \in seen[i]
          BY <4>1 DEF OrderInv
        <4>2. CASE Snapshot(i)
          <5>1. admitted[j] # None
            BY <1>0, <4>2 DEF Snapshot, OwnTypeOK, Slots!Holders
          <5> QED
            BY <3>1, <5>1 DEF BridgeInv, OwnersInv, SlotsHaveOwners, Holding, Waiting, Admitting
        <4> QED
          BY <1>0, <1>3, <4>1, <4>2, SeenMoves
      <3> QED
        BY <1>3, <3>1, <3>2, WaitingMoves
    <2>2. ASSUME NEW i \in Ids, NEW j \in Ids, task'[i] = "admit", j < i,
                 mem'[j].state = "queued", mem'[j].scope = published'[i].scope,
                 task'[j] \in Waiting
          PROVE  FALSE
      <3>1. task[i] # "none" /\ Stored(published[i]) /\ i \in issued
        <4>1. task[i] = "admit" \/ Choose(i)
          BY <1>3, <2>2, WaitingMoves
        <4> QED
          BY <1>0, <4>1, ShownIsIssued DEF Choose, BridgeInv, OwnersInv
      <3>2. j \in issued
        <4>1. j \notin issued => i < j
          BY <3>1 DEF OrderInv
        <4>2. i \in Nat /\ j \in Nat
          BY <1>0
        <4> QED
          BY <2>2, <4>1, <4>2
      <3>3. mem[j].state = "queued"
        BY <1>0, <1>3, <2>0, <2>2, <3>2, DiskMoves
        DEF Keeps, Sweeps, Creates, Reopens, Starts, Succeeded, Fails, Cancels, Requests
      <3>4. published[j] = mem[j] /\ published'[j] = mem'[j]
        BY <1>0, <1>3, <2>2, <3>3 DEF StoreInv, ShownInv, Stored
      <3>5. mem[j].scope = published[i].scope
        BY <1>0, <2>2, <3>1, <3>3, <3>4, ShownScope DEF Stored
      <3>6. task[j] \in Waiting
        <4>1. \A s : ~Submit(j, s)
          BY <3>2 DEF Submit, Create
        <4> QED
          BY <1>3, <2>2, <4>1, WaitingMoves
      <3>7. CASE task[i] = "admit"
        BY <2>2, <3>3, <3>5, <3>6, <3>7 DEF OrderInv
      <3>8. CASE Choose(i)
        <4>1. i \in FifoHead(mem[i].scope, seen[i])
          BY <1>0, <2>2, <3>8 DEF Choose, Goto, OwnTypeOK
        <4>2. mem[i].state = "queued" /\ \A k \in Ids \ seen[i] :
                mem[k].state = "queued" /\ mem[k].scope = mem[i].scope => i <= k
          BY <4>1 DEF FifoHead, Oldest
        <4>3. published[i] = mem[i]
          BY <1>0, <1>3, <4>2 DEF StoreInv, ShownInv, Stored
        <4>4. j \in seen[i]
          BY <1>0, <2>2, <3>3, <3>5, <4>2, <4>3
        <4> QED
          BY <3>6, <4>4 DEF OrderInv
      <3> QED
        BY <1>3, <2>2, <3>7, <3>8, WaitingMoves
    <2> QED
      BY <1>1, <2>1, <2>2 DEF OrderInv
  <1> QED
    BY <1>2, <1>3 DEF StoreInv, BasicInv

(* No id is issued and no task has chosen.                                 *)
LEMMA OrderInitially == BridgeInit => OrderInv
  BY DEF BridgeInit, StoreInit, OrderInv

(* Between its choice and its try_admit, no older queued invocation of its *)
(* scope is waiting behind a task.                                         *)
THEOREM BridgeOrder == BridgeSpec => []OrderInv
  <1>1. BridgeInv /\ BridgeInv' /\ OrderInv /\ [BridgeNext]_bridgeVars => OrderInv'
    BY OrderStep
  <1> QED
    BY <1>1, OrderInitially, BridgeInvariant, PTL DEF BridgeSpec

(* A slot goes to a task only by its own try_admit.                        *)
LEMMA AdmitMoves ==
  ASSUME BridgeInv, [BridgeNext]_bridgeVars, NEW i \in Ids,
         admitted[i] = None, admitted'[i] # None
  PROVE  task[i] = "admit" /\ admitted'[i] = published[i].scope
  <1>0. OwnTypeOK /\ CallOK /\ OwnersInv /\ admitted \in [Ids -> Scopes \cup {None}]
    BY DEF BridgeInv, OwnersInv, Ledger!SlotsInv, Ledger!SlotsTypeOK
  <1>1. ~Die
    BY DEF Die
  <1>2. ASSUME NEW k \in Ids, TryAdmit(k)
        PROVE  task[i] = "admit" /\ admitted'[i] = published[i].scope
    <2>1. task[k] = "admit"
      BY <1>2 DEF TryAdmit
    <2>2. \/ admitted' = admitted
          \/ admitted' = [admitted EXCEPT ![k] = published[k].scope]
      BY <1>0, <1>2, AdmitsOwner DEF slotVars
    <2> QED
      BY <1>0, <2>1, <2>2
  <1>3. ASSUME NEW k \in Ids, DropSlot(k) PROVE FALSE
    BY <1>0, <1>3, DropsOwner
  <1>4. ASSUME NEW k \in Ids, NEW s \in Scopes, Submit(k, s), up' PROVE admitted' = admitted
    BY <1>4 DEF Submit, slotVars
  <1>5. ASSUME NEW k \in Ids, Advances(k) PROVE admitted' = admitted
    BY <1>5 DEF Advances, slotVars
  <1>6. Rests \/ UNCHANGED bridgeVars => admitted' = admitted
    BY DEF Rests, bridgeVars, slotVars
  <1> QED
    BY <1>0, <1>1, <1>2, <1>3, <1>4, <1>5, <1>6, Footprints

(* oldest_queued_in_scope_excluding and try_admit, although two steps      *)
(* apart and made with a stale snapshot, admit the invocations of a scope  *)
(* in the order of their creation.                                         *)
THEOREM BridgeFifo == BridgeSpec => FifoWithinScope
  <1> DEFINE Fair(i, j) ==
        /\ admitted[i] = None /\ admitted'[i] # None
        /\ j < i /\ mem[j].scope = admitted'[i]
        => ~(mem[j].state = "queued" /\ admitted[j] = None
               /\ task[j] \in Admitting \cup {"new"})
  <1>1. ASSUME BridgeInv, OrderInv, [BridgeNext]_bridgeVars, NEW i \in Ids, NEW j \in Ids
        PROVE  Fair(i, j)
    BY <1>1, AdmitMoves DEF OrderInv, Waiting
  <1>2. BridgeInv /\ OrderInv /\ [BridgeNext]_bridgeVars
          => [\A i, j \in Ids : Fair(i, j)]_bridgeVars
    BY <1>1
  <1> QED
    BY <1>2, BridgeInvariant, BridgeOrder, PTL DEF BridgeSpec, FifoWithinScope

-----------------------------------------------------------------------------
(* A requested cancel reaches the run.                                     *)

(* An unfinished record has a task; and until its token is cancelled, the  *)
(* token of a task that was dispatched is registered, so that whoever      *)
(* requests its cancel finds it.                                           *)
ReachInv ==
  /\ \A i \in Ids :
       /\ IsActive(mem[i]) => task[i] # "none"
       /\ task[i] \notin {"none", "new"} => i \in registered \/ Cancelled(i)
  /\ CancelReachesRun

(* No token leaves the registry before it is cancelled: not by the end of  *)
(* its task, nor by a cancel call.                                         *)
LEMMA RegistryMoves ==
  ASSUME OwnTypeOK, CallOK, [BridgeNext]_bridgeVars, up', NEW j \in Ids, j \in registered
  PROVE  j \in registered' \/ Cancelled(j)'
  <1>1. ASSUME NEW i \in Ids, PlainStep(i) PROVE j \in registered' \/ Cancelled(j)'
    <2>1. CASE Dispatch(i) \/ Leave(i)
      BY <2>1 DEF Dispatch, Leave, Cancelled, OwnTypeOK
    <2> QED
      BY <1>1, <2>1 DEF PlainStep, Listen, Recheck, Snapshot, Choose, Wake, Enter, LastCheck,
          Spawn, Join, Unwind, signalVars
  <1>2. ASSUME NEW i \in Ids, WritingStep(i) \/ WatcherWrites(i) PROVE registered' = registered
    BY <1>2 DEF WritingStep, Backstop, Prepare, StartRunning, RecordCancel, Judge, Then,
                WatcherWrites, signalVars
  <1>3. ASSUME NEW i \in Ids, TryAdmit(i) \/ DropSlot(i) \/ ExecutorStep(i) \/ WatchStep(i)
        PROVE  registered' = registered
    BY <1>3 DEF TryAdmit, DropSlot, ExecutorStep, ExecutorReturns, WatchStep, DeadlinePasses,
          WatcherWakes, WatcherReads, WatcherSignals, WatcherNotifies, signalVars
  <1>4. ASSUME NEW i \in Ids, NEW s \in Scopes, Submit(i, s) PROVE registered' = registered
    BY <1>4 DEF Submit, signalVars
  <1>5. CASE CancelSignals
    BY <1>5 DEF CancelSignals, Cancelled, OwnTypeOK
  <1>6. CASE \/ Shutdown \/ CancelWrites
             \/ \E i \in Ids : CancelReads(i) \/ ShutdownSignals(i) \/ ExecutorTimesOut(i)
    BY <1>6 DEF Shutdown, CancelReads, ShutdownSignals,
          ExecutorTimesOut, CancelWrites, signalVars
  <1>7. ProcessCrash \/ Restart \/ UNCHANGED bridgeVars => registered' = registered
    BY DEF ProcessCrash, Crash, Restart, bridgeVars, signalVars
  <1> QED
    BY <1>1, <1>2, <1>3, <1>4, <1>5, <1>6, <1>7, BridgeSteps DEF QuietStep

(* A token that was cancelled stays so, as long as its task is not new.    *)
LEMMA CancelledStays ==
  ASSUME OwnTypeOK, CallOK, [BridgeNext]_bridgeVars, up', NEW j \in Ids, Cancelled(j)
  PROVE  Cancelled(j)' \/ task[j] = "new"
  <1>1. Leave(j) \/ WatcherSignals(j) \/ ShutdownSignals(j) \/ ExecutorTimesOut(j)
          => Cancelled(j)'
    BY DEF Leave, WatcherSignals, ShutdownSignals, ExecutorTimesOut, Cancelled, OwnTypeOK
  <1>2. CancelSignals => Cancelled(j)'
    BY DEF CancelSignals, Cancelled, OwnTypeOK
  <1> QED
    BY <1>1, <1>2, SignalMoves DEF SignalMove, Cancelled, Dispatch

(* A cancel call that has written goes on to signal.                       *)
LEMMA SignalFollows ==
  ASSUME OwnTypeOK, CallOK, [BridgeNext]_bridgeVars, up', cancel.at = "signal"
  PROVE  cancel' = cancel \/ CancelSignals
  <1>1. ASSUME NEW i \in Ids,
               PlainStep(i) \/ TryAdmit(i) \/ DropSlot(i) \/ ExecutorStep(i) \/ WatchStep(i)
        PROVE  cancel' = cancel
    BY <1>1 DEF PlainStep, Dispatch, Listen, Recheck, Snapshot, Choose, Wake, Enter,
          LastCheck, Spawn, Join, Unwind, Leave, TryAdmit, DropSlot, ExecutorStep,
          ExecutorReturns, WatchStep, DeadlinePasses, WatcherWakes, WatcherReads,
          WatcherSignals, WatcherNotifies
  <1>2. ASSUME NEW i \in Ids, WritingStep(i) \/ WatcherWrites(i) PROVE cancel' = cancel
    BY <1>2 DEF WritingStep, Backstop, Prepare, StartRunning, RecordCancel, Judge, Then, WatcherWrites
  <1>3. ASSUME NEW i \in Ids, NEW s \in Scopes, Submit(i, s) PROVE cancel' = cancel
    BY <1>3 DEF Submit
  <1>4. QuietStep => cancel' = cancel \/ CancelSignals
    BY DEF QuietStep, Shutdown, CancelReads, ShutdownSignals, ExecutorTimesOut
  <1>5. ~CancelWrites
    BY DEF CancelWrites
  <1>6. ProcessCrash \/ Restart \/ UNCHANGED bridgeVars => cancel' = cancel
    BY DEF ProcessCrash, Crash, Restart, bridgeVars
  <1> QED
    BY <1>1, <1>2, <1>3, <1>4, <1>5, <1>6, BridgeSteps

(* Every step keeps ReachInv: a cancel is requested only of a record that  *)
(* runs, whose task was dispatched, and whose token is then registered     *)
(* unless it was cancelled; and it is still registered when the call comes *)
(* to signal, unless the task has cancelled it on leaving.                 *)
LEMMA ReachStep ==
  ASSUME BridgeInv, BridgeInv', StagesInv, StagesInv', ReachInv, [BridgeNext]_bridgeVars
  PROVE  ReachInv'
  <1>0. /\ OwnTypeOK /\ CallOK /\ StoreInv /\ DownInv /\ StoreInv' /\ DownInv'
        /\ OwnTypeOK' /\ CallOK'
    BY DEF BridgeInv
  <1>1. CASE ~up \/ ~up'
    <2>1. \A i \in Ids : task'[i] = "none"
      BY <1>0, <1>1, NothingUnderWay
    <2>2. ASSUME NEW i \in Ids PROVE ~IsActive(mem'[i])
      <3>1. CASE ~up'
        BY <1>0, <3>1 DEF StoreInv, BasicInv, NoRecords, Absent, IsActive, Active
      <3>2. CASE up' /\ ~up
        <4>1. Restart
          BY <1>0, <3>2, NothingUnderWay
        <4> QED
          BY <1>0, <3>2, <4>1, RestartMoves
          DEF Reopens, StoreInv, BasicInv, MemoryIsDurable, IsActive, Active
      <3> QED
        BY <1>1, <3>1, <3>2
    <2> QED
      BY <2>1, <2>2 DEF ReachInv, CancelReachesRun, IsActive, Active
  <1>2. CASE up /\ up'
    <2>0. \A j \in Ids : mem[j] = disk[j] /\ mem'[j] = disk'[j]
      BY <1>0, <1>2 DEF StoreInv, BasicInv, MemoryIsDurable
    <2>1. ASSUME NEW j \in Ids, IsActive(mem'[j]) PROVE task'[j] # "none"
      <3>1. CASE \E s \in Scopes : Submit(j, s)
        BY <1>0, <1>2, <3>1 DEF Submit, Goto, OwnTypeOK
      <3>2. CASE ~\E s \in Scopes : Submit(j, s)
        <4>1. IsActive(mem[j])
          BY <1>2, <2>0, <2>1, <3>2, <1>0, DiskMoves
          DEF Keeps, Sweeps, Creates, Reopens, Starts, Succeeded, Fails, Cancels, Requests,
              IsActive, Active
        <4>2. task[j] # "none"
          BY <4>1 DEF ReachInv
        <4> QED
          BY <1>0, <1>2, <3>2, <4>2, TaskMoves
          DEF PlainStep, Dispatch, Listen, Recheck, Snapshot, Choose, Wake, Enter, LastCheck,
              Spawn, Join, Unwind, Leave, TryAdmit, DropSlot, WritingStep, Backstop,
              Prepare, StartRunning, AfterStart, RecordCancel, Judge, Then, Goto, OwnTypeOK
      <3> QED
        BY <3>1, <3>2
    <2>2. ASSUME NEW j \in Ids, task'[j] \notin {"none", "new"}
          PROVE  j \in registered' \/ Cancelled(j)'
      <3>1. CASE Dispatch(j)
        BY <3>1 DEF Dispatch
      <3>2. CASE ~Dispatch(j)
        <4>1. ~\E s \in Scopes : Submit(j, s)
          BY <1>0, <1>2, <2>2 DEF Submit, Goto, OwnTypeOK
        <4>2. task[j] \notin {"none", "new"}
          BY <1>0, <1>2, <2>2, <3>2, <4>1, TaskMoves
          DEF PlainStep, Dispatch, Listen, Recheck, Snapshot, Choose, Wake, Enter, LastCheck,
              Spawn, Join, Unwind, Leave, TryAdmit, DropSlot, WritingStep, Backstop,
              Prepare, StartRunning, AfterStart, RecordCancel, Judge, Then
        <4> QED
          BY <1>0, <1>2, <4>2, RegistryMoves, CancelledStays DEF ReachInv
      <3> QED
        BY <3>1, <3>2
    <2>3. ASSUME NEW j \in Ids, mem'[j].state = "cancel_requested"
          PROVE  Cancelled(j)' \/ (cancel'.at = "signal" /\ cancel'.id = j /\ j \in registered')
      <3>1. CASE mem[j].state = "cancel_requested"
        <4>1. task[j] # "new"
          BY <3>1 DEF StagesInv, PreSpawn
        <4>2. CASE Cancelled(j)
          BY <1>0, <1>2, <4>1, <4>2, CancelledStays
        <4>3. CASE cancel.at = "signal" /\ cancel.id = j /\ j \in registered
          <5>1. CancelSignals => Cancelled(j)'
            BY <1>0, <4>3 DEF CancelSignals, Cancelled, OwnTypeOK
          <5> QED
            BY <1>0, <1>2, <4>3, <5>1, SignalFollows, RegistryMoves
        <4> QED
          BY <3>1, <4>2, <4>3 DEF ReachInv, CancelReachesRun
      <3>2. CASE mem[j].state # "cancel_requested"
        <4>1. /\ mem[j].state = "running" /\ CancelWrites
              /\ cancel.id = j /\ cancel.target = "cancel_requested"
          BY <1>0, <1>2, <2>0, <2>3, <3>2, DiskMoves
          DEF Keeps, Sweeps, Creates, Reopens, Starts, Succeeded, Fails, Cancels, Requests
        <4>2. cancel'.at = "signal" /\ cancel'.id = j /\ registered' = registered /\ token' = token
          BY <1>0, <1>2, <2>3, <4>1 DEF CancelWrites, signalVars, OwnTypeOK
        <4>3. task[j] \notin {"none", "new"}
          BY <4>1 DEF ReachInv, StagesInv, PreSpawn, IsActive, Active
        <4> QED
          BY <4>2, <4>3 DEF ReachInv, Cancelled
      <3> QED
        BY <3>1, <3>2
    <2> QED
      BY <2>1, <2>2, <2>3 DEF ReachInv, CancelReachesRun
  <1> QED
    BY <1>0, <1>1, <1>2 DEF StoreInv, BasicInv, StoreTypeOK

(* There is neither a record nor a task at the start.                      *)
LEMMA ReachInitially == BridgeInit => ReachInv
  BY DEF BridgeInit, StoreInit, NoRecords, Absent, ReachInv, CancelReachesRun, IsActive, Active

(* Records, tasks and registrations stay together.                         *)
THEOREM BridgeReaches == BridgeSpec => []ReachInv
  <1>1. /\ BridgeInv /\ BridgeInv' /\ StagesInv /\ StagesInv' /\ ReachInv
        /\ [BridgeNext]_bridgeVars
        => ReachInv'
    BY ReachStep
  <1> QED
    BY <1>1, ReachInitially, BridgeInvariant, BridgeStages, PTL DEF BridgeSpec

(* A cancel that is on record as requested has cancelled the token, or the *)
(* call that wrote it is about to and will find it registered, whatever    *)
(* the task, its deadline, a shutdown or a failed write do in between:     *)
(* what CancelTakesEffect builds on.                                       *)
THEOREM BridgeCancelsReach == BridgeSpec => []CancelReachesRun
  BY BridgeReaches, PTL DEF ReachInv

-----------------------------------------------------------------------------
(* No wake-up is missed.                                                   *)

(* Where a task is between its notified() and its select!.                 *)
LoopSteps == {"recheck", "snapshot", "choose", "admit", "wait"}

(* What i may have to wait for behind an older invocation k of its scope:  *)
(* k waits for a slot itself, was cancelled while it did (a cancel wakes   *)
(* nobody), or its deadline watcher has not notified yet.                  *)
Blocks(k, i) ==
  /\ k < i /\ Stored(published[k]) /\ published[k].scope = published[i].scope
  /\ \/ mem[k].state = "queued" /\ k \notin Slots!Holders
     \/ CancelledWhileQueued(k)
     \/ watcher[k] \in {"write", "notify"}

(* What task i goes to sleep on: no slot is free, or somebody is before it.*)
MustWait(i) == ~Slots!CanAcquire(published[i].scope) \/ \E k \in Ids : Blocks(k, i)

(* A task listens before it looks, and while nobody wakes it, what it saw  *)
(* of the ledger is the ledger, and what it waits for is still there.      *)
WakeInv ==
  /\ \A i \in Ids :
       /\ task[i] = "backstop" => Cancelled(i)
       /\ task[i] \in LoopSteps => ear[i] # "deaf"
       /\ task[i] = "choose" /\ ear[i] = "listening" => seen[i] = Slots!Holders
  /\ Undisturbed =>
       \A i \in Ids :
         task[i] = "wait" /\ ear[i] = "listening" /\ mem[i].state = "queued" => MustWait(i)

(* What leaves task j listening has notified nobody: the ledger is as it   *)
(* was, and every watcher that was to notify still is.                     *)
Quiet(j) ==
  /\ ear'[j] = "listening" =>
       \/ Listen(j)
       \/ /\ ear[j] = "listening" /\ UNCHANGED slotVars
          /\ \A k \in Ids : watcher[k] = "notify" => watcher'[k] = "notify"
  /\ ear'[j] = "deaf" => ear[j] = "deaf" \/ task'[j] \notin LoopSteps

(* try_admit, AdmittedSlot::drop and a watcher's last step wake every      *)
(* listener; the ledger changes in no other step.                          *)
LEMMA EarMoves ==
  ASSUME BridgeInv, StagesInv, [BridgeNext]_bridgeVars, up', NEW j \in Ids
  PROVE  Quiet(j)
  <1>0. OwnTypeOK /\ CallOK /\ OwnersInv
    BY DEF BridgeInv
  <1>1. UNCHANGED <<ear, slotVars, watcher>> => Quiet(j)
    BY DEF Quiet
  <1>2. NotifyWaiters => Quiet(j)
    BY <1>0 DEF NotifyWaiters, Quiet, OwnTypeOK
  <1>3. ASSUME NEW i \in Ids, PlainStep(i) PROVE Quiet(j)
    <2>1. CASE Dispatch(i)
      <3>1. watcher[i] = "none"
        BY <2>1 DEF Dispatch, StagesInv
      <3> QED
        BY <1>0, <2>1, <3>1 DEF Dispatch, Quiet, OwnTypeOK
    <2>2. CASE Listen(i)
      BY <1>0, <2>2 DEF Listen, Quiet, OwnTypeOK
    <2>3. CASE Wake(i) \/ Leave(i)
      BY <1>0, <2>3 DEF Wake, Leave, Goto, Quiet, LoopSteps, OwnTypeOK
    <2>4. CASE Spawn(i)
      BY <1>2, <2>4 DEF Spawn
    <2> QED
      BY <1>1, <1>3, <2>1, <2>2, <2>3, <2>4
      DEF PlainStep, Recheck, Snapshot, Choose, Enter, LastCheck, Join, Unwind, signalVars
  <1>4. ASSUME NEW i \in Ids, WritingStep(i) PROVE Quiet(j)
    BY <1>1, <1>4 DEF WritingStep, Backstop, Prepare, StartRunning, RecordCancel, Judge, Then,
                      signalVars
  <1>5. ASSUME NEW i \in Ids, TryAdmit(i) PROVE Quiet(j)
    <2>1. CASE /\ Goto(i, "enter")
               /\ ear' = [k \in Ids |-> IF k = i THEN "deaf"
                                        ELSE IF ear[k] = "listening" THEN "woken" ELSE ear[k]]
      BY <1>0, <2>1 DEF Goto, Quiet, LoopSteps, OwnTypeOK
    <2> QED
      BY <1>1, <1>5, <2>1 DEF TryAdmit
  <1>6. ASSUME NEW i \in Ids, DropSlot(i) PROVE Quiet(j)
    <2>1. i \in Slots!Holders
      BY <1>0, <1>6 DEF DropSlot, OwnersInv, SlotsHaveOwners, Holding, Slots!Holders
    <2> QED
      BY <1>2, <1>6, <2>1 DEF DropSlot
  <1>7. ASSUME NEW i \in Ids, WatchStep(i) \/ WatcherWrites(i) PROVE Quiet(j)
    <2>1. CASE WatcherNotifies(i)
      BY <1>2, <2>1 DEF WatcherNotifies
    <2>2. CASE WatcherWakes(i) \/ WatcherReads(i) \/ WatcherSignals(i)
      BY <1>0, <2>2 DEF WatcherWakes, WatcherReads, WatcherSignals, Watch, Quiet, OwnTypeOK,
                        signalVars
    <2>3. CASE WatcherWrites(i)
      BY <1>0, <2>3 DEF WatcherWrites, Quiet, OwnTypeOK, signalVars
    <2> QED
      BY <1>1, <1>7, <2>1, <2>2, <2>3 DEF WatchStep, DeadlinePasses, signalVars
  <1>8. ASSUME NEW i \in Ids, ExecutorStep(i) \/ \E s \in Scopes : Submit(i, s) PROVE Quiet(j)
    BY <1>1, <1>8 DEF ExecutorStep, ExecutorReturns, Submit, signalVars
  <1>9. CASE QuietStep \/ CancelWrites
    BY <1>1, <1>9 DEF QuietStep, CancelSignals, Shutdown, CancelReads, ShutdownSignals, ExecutorTimesOut,
                      CancelWrites, signalVars
  <1>10. CASE ProcessCrash \/ Restart \/ UNCHANGED bridgeVars
    BY <1>1, <1>10 DEF ProcessCrash, Crash, Restart, bridgeVars, signalVars
  <1> QED
    BY <1>0, <1>3, <1>4, <1>5, <1>6, <1>7, <1>8, <1>9, <1>10, BridgeSteps

(* The ways through the admission loop.                                    *)
LEMMA LoopMoves ==
  ASSUME OwnTypeOK, CallOK, [BridgeNext]_bridgeVars, up', NEW j \in Ids
  PROVE  /\ task'[j] \in LoopSteps => task[j] \in LoopSteps \/ Listen(j)
         /\ task'[j] = "choose" => task[j] = "choose" \/ Snapshot(j)
         /\ task'[j] = "backstop" => task[j] = "backstop" \/ (Recheck(j) /\ Cancelled(j))
         /\ task'[j] = "wait" =>
              \/ task[j] = "wait" \/ Choose(j)
              \/ TryAdmit(j) /\ Slots!Refused(published[j].scope, j)
  <1>1. CASE PlainStep(j)
    BY <1>1
    DEF PlainStep, Dispatch, Listen, Recheck, Snapshot, Choose, Wake, Enter, LastCheck,
        Spawn, Join, Unwind, Leave, Goto, OwnTypeOK, LoopSteps
  <1>2. CASE WritingStep(j)
    <2>1. task'[j] \in {"leave", "release", "last_check", "spawn"}
      BY <1>2
      DEF WritingStep, Backstop, Prepare, StartRunning, AfterStart, RecordCancel, Judge, Then,
          Goto, OwnTypeOK
    <2> QED
      BY <2>1 DEF LoopSteps
  <1>3. CASE TryAdmit(j)
    BY <1>3 DEF TryAdmit, Goto, OwnTypeOK, LoopSteps
  <1>4. CASE DropSlot(j) \/ \E s \in Scopes : Submit(j, s)
    BY <1>4 DEF DropSlot, Submit, Goto, OwnTypeOK, LoopSteps
  <1> QED
    BY <1>1, <1>2, <1>3, <1>4, TaskMoves

(* A record that was cancelled while it was queued stays what it is.       *)
LEMMA CancelledQueuedStays ==
  ASSUME OwnTypeOK, CallOK, StoreInv, [BridgeNext]_bridgeVars, NEW k \in Ids,
         CancelledWhileQueued(k)
  PROVE  CancelledWhileQueued(k)'
  <1>1. [StoreNext]_storeVars
    BY BridgeWrites DEF bridgeVars
  <1>2. ShownContinues /\ Stored(published[k]) /\ IsTerminal(published[k])
    BY <1>1, HistoryStep DEF StoreInv, CancelledWhileQueued, Stored, IsTerminal, Terminal
  <1>3. Continues(published[k], published'[k])
    BY <1>2 DEF ShownContinues
  <1> QED
    BY <1>2, <1>3 DEF Continues, CancelledWhileQueued

(* A queued invocation without a slot goes on blocking those behind it:    *)
(* what takes it out of the queue is a cancel or a deadline.               *)
LEMMA QueuedBlocks ==
  ASSUME BridgeInv, BridgeInv', OutcomesInv, StagesInv, AttendedInv, WakeInv, Undisturbed,
         [BridgeNext]_bridgeVars, up', NEW k \in Ids,
         mem[k].state = "queued", admitted[k] = None
  PROVE  mem'[k].state = "queued" \/ CancelledWhileQueued(k)' \/ watcher'[k] \in {"write", "notify"}
  <1>0. /\ OwnTypeOK /\ CallOK /\ StoreInv /\ StoreInv' /\ OwnersInv /\ up
        /\ mem[k] = disk[k] /\ mem'[k] = disk'[k] /\ task[k] \notin Holding
    BY DEF BridgeInv, Undisturbed, StoreInv, BasicInv, MemoryIsDurable, OwnersInv, SlotsHaveOwners
  <1>1. published[k] = disk[k] /\ k \in issued /\ disk[k].rev = 1
    BY <1>0, StoredIsShown, ShownIsIssued DEF StoreInv, ShownInv, Numbered, Stored
  <1>2. CASE Fails(k)
    <2>1. CASE WatcherWrites(k)
      BY <1>0, <2>1 DEF WatcherWrites, OwnTypeOK
    <2>2. CASE WritingStep(k)
      <3>1. Backstop(k)
        BY <1>0, <2>2 DEF WritingStep, Prepare, StartRunning, RecordCancel, Judge, Holding
      <3>2. k \notin expired /\ exec[k] # "failed"
        BY <1>0, <3>1 DEF Backstop, PreSpawn, Admitting, BridgeInv, RunsInv, OutcomesInv, OwnTypeOK
      <3>3. watcher[k] = "write"
        BY <1>0, <3>1, <3>2 DEF Backstop, WakeInv, AttendedInv, Attended, IsActive, Active
      <3>4. watcher' = watcher
        BY <1>0, <3>1 DEF Backstop, Then
      <3> QED
        BY <3>3, <3>4
    <2> QED
      BY <1>2, <2>1, <2>2 DEF Fails
  <1>3. CASE Cancels(k)
    <2>1. disk'[k].state = "cancelled" /\ disk'[k].rev = 2
      BY <1>1, <1>3 DEF Cancels
    <2>2. published'[k] = disk'[k]
      BY <1>0, <2>1, StoredIsShown DEF StoreInv, ShownInv, Stored
    <2> QED
      BY <2>1, <2>2 DEF CancelledWhileQueued
  <1>4. ~Starts(k) /\ ~Succeeded(k)
    BY <1>0 DEF Starts, StartRunning, Succeeded, Judge, Holding
  <1>5. ~Sweeps(k) /\ ~Creates(k) /\ ~Reopens(k) /\ ~Requests(k)
    BY <1>0, <1>1 DEF Sweeps, Creates, Reopens, Requests, IsActive, Active
  <1> QED
    BY <1>0, <1>2, <1>3, <1>4, <1>5, DiskMoves DEF Keeps

(* While a task sleeps unwoken, what it waits for stays.                   *)
LEMMA MustWaitStays ==
  ASSUME BridgeInv, BridgeInv', OutcomesInv, StagesInv, AttendedInv, WakeInv, Undisturbed,
         [BridgeNext]_bridgeVars, up', NEW i \in Ids, Stored(published[i]), MustWait(i),
         UNCHANGED slotVars, \A k \in Ids : watcher[k] = "notify" => watcher'[k] = "notify"
  PROVE  MustWait(i)'
  <1>0. OwnTypeOK /\ CallOK /\ StoreInv /\ published'[i].scope = published[i].scope
    BY ShownScope DEF BridgeInv
  <1>1. CASE ~Slots!CanAcquire(published[i].scope)
    BY <1>0, <1>1 DEF MustWait, Slots!CanAcquire, slotVars
  <1>2. ASSUME NEW k \in Ids, Blocks(k, i) PROVE Blocks(k, i)'
    <2>1. Stored(published'[k]) /\ published'[k].scope = published[k].scope
      BY <1>0, <1>2, ShownScope DEF Blocks
    <2>2. CASE mem[k].state = "queued" /\ k \notin Slots!Holders
      <3>1. admitted[k] = None /\ k \notin Slots!Holders'
        BY <2>2 DEF Slots!Holders, slotVars
      <3> QED
        BY <1>0, <1>2, <2>1, <2>2, <3>1, QueuedBlocks DEF Blocks
    <2>3. CASE CancelledWhileQueued(k)
      BY <1>0, <1>2, <2>1, <2>3, CancelledQueuedStays DEF Blocks
    <2>4. CASE watcher[k] \in {"write", "notify"}
      <3>1. ~Dispatch(k) /\ ~WatcherSignals(k)
        BY <2>4 DEF Dispatch, StagesInv, WatcherSignals, Watch
      <3>2. WatcherWrites(k) => watcher'[k] = "notify"
        BY <1>0 DEF WatcherWrites, OwnTypeOK
      <3>3. watcher'[k] \in {"write", "notify"}
        BY <1>0, <2>4, <3>1, <3>2, SignalMoves DEF SignalMove
      <3> QED
        BY <1>0, <1>2, <2>1, <3>3 DEF Blocks
    <2> QED
      BY <1>2, <2>2, <2>3, <2>4 DEF Blocks
  <1> QED
    BY <1>1, <1>2 DEF MustWait

(* Every step keeps WakeInv: notified().enable() comes before the reads,   *)
(* so that a slot which comes free between them and the sleep wakes.       *)
LEMMA WakeStep ==
  ASSUME BridgeInv, BridgeInv', OutcomesInv, StagesInv, AttendedInv, WakeInv,
         [BridgeNext]_bridgeVars
  PROVE  WakeInv'
  <1>0. /\ OwnTypeOK /\ CallOK /\ StoreInv /\ DownInv /\ StoreInv' /\ DownInv' /\ OwnersInv
        /\ OwnTypeOK'
    BY DEF BridgeInv
  <1>1. CASE ~up \/ ~up'
    <2>1. \A i \in Ids : task'[i] = "none"
      BY <1>0, <1>1, NothingUnderWay
    <2> QED
      BY <2>1 DEF WakeInv, LoopSteps
  <1>2. CASE up /\ up'
    <2>1. ASSUME NEW i \in Ids, task'[i] = "backstop" PROVE Cancelled(i)'
      <3>1. CASE task[i] = "backstop"
        BY <1>0, <1>2, <3>1, CancelledStays DEF WakeInv
      <3>2. CASE Recheck(i) /\ Cancelled(i)
        BY <3>2 DEF Recheck, Cancelled, signalVars
      <3> QED
        BY <1>0, <1>2, <2>1, <3>1, <3>2, LoopMoves
    <2>2. ASSUME NEW i \in Ids, task'[i] \in LoopSteps PROVE ear'[i] # "deaf"
      <3>1. CASE Listen(i)
        BY <1>0, <3>1 DEF Listen, OwnTypeOK
      <3>2. CASE task[i] \in LoopSteps
        BY <1>2, <2>2, <3>2, EarMoves DEF Quiet, WakeInv
      <3> QED
        BY <1>0, <1>2, <2>2, <3>1, <3>2, LoopMoves
    <2>3. ASSUME NEW i \in Ids, task'[i] = "choose", ear'[i] = "listening"
          PROVE  seen'[i] = Slots!Holders'
      <3>1. CASE Snapshot(i)
        BY <1>0, <3>1 DEF Snapshot, Slots!Holders, slotVars, OwnTypeOK
      <3>2. CASE task[i] = "choose"
        <4>1. ~Listen(i) /\ ~Snapshot(i) /\ ~Choose(i)
          BY <1>0, <2>3, <3>2 DEF Listen, Snapshot, Choose, Goto, OwnTypeOK
        <4>2. ear[i] = "listening" /\ UNCHANGED slotVars
          BY <1>2, <2>3, <4>1, EarMoves DEF Quiet
        <4>3. seen'[i] = seen[i]
          BY <1>0, <1>2, <4>1, SeenMoves
        <4> QED
          BY <3>2, <4>2, <4>3 DEF WakeInv, Slots!Holders, slotVars
      <3> QED
        BY <1>0, <1>2, <2>3, <3>1, <3>2, LoopMoves
    <2>4. ASSUME Undisturbed', NEW i \in Ids, task'[i] = "wait", ear'[i] = "listening",
                 mem'[i].state = "queued"
          PROVE  MustWait(i)'
      <3>0. Undisturbed
        BY <1>0, <1>2, <2>4, ShutdownLasts DEF Undisturbed
      <3>1. task[i] \in LoopSteps
        <4>1. ~Listen(i)
          BY <1>0, <2>4 DEF Listen, Goto, OwnTypeOK
        <4> QED
          BY <1>0, <1>2, <2>4, <4>1, LoopMoves DEF LoopSteps
      <3>2. /\ ear[i] = "listening" /\ UNCHANGED slotVars
            /\ \A k \in Ids : watcher[k] = "notify" => watcher'[k] = "notify"
        <4>1. ~Listen(i)
          BY <3>1 DEF Listen, LoopSteps
        <4> QED
          BY <1>2, <2>4, <4>1, EarMoves DEF Quiet
      <3>3. Stored(published[i]) /\ i \in issued
        BY <1>0, <3>1, ShownIsIssued DEF OwnersInv, LoopSteps
      <3>4. mem[i].state = "queued" /\ published[i] = mem[i]
        <4>1. ~Creates(i)
          BY <3>3 DEF Creates
        <4>2. disk[i].state = "queued"
          BY <1>0, <1>2, <2>4, <4>1, DiskMoves
          DEF Keeps, Sweeps, Reopens, Starts, Succeeded, Fails, Cancels, Requests,
              StoreInv, BasicInv, MemoryIsDurable
        <4> QED
          BY <1>0, <1>2, <4>2, StoredIsShown DEF Stored
      <3>5. MustWait(i)
        <4>1. CASE task[i] = "wait"
          BY <3>0, <3>2, <3>4, <4>1 DEF WakeInv
        <4>2. CASE Choose(i)
          <5>1. seen[i] = Slots!Holders /\ i \notin FifoHead(mem[i].scope, seen[i])
            BY <1>0, <2>4, <3>2, <4>2 DEF Choose, Goto, OwnTypeOK, WakeInv
          <5>2. i \notin Slots!Holders
            BY <1>0, <4>2 DEF Choose, OwnersInv, SlotsHaveOwners, Holding, Slots!Holders
          <5>3. PICK k \in Ids \ Slots!Holders :
                  mem[k].state = "queued" /\ mem[k].scope = mem[i].scope /\ ~(i <= k)
            BY <3>4, <5>1, <5>2 DEF FifoHead, Oldest
          <5>4. k < i
            BY <5>3, BridgeConfig
          <5>5. Stored(published[k]) /\ published[k] = mem[k]
            BY <1>0, <1>2, <5>3, StoredIsShown DEF Stored
          <5> QED
            BY <3>4, <5>3, <5>4, <5>5 DEF MustWait, Blocks
        <4>3. CASE Slots!Refused(published[i].scope, i)
          BY <4>3 DEF Slots!Refused, MustWait
        <4> QED
          BY <1>0, <1>2, <2>4, <4>1, <4>2, <4>3, LoopMoves
      <3> QED
        BY <1>2, <3>0, <3>2, <3>3, <3>5, MustWaitStays
    <2> QED
      BY <2>1, <2>2, <2>3, <2>4 DEF WakeInv
  <1> QED
    BY <1>0, <1>1, <1>2 DEF StoreInv, BasicInv, StoreTypeOK

(* Nobody listens at the start.                                            *)
LEMMA WakeInitially == BridgeInit => WakeInv
  BY DEF BridgeInit, WakeInv, LoopSteps

(* Whoever sleeps has reason to, or will be woken.                         *)
THEOREM BridgeWakes == BridgeSpec => []WakeInv
  <1>1. /\ BridgeInv /\ BridgeInv' /\ OutcomesInv /\ StagesInv /\ AttendedInv /\ WakeInv
        /\ [BridgeNext]_bridgeVars
        => WakeInv'
    BY WakeStep
  <1> QED
    BY <1>1, WakeInitially, BridgeInvariant, BridgeOutcomes, BridgeStages, BridgeAttends, PTL
    DEF BridgeSpec

(* The admission loop misses no wake-up: however the checks of the task    *)
(* at the head of its scope interleave with the slots that come free, the  *)
(* deadlines and the cancels, it sleeps beside a free slot only behind one *)
(* that was cancelled while queued, or with a notify_waiters on its way.   *)
THEOREM BridgeWakesHeads == BridgeSpec => []HeadIsWoken
  <1>1. BridgeInv /\ WakeInv => HeadIsWoken
    <2> SUFFICES ASSUME BridgeInv, WakeInv, Undisturbed, NEW i \in Ids, SleepsByFreeSlot(i)
                 PROVE  \E j \in Ids : /\ j < i /\ published[j].scope = mem[i].scope
                                       /\ \/ CancelledWhileQueued(j)
                                          \/ watcher[j] \in {"write", "notify"}
      BY DEF HeadIsWoken, Undisturbed
    <2>0. StoreInv /\ up /\ OwnTypeOK
      BY DEF BridgeInv, Undisturbed
    <2>1. /\ task[i] = "wait" /\ ear[i] = "listening" /\ mem[i].state = "queued"
          /\ i \in FifoHead(mem[i].scope, Slots!Holders) /\ Slots!CanAcquire(mem[i].scope)
      BY <2>0 DEF SleepsByFreeSlot, WakeInv, LoopSteps, OwnTypeOK
    <2>2. published[i] = mem[i]
      BY <2>0, <2>1, StoredIsShown DEF Stored
    <2>3. PICK k \in Ids : Blocks(k, i)
      BY <2>1, <2>2 DEF WakeInv, MustWait
    <2>4. ~(mem[k].state = "queued" /\ k \notin Slots!Holders)
      <3>1. ASSUME mem[k].state = "queued", k \notin Slots!Holders PROVE FALSE
        <4>1. mem[k].scope = mem[i].scope
          BY <2>0, <2>2, <2>3, <3>1, StoredIsShown DEF Blocks, Stored
        <4>2. i <= k
          BY <2>1, <3>1, <4>1 DEF FifoHead, Oldest
        <4> QED
          BY <2>3, <4>2, BridgeConfig DEF Blocks
      <3> QED
        BY <3>1
    <2> QED
      BY <2>2, <2>3, <2>4 DEF Blocks
  <1> QED
    BY <1>1, BridgeInvariant, BridgeWakes, PTL

-----------------------------------------------------------------------------
(* The bridge keeps the contract of execution.                             *)

(* A step of invocation i: of its task, of its executor, of its watcher,   *)
(* or a cancel of it.                                                      *)
Acts(i) ==
  \/ \E s \in Scopes : Submit(i, s)
  \/ PlainStep(i) \/ WritingStep(i) \/ TryAdmit(i) \/ DropSlot(i)
  \/ ExecutorStep(i) \/ WatcherWrites(i) \/ (CancelWrites /\ cancel.id = i)

(* What the contract shows of invocation j stays.                          *)
StageStays(j) == Stage'[j] = Stage[j] /\ Home'[j] = Home[j]

(* An id whose task does not move was not issued, and keeps its scope.     *)
LEMMA StillStays ==
  ASSUME BridgeInv, [BridgeNext]_bridgeVars, up', NEW j \in Ids, task'[j] = task[j]
  PROVE  (j \in issued' <=> j \in issued) /\ Home'[j] = Home[j]
  <1>0. OwnTypeOK /\ CallOK /\ StoreInv /\ OwnersInv
    BY DEF BridgeInv
  <1>1. ASSUME j \in issued', j \notin issued PROVE FALSE
    <2>1. PICK s \in Scopes : Submit(j, s)
      BY <1>1, IssuedBy
    <2>2. task'[j] = "new"
      BY <1>0, <2>1 DEF Submit, Goto, OwnTypeOK
    <2>3. task[j] = "none"
      BY <1>0, <1>1, ShownIsIssued DEF OwnersInv
    <2> QED
      BY <2>2, <2>3
  <1>2. j \in issued => j \in issued'
    BY <1>0, IssuedStays
  <1>3. Home'[j] = Home[j]
    BY <1>0, ShownScope DEF Home, OwnersInv
  <1> QED
    BY <1>1, <1>2, <1>3

(* What the contract shows of an invocation depends on these alone.        *)
LEMMA SameStage ==
  ASSUME BridgeInv, [BridgeNext]_bridgeVars, up', NEW j \in Ids,
         task'[j] = task[j], admitted'[j] = admitted[j], exec'[j] = exec[j], runs'[j] = runs[j],
         mem'[j].state = "queued" <=> mem[j].state = "queued"
  PROVE  StageStays(j)
  <1>1. (j \in issued' <=> j \in issued) /\ Home'[j] = Home[j]
    BY StillStays
  <1> QED
    BY <1>1 DEF StageStays, Stage

(* A lifecycle write of one record leaves the others alone, and queues     *)
(* none.                                                                   *)
LEMMA AttemptKeepsOthers ==
  ASSUME StoreInv, StoreInv', up, up', NEW i \in Ids, NEW next \in States \ {"queued"}, NEW code,
         Attempt(i, next, code)
  PROVE  /\ \A j \in Ids \ {i} : mem'[j] = mem[j]
         /\ mem'[i] = mem[i] \/ (mem'[i].state = next /\ PermitsWith(mem[i].state, next, code))
  <1>1. mem = disk /\ mem' = disk'
    BY DEF StoreInv, BasicInv, MemoryIsDurable
  <1> QED
    BY <1>1, AttemptMoves

(* A task that writes moves no slot and no executor.                       *)
LEMMA WritingKeepsOthers ==
  ASSUME BridgeInv, BridgeInv', up, up', NEW i \in Ids, WritingStep(i)
  PROVE  /\ UNCHANGED <<slotVars, exec, runs>>
         /\ \A j \in Ids \ {i} : task'[j] = task[j] /\ mem'[j] = mem[j]
         /\ mem'[i].state = "queued" => mem[i].state = "queued"
  <1>0. OwnTypeOK /\ StoreInv /\ StoreInv'
        /\ {"running", "failed", "succeeded", "cancelled"} \subseteq States \ {"queued"}
    BY DEF BridgeInv, States, Active, Terminal
  <1>1. ASSUME NEW step, Then(i, step)
        PROVE  UNCHANGED <<slotVars, exec, runs>> /\ \A j \in Ids \ {i} : task'[j] = task[j]
    BY <1>0, <1>1 DEF Then, Goto, OwnTypeOK, otherVars
  <1>2. ASSUME NEW next \in States \ {"queued"}, NEW code, Attempt(i, next, code)
        PROVE  /\ \A j \in Ids \ {i} : mem'[j] = mem[j]
               /\ mem'[i].state = "queued" => mem[i].state = "queued"
    BY <1>0, <1>2, AttemptKeepsOthers
  <1>3. CASE Prepare(i)
    <2>1. CASE Fail(i, "task_init_failed") /\ Then(i, "release")
      BY <1>0, <1>1, <1>2, <2>1 DEF Fail
    <2>2. CASE UNCHANGED <<storeVars, slotVars, exec, otherVars>>
               /\ \E step \in {"last_check", "release"} : Goto(i, step)
      BY <1>0, <2>2 DEF Goto, OwnTypeOK, storeVars, otherVars
    <2> QED
      BY <1>3, <2>1, <2>2 DEF Prepare
  <1>4. CASE Backstop(i) \/ StartRunning(i) \/ RecordCancel(i) \/ Judge(i)
    BY <1>0, <1>1, <1>2, <1>4 DEF Backstop, StartRunning, RecordCancel, Judge, Fail
  <1> QED
    BY <1>3, <1>4 DEF WritingStep

(* A step shows, of at most the one invocation that acts, something new.   *)
LEMMA OneActs ==
  ASSUME BridgeInv, BridgeInv', BridgeNext, up, up'
  PROVE  \/ \A j \in Ids : StageStays(j)
         \/ \E i \in Ids : Acts(i) /\ \A j \in Ids \ {i} : StageStays(j)
  <1>0. OwnTypeOK /\ CallOK /\ StoreInv /\ StoreInv' /\ OwnersInv
    BY DEF BridgeInv
  <1>1. ASSUME NEW i \in Ids, NEW s \in Scopes, Submit(i, s), NEW j \in Ids \ {i}
        PROVE  StageStays(j)
    <2>1. task'[j] = task[j] /\ UNCHANGED <<slotVars, exec, runs>>
      BY <1>0, <1>1 DEF Submit, Goto, OwnTypeOK, otherVars
    <2>2. ~Creates(j)
      <3>1. ASSUME NEW r \in Scopes, Submit(j, r), j \notin issued PROVE FALSE
        <4>1. task'[j] = "new"
          BY <1>0, <3>1 DEF Submit, Goto, OwnTypeOK
        <4>2. task[j] = "none"
          BY <1>0, <3>1, ShownIsIssued DEF OwnersInv
        <4> QED
          BY <2>1, <4>1, <4>2
      <3> QED
        BY <3>1 DEF Creates
    <2>3. mem'[j].state = "queued" <=> mem[j].state = "queued"
      BY <1>0, <1>1, <2>2, SubmitMoves
      DEF Keeps, Sweeps, StoreInv, BasicInv, MemoryIsDurable, IsActive, Active
    <2> QED
      BY <2>1, <2>3, SameStage DEF slotVars
  <1>2. ASSUME NEW i \in Ids, PlainStep(i), NEW j \in Ids \ {i} PROVE StageStays(j)
    <2>1. mem' = mem
      BY <1>2 DEF PlainStep, Dispatch, Listen, Recheck, Snapshot, Choose, Wake, Enter,
          LastCheck, Spawn, Join, Unwind, Leave, storeVars
    <2> QED
      BY <1>0, <1>2, <2>1, PlainAdvances, SameStage DEF Advances, slotVars
  <1>3. ASSUME NEW i \in Ids, WritingStep(i), NEW j \in Ids \ {i} PROVE StageStays(j)
    BY <1>3, WritingKeepsOthers, SameStage DEF slotVars
  <1>4. ASSUME NEW i \in Ids, TryAdmit(i) \/ DropSlot(i), NEW j \in Ids \ {i}
        PROVE  StageStays(j)
    <2>1. UNCHANGED <<mem, exec, runs>>
      BY <1>4 DEF TryAdmit, DropSlot, storeVars, otherVars
    <2>2. admitted'[j] = admitted[j] /\ task'[j] = task[j]
      <3>1. admitted \in [Ids -> Scopes \cup {None}] /\ task \in [Ids -> TaskSteps]
        BY <1>0 DEF OwnTypeOK, OwnersInv, Ledger!SlotsInv, Ledger!SlotsTypeOK
      <3>2. CASE TryAdmit(i)
        BY <1>0, <3>1, <3>2, AdmitsOwner DEF slotVars
      <3>3. CASE DropSlot(i)
        BY <1>0, <3>1, <3>3, DropsOwner
      <3> QED
        BY <1>4, <3>2, <3>3
    <2> QED
      BY <2>1, <2>2, SameStage
  <1>5. ASSUME NEW i \in Ids, ExecutorStep(i), NEW j \in Ids \ {i} PROVE StageStays(j)
    <2>1. UNCHANGED <<mem, admitted, task, runs>> /\ exec'[j] = exec[j]
      BY <1>0, <1>5 DEF ExecutorStep, ExecutorReturns, storeVars, slotVars, otherVars, OwnTypeOK
    <2> QED
      BY <2>1, SameStage
  <1>6. ASSUME NEW i \in Ids, WatcherWrites(i) \/ (CancelWrites /\ cancel.id = i),
               NEW j \in Ids \ {i}
        PROVE  StageStays(j)
    <2>1. UNCHANGED <<admitted, task, exec, runs>>
      BY <1>6 DEF WatcherWrites, CancelWrites, slotVars, otherVars
    <2>2. \E next \in States \ {"queued"} : \E code : Attempt(i, next, code)
      BY <1>0, <1>6
      DEF WatcherWrites, Fail, CancelWrites, CallOK, States, Active, Terminal
    <2>3. mem'[j] = mem[j]
      BY <1>0, <2>2, AttemptKeepsOthers
    <2> QED
      BY <2>1, <2>3, SameStage
  <1>7. ASSUME NEW i \in Ids, WatchStep(i), NEW j \in Ids PROVE StageStays(j)
    <2>1. UNCHANGED <<mem, admitted, task, exec, runs>>
      BY <1>7 DEF WatchStep, DeadlinePasses, WatcherWakes, WatcherReads, WatcherSignals,
          WatcherNotifies, storeVars, slotVars, otherVars
    <2> QED
      BY <2>1, SameStage
  <1>8. ASSUME QuietStep \/ UNCHANGED bridgeVars, NEW j \in Ids PROVE StageStays(j)
    <2>1. UNCHANGED <<mem, admitted, task, exec, runs>>
      BY <1>8 DEF QuietStep, CancelSignals, Shutdown, CancelReads, ShutdownSignals,
          ExecutorTimesOut, bridgeVars,
          storeVars, slotVars, otherVars
    <2> QED
      BY <2>1, SameStage
  <1>9. ~ProcessCrash /\ ~Restart
    BY DEF ProcessCrash, Crash, Restart, Open
  <1>10. CancelWrites => cancel.id \in Ids
    BY DEF CancelWrites, BridgeInv, CallOK
  <1> QED
    BY <1>0, <1>1, <1>2, <1>3, <1>4, <1>5, <1>6, <1>7, <1>8, <1>9, <1>10, BridgeSteps DEF Acts

(* What the contract shows, in terms of the bridge, of an invocation that  *)
(* was issued.                                                             *)
LEMMA ShowsStage ==
  ASSUME BridgeInv, NEW j \in Ids, j \in issued
  PROVE  /\ task[j] \in Waiting =>
              Stage[j] = IF mem[j].state = "queued" THEN "queue" ELSE "withdrawn"
         /\ task[j] \in {"leave", "done"} => Stage[j] = "over"
         /\ task[j] \in Holding =>
              Stage[j] = IF exec[j] = "running" THEN "running"
                         ELSE IF runs[j] = 0 /\ (mem[j].state = "queued" \/ task[j] = "spawn")
                           THEN "slot" ELSE "spent"
         /\ exec[j] = "running" => task[j] \in {"executing", "unwind"}
         /\ task[j] \in PreSpawn => runs[j] = 0
         /\ task[j] # "none" => Home[j] = published[j].scope
  BY DEF BridgeInv, OwnersInv, SlotsHaveOwners, RunsInv, Stage, Home, Waiting, Holding,
         Admitting, PreSpawn

(* An invocation that has a task was issued, and keeps its scope while it  *)
(* has one.                                                                *)
LEMMA ActorStays ==
  ASSUME BridgeInv, [BridgeNext]_bridgeVars, NEW i \in Ids, task[i] # "none", task'[i] # "none"
  PROVE  i \in issued /\ i \in issued' /\ Home'[i] = Home[i]
  <1>0. OwnTypeOK /\ CallOK /\ StoreInv /\ Stored(published[i])
    BY DEF BridgeInv, OwnersInv
  <1>1. i \in issued /\ i \in issued'
    BY <1>0, ShownIsIssued, IssuedStays
  <1>2. published'[i].scope = published[i].scope
    BY <1>0, ShownScope
  <1> QED
    BY <1>1, <1>2 DEF Home

(* ShowsStage after a step.                                                *)
LEMMA ShowsStageNext ==
  ASSUME BridgeInv', NEW j \in Ids, j \in issued'
  PROVE  /\ task'[j] \in Waiting =>
              Stage'[j] = IF mem'[j].state = "queued" THEN "queue" ELSE "withdrawn"
         /\ task'[j] \in {"leave", "done"} => Stage'[j] = "over"
         /\ task'[j] \in Holding =>
              Stage'[j] = IF exec'[j] = "running" THEN "running"
                          ELSE IF runs'[j] = 0 /\ (mem'[j].state = "queued" \/ task'[j] = "spawn")
                            THEN "slot" ELSE "spent"
         /\ exec'[j] = "running" => task'[j] \in {"executing", "unwind"}
         /\ task'[j] \in PreSpawn => runs'[j] = 0
  BY DEF BridgeInv, OwnersInv, SlotsHaveOwners, RunsInv, Stage, Waiting, Holding,
         Admitting, PreSpawn

(* A move of invocation i the contract allows.                             *)
Edge(i) ==
  /\ Home'[i] = Home[i]
  /\ \/ Stage'[i] = Stage[i]
     \/ Stage[i] = "queue" /\ Stage'[i] = "withdrawn"
     \/ Stage[i] = "slot" /\ Stage'[i] = "spent"
     \/ /\ Execution!Room(Home[i]) /\ Execution!IsNext(i)
        /\ \/ Stage[i] = "queue" /\ Stage'[i] = "slot"
           \/ Stage[i] = "withdrawn" /\ Stage'[i] = "spent"
     \/ Stage[i] = "slot" /\ Stage'[i] = "running"
     \/ Stage[i] = "running" /\ Stage'[i] = "spent"
     \/ Stage[i] \in {"queue", "withdrawn", "slot", "spent"} /\ Stage'[i] = "over"

(* When only one invocation moves, the contract moves it.                  *)
LEMMA EdgeIsStep ==
  ASSUME NEW i \in Ids, Edge(i), \A j \in Ids \ {i} : StageStays(j)
  PROVE  Execution!Next \/ UNCHANGED Execution!vars
  <1>1. /\ Stage = [j \in Ids |-> Stage[j]] /\ Stage' = [j \in Ids |-> Stage'[j]]
        /\ Home = [j \in Ids |-> Home[j]] /\ Home' = [j \in Ids |-> Home'[j]]
    BY DEF Stage, Home
  <1>2. \A j \in Ids : Home'[j] = Home[j] /\ (j # i => Stage'[j] = Stage[j])
    BY DEF Edge, StageStays
  <1>3. Home' = Home
    BY <1>1, <1>2
  <1>4. Stage' = [Stage EXCEPT ![i] = Stage'[i]]
    BY <1>1, <1>2
  <1>5. Execution!Become(i, Stage'[i])
    BY <1>3, <1>4 DEF Execution!Become
  <1>6. Stage'[i] = Stage[i] => UNCHANGED Execution!vars
    BY <1>1, <1>3, <1>4 DEF Execution!vars
  <1>7. Stage'[i] # Stage[i] =>
          Execution!Withdraw(i) \/ Execution!Grant(i) \/ Execution!Start(i)
            \/ Execution!Return(i) \/ Execution!Leave(i)
    BY <1>5
    DEF Edge, Execution!Withdraw, Execution!Grant, Execution!Start, Execution!Return,
        Execution!Leave, Execution!Queue
  <1> QED
    BY <1>6, <1>7 DEF Execution!Next

(* Cardinality, as the contract reads it.                                  *)
LEMMA SameCount == \A S : Execution!Cardinality(S) = Ledger!Cardinality(S)
  BY DEF Execution!Cardinality, Ledger!Cardinality

(* Whom the contract shows with a slot, the ledger holds; so what the      *)
(* counters leave free is room.                                            *)
LEMMA FreeIsRoom ==
  ASSUME BridgeInv, NEW s \in Scopes, Slots!CanAcquire(s)
  PROVE  Execution!Room(s)
  <1>1. ASSUME NEW j \in Ids
        PROVE  /\ Stage[j] \in Execution!Slot <=> admitted[j] # None
               /\ admitted[j] # None => Home[j] = admitted[j]
    <2>1. CASE admitted[j] # None
      <3>1. task[j] \in Holding /\ task[j] # "none" /\ admitted[j] = published[j].scope
        BY <2>1 DEF BridgeInv, OwnersInv, SlotsHaveOwners, Holding
      <3>2. j \in issued
        BY <3>1, ShownIsIssued DEF BridgeInv, OwnersInv
      <3> QED
        BY <2>1, <3>1, <3>2 DEF Stage, Home, Execution!Slot
    <2>2. CASE admitted[j] = None
      BY <2>2 DEF Stage, Execution!Slot
    <2> QED
      BY <2>1, <2>2
  <1>2. Execution!Held = Ledger!Holders
    BY <1>1 DEF Execution!Held, Ledger!Holders
  <1>3. Execution!HeldBy(s) = Ledger!InScope(s)
    BY <1>1, <1>2, NoneIsNoValue DEF Execution!HeldBy, Ledger!InScope, Ledger!Holders
  <1>4. Execution!HeldFrom(TenantOf[s]) = Ledger!InTenant(TenantOf[s])
    BY <1>1, <1>2 DEF Execution!HeldFrom, Ledger!InTenant, Ledger!Holders
  <1>5. TenantOf[s] \in Tenants
    BY BridgeConfig
  <1>6. /\ global = Ledger!Cardinality(Ledger!Holders)
        /\ perTenant[TenantOf[s]] = Ledger!Cardinality(Ledger!InTenant(TenantOf[s]))
        /\ perScope[s] = Ledger!Cardinality(Ledger!InScope(s))
    BY <1>5 DEF BridgeInv, OwnersInv, Ledger!SlotsInv, Ledger!CountersMatch
  <1> QED
    BY <1>2, <1>3, <1>4, <1>6, SameCount DEF Slots!CanAcquire, Execution!Room

(* Whoever is chosen when it asks for a slot is next: nobody of its scope  *)
(* was there before it and waits.                                          *)
LEMMA ChosenIsNext ==
  ASSUME BridgeInv, OrderInv, up, NEW i \in Ids, task[i] = "admit"
  PROVE  Execution!IsNext(i)
  <1> SUFFICES ASSUME NEW j \in Ids, j < i, Home[j] = Home[i], Stage[j] = "queue"
               PROVE  FALSE
    BY DEF Execution!IsNext
  <1>1. task[j] \in Waiting /\ mem[j].state = "queued"
    BY DEF Stage, Waiting
  <1>2. published[j] = mem[j]
    BY <1>1, StoredIsShown DEF BridgeInv, Stored
  <1>3. Home[j] = published[j].scope /\ Home[i] = published[i].scope
    BY <1>1 DEF Home, Waiting, Admitting
  <1> QED
    BY <1>1, <1>2, <1>3 DEF OrderInv

(* A task goes from step to step: it starts its run, or leaves the loop.   *)
LEMMA PlainShows ==
  ASSUME BridgeInv, BridgeInv', BridgeNext, up, up', NEW i \in Ids, PlainStep(i)
  PROVE  Edge(i)
  <1>0. OwnTypeOK /\ Advances(i)
    BY PlainAdvances DEF BridgeInv
  <1>1. /\ task[i] # "none" /\ task'[i] # "none" /\ mem' = mem
        /\ \/ Spawn(i)
           \/ /\ task[i] # "spawn" /\ task'[i] # "spawn" /\ exec'[i] = exec[i] /\ runs'[i] = runs[i]
              /\ \/ task[i] \in Waiting /\ task'[i] \in Waiting
                 \/ task[i] \in Waiting \cup {"leave"} /\ task'[i] \in {"leave", "done"}
                 \/ task[i] \in Holding /\ task'[i] \in Holding
    <2>1. CASE Spawn(i)
      BY <1>0, <2>1 DEF Spawn, Goto, OwnTypeOK, storeVars
    <2>2. CASE Dispatch(i) \/ Listen(i) \/ Recheck(i) \/ Snapshot(i) \/ Wake(i)
      BY <1>0, <2>2 DEF Dispatch, Listen, Recheck, Snapshot, Wake, Goto, OwnTypeOK,
            storeVars, otherVars, Waiting, Admitting
    <2>3. CASE Choose(i) \/ Leave(i)
      BY <1>0, <2>3 DEF Choose, Leave, Goto, OwnTypeOK, storeVars, otherVars, Waiting, Admitting
    <2>4. CASE Enter(i) \/ LastCheck(i) \/ Join(i) \/ Unwind(i)
      BY <1>0, <2>4 DEF Enter, LastCheck, Join, Unwind, Goto, OwnTypeOK, storeVars, otherVars,
            Holding
    <2> QED
      BY <2>1, <2>2, <2>3, <2>4 DEF PlainStep
  <1>2. i \in issued /\ i \in issued' /\ Home'[i] = Home[i]
    BY <1>1, ActorStays
  <1>3. CASE Spawn(i)
    <2>1. /\ task[i] = "spawn" /\ task'[i] = "executing" /\ exec'[i] = "running"
      BY <1>0, <1>3 DEF Spawn, Goto, OwnTypeOK
    <2>2. Stage[i] = "slot"
      BY <1>2, <2>1, ShowsStage DEF Holding, PreSpawn
    <2>3. Stage'[i] = "running"
      BY <1>2, <2>1, ShowsStageNext DEF Holding
    <2> QED
      BY <1>2, <2>2, <2>3 DEF Edge
  <1>4. CASE task[i] \in Waiting /\ task'[i] \in Waiting
    BY <1>1, <1>2, <1>4, ShowsStage, ShowsStageNext DEF Edge
  <1>5. CASE task[i] \in Waiting \cup {"leave"} /\ task'[i] \in {"leave", "done"}
    BY <1>1, <1>2, <1>5, ShowsStage, ShowsStageNext DEF Edge
  <1>6. CASE /\ task[i] \in Holding /\ task'[i] \in Holding
             /\ task[i] # "spawn" /\ task'[i] # "spawn"
             /\ exec'[i] = exec[i] /\ runs'[i] = runs[i]
    BY <1>1, <1>2, <1>6, ShowsStage, ShowsStageNext DEF Edge
  <1> QED
    BY <1>1, <1>3, <1>4, <1>5, <1>6

(* A task writes: at most it finishes the record of what had not started.  *)
LEMMA WritingShows ==
  ASSUME BridgeInv, BridgeInv', BridgeNext, OutcomesInv, StagesInv, up, up',
         NEW i \in Ids, WritingStep(i)
  PROVE  Edge(i)
  <1>0. /\ OwnTypeOK /\ StoreInv /\ StoreInv' /\ "running" \in States \ {"queued"}
    BY DEF BridgeInv, States, Active, Terminal
  <1>1. /\ exec'[i] = exec[i] /\ runs'[i] = runs[i]
        /\ mem'[i].state = "queued" => mem[i].state = "queued"
    BY WritingKeepsOthers
  <1>2. ASSUME NEW step, Then(i, step) PROVE task'[i] = step
    BY <1>0, <1>2 DEF Then, Goto, OwnTypeOK
  <1>3. /\ task[i] # "none" /\ task'[i] # "none"
        /\ \/ task[i] = "backstop" /\ task'[i] = "leave"
           \/ task[i] = "prepare" /\ task'[i] \in {"last_check", "release"}
           \/ StartRunning(i) /\ task[i] = "start" /\ task'[i] = AfterStart(i)
           \/ task[i] \in {"record_cancel", "judge"} /\ task'[i] = "release"
    <2>1. CASE Prepare(i)
      <3>1. CASE Then(i, "release")
        BY <1>2, <2>1, <3>1 DEF Prepare
      <3>2. CASE \E step \in {"last_check", "release"} : Goto(i, step)
        BY <1>0, <2>1, <3>2 DEF Prepare, Goto, OwnTypeOK
      <3> QED
        BY <2>1, <3>1, <3>2 DEF Prepare
    <2>2. CASE Backstop(i) \/ StartRunning(i) \/ RecordCancel(i) \/ Judge(i)
      BY <1>2, <2>2 DEF Backstop, StartRunning, RecordCancel, Judge, AfterStart
    <2> QED
      BY <2>1, <2>2 DEF WritingStep
  <1>4. i \in issued /\ i \in issued' /\ Home'[i] = Home[i]
    BY <1>3, ActorStays
  <1>5. CASE task[i] = "backstop" /\ task'[i] = "leave"
    BY <1>4, <1>5, ShowsStage, ShowsStageNext DEF Waiting, Admitting, Edge
  <1>6. CASE task[i] = "prepare" /\ task'[i] \in {"last_check", "release"}
    BY <1>1, <1>4, <1>6, ShowsStage, ShowsStageNext DEF Holding, Edge
  <1>7. CASE StartRunning(i) /\ task[i] = "start" /\ task'[i] = AfterStart(i)
    <2>1. mem[i].state # "running"
      BY <1>7 DEF StagesInv, PreSpawn
    <2>2. \/ mem'[i] = mem[i]
          \/ mem'[i].state = "running" /\ mem[i].state = "queued"
      BY <1>0, <1>7, AttemptKeepsOthers DEF StartRunning, PermitsWith, Permits, Successors
    <2>3. task'[i] = IF mem'[i].state = "running" THEN "spawn" ELSE "release"
      BY <1>7 DEF AfterStart
    <2> QED
      BY <1>1, <1>4, <1>7, <2>1, <2>2, <2>3, ShowsStage, ShowsStageNext
      DEF Holding, PreSpawn, Edge
  <1>8. CASE task[i] \in {"record_cancel", "judge"} /\ task'[i] = "release"
    <2>1. mem[i].state # "queued"
      BY <1>0, <1>8, StoredIsShown DEF OutcomesInv, RunSteps, Stored
    <2> QED
      BY <1>1, <1>4, <1>8, <2>1, ShowsStage, ShowsStageNext DEF Holding, Edge
  <1> QED
    BY <1>3, <1>5, <1>6, <1>7, <1>8

(* A task asks for a slot or gives it back; an executor returns.           *)
LEMMA SlotShows ==
  ASSUME BridgeInv, BridgeInv', BridgeNext, OutcomesInv, OrderInv, up, up',
         NEW i \in Ids, TryAdmit(i) \/ DropSlot(i) \/ ExecutorStep(i)
  PROVE  Edge(i)
  <1>0. /\ OwnTypeOK /\ CallOK /\ StoreInv /\ OwnersInv
        /\ admitted \in [Ids -> Scopes \cup {None}]
    BY DEF BridgeInv, OwnersInv, Ledger!SlotsInv, Ledger!SlotsTypeOK
  <1>1. CASE TryAdmit(i)
    <2>1. /\ task[i] = "admit" /\ UNCHANGED <<mem, exec, runs>>
      BY <1>1 DEF TryAdmit, storeVars, otherVars
    <2>2. \/ task'[i] = "wait"
          \/ task'[i] = "enter" /\ Slots!CanAcquire(published[i].scope)
      <3>1. i \notin Slots!Holders
        BY <1>0, <2>1 DEF OwnersInv, SlotsHaveOwners, Holding, Slots!Holders
      <3> QED
        BY <1>0, <1>1, <3>1 DEF TryAdmit, Goto, OwnTypeOK, Slots!Admit
    <2>3. i \in issued /\ i \in issued' /\ Home'[i] = Home[i]
      BY <2>1, <2>2, ActorStays
    <2>4. Home[i] = published[i].scope /\ published[i].scope \in Scopes
      BY <1>0, <2>1 DEF Home, OwnersInv
    <2>5. Stage[i] = IF mem[i].state = "queued" THEN "queue" ELSE "withdrawn"
      BY <2>1, <2>3, ShowsStage DEF Waiting, Admitting
    <2>6. CASE task'[i] = "wait"
      BY <2>1, <2>3, <2>5, <2>6, ShowsStageNext DEF Waiting, Admitting, Edge
    <2>7. CASE task'[i] = "enter" /\ Slots!CanAcquire(published[i].scope)
      <3>1. Execution!Room(Home[i]) /\ Execution!IsNext(i)
        BY <2>1, <2>4, <2>7, FreeIsRoom, ChosenIsNext
      <3>2. Stage'[i] = IF mem[i].state = "queued" THEN "slot" ELSE "spent"
        <4>1. task'[i] \in Holding /\ task'[i] \in PreSpawn /\ task'[i] # "spawn"
          BY <2>7 DEF Holding, PreSpawn
        <4>2. exec'[i] # "running"
          BY <2>3, <2>7, ShowsStageNext
        <4> QED
          BY <2>1, <2>3, <4>1, <4>2, ShowsStageNext
      <3> QED
        BY <2>3, <2>5, <3>1, <3>2 DEF Edge
    <2> QED
      BY <2>2, <2>6, <2>7
  <1>2. CASE DropSlot(i)
    <2>1. task[i] = "release" /\ task'[i] = "leave"
      BY <1>0, <1>2 DEF DropSlot, Goto, OwnTypeOK
    <2>2. i \in issued /\ i \in issued' /\ Home'[i] = Home[i]
      BY <2>1, ActorStays
    <2>3. Stage[i] \in {"slot", "spent"} /\ Stage'[i] = "over"
      BY <2>1, <2>2, ShowsStage, ShowsStageNext DEF Holding
    <2> QED
      BY <2>2, <2>3 DEF Edge
  <1>3. CASE ExecutorStep(i)
    <2>1. /\ exec[i] = "running" /\ exec'[i] # "running" /\ UNCHANGED <<task, mem, runs>>
      BY <1>0, <1>3 DEF ExecutorStep, ExecutorReturns, Outcomes, OwnTypeOK, storeVars, otherVars
    <2>2. task[i] \in {"executing", "unwind"} /\ runs[i] = 1
      BY <1>0, <2>1 DEF OwnersInv, OutcomesInv
    <2>3. i \in issued /\ i \in issued' /\ Home'[i] = Home[i]
      BY <2>1, <2>2, ActorStays
    <2>4. Stage[i] = "running" /\ Stage'[i] = "spent"
      BY <2>1, <2>2, <2>3, ShowsStage, ShowsStageNext DEF Holding
    <2> QED
      BY <2>3, <2>4 DEF Edge
  <1> QED
    BY <1>1, <1>2, <1>3

(* A deadline watcher or a cancel call finishes or marks a record.         *)
LEMMA OthersShow ==
  ASSUME BridgeInv, BridgeInv', BridgeNext, up, up',
         NEW i \in Ids, WatcherWrites(i) \/ (CancelWrites /\ cancel.id = i)
  PROVE  Edge(i)
  <1>1. UNCHANGED <<admitted, task, exec, runs>>
    BY DEF WatcherWrites, CancelWrites, slotVars, otherVars
  <1>2. mem'[i].state = "queued" => mem[i].state = "queued"
    <2>1. \E next \in States \ {"queued"} : \E code : Attempt(i, next, code)
      BY DEF WatcherWrites, Fail, CancelWrites, BridgeInv, CallOK, States, Active, Terminal
    <2> QED
      BY <2>1, AttemptKeepsOthers DEF BridgeInv
  <1>3. (i \in issued' <=> i \in issued) /\ Home'[i] = Home[i]
    BY <1>1, StillStays
  <1> QED
    BY <1>1, <1>2, <1>3 DEF Edge, Stage

(* create accepts the next invocation.                                     *)
LEMMA SubmitAccepts ==
  ASSUME BridgeInv, BridgeInv', BridgeNext, OrderInv, up, up',
         NEW i \in Ids, NEW s \in Scopes, Submit(i, s),
         \A j \in Ids \ {i} : StageStays(j)
  PROVE  Execution!Accept(i, s)
  <1>0. OwnTypeOK /\ StoreInv /\ StoreInv' /\ OwnersInv'
    BY DEF BridgeInv
  <1>1. i \notin issued /\ i \in issued' /\ published'[i].scope = s
    BY <1>0, SubmitShows
  <1>2. task'[i] = "new" /\ mem'[i].state = "queued"
    <2>1. task'[i] = "new"
      BY <1>0 DEF Submit, Goto, OwnTypeOK
    <2>2. mem'[i] = disk'[i]
      BY <1>0 DEF StoreInv, BasicInv, MemoryIsDurable
    <2> QED
      BY <2>1, <2>2, SubmitQueues
  <1>3. Stage[i] = "none" /\ \A j \in Ids : Stage[j] # "none" => j < i
    BY <1>1 DEF Stage, OrderInv
  <1>4. Stage'[i] = "queue"
    BY <1>1, <1>2, ShowsStageNext DEF Waiting
  <1>5. Home'[i] = s
    BY <1>1, <1>2 DEF Home
  <1>6. /\ Stage = [j \in Ids |-> Stage[j]] /\ Stage' = [j \in Ids |-> Stage'[j]]
        /\ Home = [j \in Ids |-> Home[j]] /\ Home' = [j \in Ids |-> Home'[j]]
    BY DEF Stage, Home
  <1>7. \A j \in Ids \ {i} : Home'[j] = Home[j] /\ Stage'[j] = Stage[j]
    BY DEF StageStays
  <1>8. Stage' = [Stage EXCEPT ![i] = "queue"]
    BY <1>4, <1>6, <1>7
  <1>9. Home' = [Home EXCEPT ![i] = s]
    BY <1>5, <1>6, <1>7
  <1> QED
    BY <1>3, <1>8, <1>9 DEF Execution!Accept

(* Nobody has a task, nor a slot: everything that was issued is over.      *)
LEMMA NobodyActs ==
  ASSUME BridgeInv, \A j \in Ids : task[j] = "none"
  PROVE  /\ Stage = [j \in Ids |-> IF j \in issued THEN "over" ELSE "none"]
         /\ Home = [j \in Ids |-> None]
  <1>1. \A j \in Ids : admitted[j] = None
    BY DEF BridgeInv, OwnersInv, SlotsHaveOwners, Holding
  <1> QED
    BY <1>1 DEF Stage, Home, Admitting

(* The same after a step.                                                  *)
LEMMA NobodyActsNext ==
  ASSUME BridgeInv', \A j \in Ids : task'[j] = "none"
  PROVE  /\ Stage' = [j \in Ids |-> IF j \in issued' THEN "over" ELSE "none"]
         /\ Home' = [j \in Ids |-> None]
  <1>1. \A j \in Ids : admitted'[j] = None
    BY DEF BridgeInv, OwnersInv, SlotsHaveOwners, Holding
  <1> QED
    BY <1>1 DEF Stage, Home, Admitting

(* A crash, in a create that reached the file or anywhere else.            *)
LEMMA CrashEndsAll ==
  ASSUME BridgeInv, BridgeInv', BridgeNext, up, ~up'
  PROVE  Execution!Next
  <1> DEFINE lost == issued' \ issued
  <1>0. OwnTypeOK /\ CallOK /\ StoreInv
    BY DEF BridgeInv
  <1>1. \A j \in Ids : task'[j] = "none"
    BY DEF BridgeInv, DownInv
  <1>2. /\ Stage' = [j \in Ids |-> IF j \in issued' THEN "over" ELSE "none"]
        /\ Home' = [j \in Ids |-> None]
    BY <1>1, NobodyActsNext
  <1>3. lost \in SUBSET Ids
    BY DEF BridgeInv, StoreInv, BasicInv, StoreTypeOK
  <1>4. ASSUME NEW i \in lost, NEW j \in lost PROVE i = j
    <2>1. i \in Ids /\ j \in Ids /\ i \notin issued /\ j \notin issued
      BY <1>3
    <2>2. (\E s \in Scopes : Submit(i, s)) /\ (\E s \in Scopes : Submit(j, s))
      BY <2>1, IssuedBy
    <2>3. i <= j /\ j <= i
      BY <2>1, <2>2 DEF Submit
    <2> QED
      BY <2>1, <2>3, BridgeConfig
  <1>5. \A j \in Ids : (Stage[j] = "none" /\ j \notin lost) <=> j \notin issued'
    BY <1>0, IssuedStays DEF Stage
  <1>6. Stage' = [j \in Ids |-> IF Stage[j] = "none" /\ j \notin lost THEN "none" ELSE "over"]
    BY <1>2, <1>5
  <1> QED
    BY <1>2, <1>3, <1>4, <1>6 DEF Execution!Crash, Execution!Next

(* While the process is down, and when it comes up again, nothing moves.   *)
LEMMA DownShowsNothing ==
  ASSUME BridgeInv, BridgeInv', [BridgeNext]_bridgeVars, ~up
  PROVE  UNCHANGED Execution!vars
  <1>0. OwnTypeOK /\ CallOK /\ StoreInv /\ DownInv /\ DownInv' /\ issued \subseteq Ids /\ issued' \subseteq Ids
    BY DEF BridgeInv, StoreInv, BasicInv, StoreTypeOK
  <1>1. (\A j \in Ids : task[j] = "none") /\ (\A j \in Ids : task'[j] = "none")
    BY <1>0, NothingUnderWay DEF DownInv
  <1>2. issued' = issued
    <2>1. ASSUME NEW j \in Ids, j \in issued' \ issued PROVE FALSE
      <3>1. PICK s \in Scopes : Submit(j, s)
        BY <2>1, IssuedBy
      <3> QED
        BY <3>1 DEF Submit, Create
    <2> QED
      BY <1>0, <2>1, IssuedStays
  <1> QED
    BY <1>1, <1>2, NobodyActs, NobodyActsNext DEF Execution!vars

(* Every step of the bridge is a step of the contract or stutters.         *)
LEMMA BridgeStepKeepsExecution ==
  ASSUME BridgeInv, BridgeInv', OutcomesInv, StagesInv, OrderInv, [BridgeNext]_bridgeVars
  PROVE  [Execution!Next]_(Execution!vars)
  <1>1. CASE ~up
    BY <1>1, DownShowsNothing
  <1>2. CASE UNCHANGED bridgeVars
    BY <1>2 DEF bridgeVars, storeVars, slotVars, otherVars, Execution!vars, Stage, Home
  <1>3. CASE BridgeNext /\ up /\ ~up'
    BY <1>3, CrashEndsAll
  <1>4. CASE BridgeNext /\ up /\ up'
    <2>1. CASE \A j \in Ids : StageStays(j)
      <3>1. /\ Stage = [j \in Ids |-> Stage[j]] /\ Stage' = [j \in Ids |-> Stage'[j]]
            /\ Home = [j \in Ids |-> Home[j]] /\ Home' = [j \in Ids |-> Home'[j]]
        BY DEF Stage, Home
      <3> QED
        BY <2>1, <3>1 DEF StageStays, Execution!vars
    <2>2. ASSUME NEW i \in Ids, Acts(i), \A j \in Ids \ {i} : StageStays(j)
          PROVE  Execution!Next \/ UNCHANGED Execution!vars
      <3>1. ASSUME NEW s \in Scopes, Submit(i, s) PROVE Execution!Next
        BY <1>4, <2>2, <3>1, SubmitAccepts DEF Execution!Next
      <3>2. CASE Edge(i)
        BY <2>2, <3>2, EdgeIsStep
      <3>3. CASE PlainStep(i)
        BY <1>4, <3>2, <3>3, PlainShows
      <3>4. CASE WritingStep(i)
        BY <1>4, <3>2, <3>4, WritingShows
      <3>5. CASE TryAdmit(i) \/ DropSlot(i) \/ ExecutorStep(i)
        BY <1>4, <3>2, <3>5, SlotShows
      <3>6. CASE WatcherWrites(i) \/ (CancelWrites /\ cancel.id = i)
        BY <1>4, <3>2, <3>6, OthersShow
      <3> QED
        BY <2>2, <3>1, <3>3, <3>4, <3>5, <3>6 DEF Acts
    <2> QED
      BY <1>4, <2>1, <2>2, OneActs
  <1> QED
    BY <1>1, <1>2, <1>3, <1>4

(* Nothing is accepted at the start.                                       *)
LEMMA ExecutionInitially == BridgeInit => Execution!Init
  BY DEF BridgeInit, StoreInit, Slots!Init, Execution!Init, Stage, Home

(* The bridge executes as its contract says: in order within a scope,      *)
(* within the limits, once, with a slot from before the start until the    *)
(* executor is gone, and never what was withdrawn before its start -       *)
(* whatever cancels, deadlines, failed writes and crashes come between.    *)
THEOREM BridgeKeepsExecution == BridgeSpec => KeepsExecutionContract
  <1>1. BridgeInv /\ BridgeInv' /\ OutcomesInv /\ StagesInv /\ OrderInv /\ [BridgeNext]_bridgeVars
          => [Execution!Next]_(Execution!vars)
    BY BridgeStepKeepsExecution
  <1> QED
    BY <1>1, ExecutionInitially, BridgeInvariant, BridgeOutcomes, BridgeStages, BridgeOrder, PTL
    DEF BridgeSpec, KeepsExecutionContract, Execution!Spec
=============================================================================
