------------------------ MODULE InvocationStoreProofs ------------------------
(***************************************************************************)
(* What every execution of the store keeps, for any number of invocations, *)
(* scopes and keys, any limits, retention and TTL.                         *)
(*                                                                         *)
(* The write lock turns every operation into one Write of a new set of     *)
(* records; WritesAndOthers says that a step is a Write of one of four     *)
(* kinds, a crash or a tick, and the invariants are shown for each kind.   *)
(***************************************************************************)
EXTENDS InvocationStore, FiniteSetTheorems, TLAPS

Records == [Ids -> Record]

-----------------------------------------------------------------------------
(* Every helper maps records to records.                                   *)

(* An id that is not stored has a record too.                              *)
LEMMA AbsentIsRecord == Absent \in Record /\ NoRecords \in Records
  BY DEF Absent, NoRecords, Records, Record, RecordState

(* sweep_expired_records returns records.                                  *)
LEMMA SweepType ==
  ASSUME NEW recs \in Records, NEW t \in Nat
  PROVE  Sweep(recs, t) \in Records
  BY AbsentIsRecord DEF Sweep, Records

(* drop_expired_bindings returns records.                                  *)
LEMMA DropBindingsType ==
  ASSUME NEW recs \in Records, NEW t \in Nat
  PROVE  DropBindings(recs, t) \in Records
  <1>1. ASSUME NEW r \in Record PROVE [r EXCEPT !.bound = Live(r, t)] \in Record
    <2>1. Live(r, t) \in BOOLEAN
      BY DEF Live, Record
    <2> QED
      BY <2>1 DEF Record
  <1> QED
    BY <1>1 DEF DropBindings, Records

(* create_idempotent_for_claims stores a record.                           *)
LEMMA NewRecordType ==
  ASSUME NEW s \in Scopes, NEW k \in Keys \cup {None}, NEW p \in Prints \cup {None},
         now \in Nat
  PROVE  NewRecord(s, k, p) \in Record
  BY DEF NewRecord, Record, RecordState, States, Active, Terminal

(* Both lifecycle rewrites set these four fields and keep the others.      *)
LEMMA RewriteType ==
  ASSUME NEW r \in Record, NEW st \in RecordState, NEW d \in Nat,
         NEW c \in Codes \cup {"none", "interrupted"}
  PROVE  [r EXCEPT !.state = st, !.rev = @ + 1, !.done = d, !.code = c] \in Record
  <1>1. [r EXCEPT !.state = st] \in Record
    BY DEF Record
  <1>2. ASSUME NEW q \in Record PROVE [q EXCEPT !.rev = @ + 1] \in Record
    BY DEF Record
  <1>3. ASSUME NEW q \in Record PROVE [q EXCEPT !.done = d] \in Record
    BY DEF Record
  <1>4. ASSUME NEW q \in Record PROVE [q EXCEPT !.code = c] \in Record
    BY DEF Record
  <1> QED
    BY <1>1, <1>2, <1>3, <1>4

(* A lifecycle transition yields a record.                                 *)
LEMMA MovedType ==
  ASSUME NEW r \in Record, NEW next \in States, NEW code \in Codes \cup {"none"},
         now \in Nat
  PROVE  Moved(r, next, code) \in Record
  <1>1. next \in RecordState
    BY DEF RecordState
  <1>2. (IF next \in Terminal THEN now ELSE r.done) \in Nat
    BY DEF Record
  <1>3. (IF code = "none" THEN r.code ELSE code) \in Codes \cup {"none", "interrupted"}
    BY DEF Record
  <1> QED
    BY <1>1, <1>2, <1>3, RewriteType DEF Moved

(* Recovery's interruption yields records.                                 *)
LEMMA InterruptType ==
  ASSUME NEW recs \in Records, now \in Nat
  PROVE  Interrupt(recs) \in Records
  <1>1. ASSUME NEW r \in Record PROVE Interrupted(r) \in Record
    <2>1. "failed" \in RecordState
      BY DEF RecordState, States, Terminal
    <2> QED
      BY <2>1, RewriteType DEF Interrupted
  <1> QED
    BY <1>1 DEF Interrupt, Records

-----------------------------------------------------------------------------
(* The same helpers, one record at a time.                                 *)

(* Dropping a binding changes nothing but the binding.                     *)
SameButBound(a, b) ==
  /\ a.state = b.state /\ a.rev = b.rev /\ a.scope = b.scope /\ a.key = b.key
  /\ a.born = b.born /\ a.done = b.done /\ a.code = b.code

(* What drop_expired_bindings does to one record.                          *)
LEMMA DropBindingsAt ==
  ASSUME NEW recs \in Records, NEW t \in Nat, NEW i \in Ids
  PROVE  /\ SameButBound(DropBindings(recs, t)[i], recs[i])
         /\ DropBindings(recs, t)[i].bound = Live(recs[i], t)
  <1>1. recs[i] \in Record
    BY DEF Records
  <1>2. DropBindings(recs, t)[i] = [recs[i] EXCEPT !.bound = Live(recs[i], t)]
    BY DEF DropBindings
  <1> QED
    BY <1>1, <1>2 DEF SameButBound, Record

(* What sweep_expired_records does to one record.                          *)
LEMMA SweepAt ==
  ASSUME NEW recs \in Records, NEW t \in Nat, NEW i \in Ids
  PROVE  Sweep(recs, t)[i] = IF Expired(recs[i], t) THEN Absent ELSE recs[i]
  BY DEF Sweep

(* What a create leaves of the other records: an expired one goes, the     *)
(* rest lose at most a binding that is over.                               *)
LEMMA CreatedAt ==
  ASSUME StoreTypeOK, NEW i \in Ids, NEW s, NEW k, NEW p, NEW j \in Ids \ {i}
  PROVE  LET r == CreatedRecords(i, s, k, p)[j]
         IN  \/ Expired(mem[j], now) /\ ~Stored(r)
             \/ SameButBound(r, mem[j]) /\ r.bound = Live(mem[j], now)
  <1>1. mem \in Records /\ now \in Nat
    BY DEF StoreTypeOK, Records
  <1>2. Sweep(mem, now) \in Records
    BY <1>1, SweepType
  <1>3. CreatedRecords(i, s, k, p)[j] = DropBindings(Sweep(mem, now), now)[j]
    BY <1>1, <1>2 DEF CreatedRecords, DropBindings
  <1>4. /\ SameButBound(CreatedRecords(i, s, k, p)[j], Sweep(mem, now)[j])
        /\ CreatedRecords(i, s, k, p)[j].bound = Live(Sweep(mem, now)[j], now)
    BY <1>1, <1>2, <1>3, DropBindingsAt
  <1>5. CASE Expired(mem[j], now)
    <2>1. Sweep(mem, now)[j] = Absent
      BY <1>1, <1>5, SweepAt
    <2> QED
      BY <1>4, <1>5, <2>1 DEF SameButBound, Stored, Absent
  <1>6. CASE ~Expired(mem[j], now)
    <2>1. Sweep(mem, now)[j] = mem[j]
      BY <1>1, <1>6, SweepAt
    <2> QED
      BY <1>4, <2>1
  <1> QED
    BY <1>5, <1>6

(* What recovery leaves of a record: it is gone when it was finished and   *)
(* its retention is over, it is failed when it was unfinished, and         *)
(* otherwise it is as it was.                                              *)
LEMMA RecoveredAt ==
  ASSUME StoreTypeOK, NEW j \in Ids
  PROVE  LET r == Recovered(disk)[j]
             q == Interrupted(disk[j])
         IN  \/ Expired(q, now) /\ ~Stored(r)
             \/ SameButBound(r, q) /\ r.bound = Live(q, now)
  <1>1. disk \in Records /\ now \in Nat
    BY DEF StoreTypeOK, Records
  <1>2. Interrupt(disk) \in Records /\ Sweep(Interrupt(disk), now) \in Records
    BY <1>1, InterruptType, SweepType
  <1>3. /\ SameButBound(Recovered(disk)[j], Sweep(Interrupt(disk), now)[j])
        /\ Recovered(disk)[j].bound = Live(Sweep(Interrupt(disk), now)[j], now)
    BY <1>1, <1>2, DropBindingsAt DEF Recovered
  <1>4. Interrupt(disk)[j] = Interrupted(disk[j])
    BY DEF Interrupt
  <1>5. CASE Expired(Interrupted(disk[j]), now)
    <2>1. Sweep(Interrupt(disk), now)[j] = Absent
      BY <1>1, <1>2, <1>4, <1>5, SweepAt
    <2> QED
      BY <1>3, <1>5, <2>1 DEF SameButBound, Stored, Absent
  <1>6. CASE ~Expired(Interrupted(disk[j]), now)
    <2>1. Sweep(Interrupt(disk), now)[j] = Interrupted(disk[j])
      BY <1>1, <1>2, <1>4, <1>6, SweepAt
    <2> QED
      BY <1>3, <2>1
  <1> QED
    BY <1>5, <1>6

-----------------------------------------------------------------------------
(* The four kinds of write, each with what its guard says.                 *)

WritesCreate(i, s, k, p) ==
  /\ up /\ i \notin issued
  /\ CreateOutcome(s, k, p) = "created"
  /\ Write(CreatedRecords(i, s, k, p))

WritesMove(i, next, code) ==
  /\ up /\ IsActive(mem[i]) /\ mem[i].state # next
  /\ PermitsWith(mem[i].state, next, code)
  /\ Write([mem EXCEPT ![i] = Moved(@, next, code)])

(* Every step is one of the four writes, a crash or a tick.                *)
LEMMA WritesAndOthers ==
  ASSUME StoreNext, StoreTypeOK
  PROVE  \/ \E i \in Ids, s \in Scopes, k \in Keys \cup {None}, p \in Prints \cup {None} :
              WritesCreate(i, s, k, p)
         \/ \E i \in Ids, next \in States, code \in Codes \cup {"none"} :
              WritesMove(i, next, code)
         \/ up /\ Write(Sweep(mem, now))
         \/ ~up /\ Write(Recovered(disk))
         \/ Crash
         \/ Tick
  <1>1. CASE CreateAny
    BY <1>1 DEF CreateAny, Create, WritesCreate
  <1>2. CASE TransitionAny
    <2>0. PICK i \in Ids, next \in States :
            \E code \in IF next = "failed" THEN Codes ELSE {"none"},
               expected \in {0, mem[i].rev} : Transition(i, expected, next, code)
      BY <1>2 DEF TransitionAny
    <2>1. PICK code \in IF next = "failed" THEN Codes ELSE {"none"},
               expected \in {0, mem[i].rev} : Transition(i, expected, next, code)
      BY <2>0
    <2>2. code \in Codes \cup {"none"}
      BY <2>1
    <2>3. /\ up /\ mem[i].state # next
          /\ PermitsWith(mem[i].state, next, code)
          /\ Write([mem EXCEPT ![i] = Moved(@, next, code)])
      BY <2>1 DEF Transition, TransitionOutcome
    <2>4. IsActive(mem[i])
      BY <2>3 DEF IsActive, PermitsWith, Permits, Successors, Active
    <2> QED
      BY <2>2, <2>3, <2>4 DEF WritesMove
  <1>3. CASE SweepExpired
    BY <1>3 DEF SweepExpired
  <1>4. CASE Open
    BY <1>4 DEF Open
  <1> QED
    BY <1>1, <1>2, <1>3, <1>4 DEF StoreNext

(* What a write leaves behind: the file is the new records, and so is the  *)
(* memory unless the process is gone.                                      *)
LEMMA WriteEffect ==
  ASSUME NEW next, Write(next)
  PROVE  /\ disk' = next /\ now' = now
         /\ issued' = issued \cup StoredIds(next)
         /\ \/ up' = TRUE /\ mem' = next /\ published' = Show(next)
            \/ up' = FALSE /\ mem' = NoRecords /\ published' = published
  BY DEF Write, Commit, CrashAfterReplace

-----------------------------------------------------------------------------
(* Type correctness and durability.                                        *)

BasicInv == StoreTypeOK /\ MemoryIsDurable /\ (~up => mem = NoRecords)

(* A write of records, of whatever kind, keeps the invariant.              *)
LEMMA WriteKeepsBasic ==
  ASSUME StoreTypeOK, NEW next \in Records, Write(next)
  PROVE  BasicInv'
  <1>1. Show(next) \in Records
    BY DEF Show, StoreTypeOK, Records
  <1>2. StoredIds(next) \in SUBSET Ids
    BY DEF StoredIds
  <1> QED
    BY <1>1, <1>2, WriteEffect, AbsentIsRecord
    DEF BasicInv, StoreTypeOK, MemoryIsDurable, Records

(* The four kinds of write write records.                                  *)
LEMMA NewRecordsType ==
  ASSUME StoreTypeOK
  PROVE  /\ \A i \in Ids, s \in Scopes, k \in Keys \cup {None}, p \in Prints \cup {None} :
              CreatedRecords(i, s, k, p) \in Records
         /\ \A i \in Ids, next \in States, code \in Codes \cup {"none"} :
              [mem EXCEPT ![i] = Moved(@, next, code)] \in Records
         /\ Sweep(mem, now) \in Records
         /\ Recovered(disk) \in Records
  <1>1. mem \in Records /\ disk \in Records /\ now \in Nat
    BY DEF StoreTypeOK, Records
  <1>2. ASSUME NEW i \in Ids, NEW s \in Scopes,
               NEW k \in Keys \cup {None}, NEW p \in Prints \cup {None}
        PROVE  CreatedRecords(i, s, k, p) \in Records
    <2>1. DropBindings(Sweep(mem, now), now) \in Records
      BY <1>1, SweepType, DropBindingsType
    <2>2. NewRecord(s, k, p) \in Record
      BY <1>1, NewRecordType
    <2> QED
      BY <2>1, <2>2 DEF CreatedRecords, Records
  <1>3. ASSUME NEW i \in Ids, NEW next \in States, NEW code \in Codes \cup {"none"}
        PROVE  [mem EXCEPT ![i] = Moved(@, next, code)] \in Records
    <2>1. Moved(mem[i], next, code) \in Record
      BY <1>1, MovedType DEF Records
    <2> QED
      BY <1>1, <2>1 DEF Records
  <1>4. Sweep(mem, now) \in Records
    BY <1>1, SweepType
  <1>5. Recovered(disk) \in Records
    BY <1>1, InterruptType, SweepType, DropBindingsType DEF Recovered
  <1> QED
    BY <1>2, <1>3, <1>4, <1>5

(* Every step of the store keeps the invariant.                            *)
LEMMA BasicStep ==
  ASSUME BasicInv, [StoreNext]_storeVars
  PROVE  BasicInv'
  <1>0. StoreTypeOK
    BY DEF BasicInv
  <1>1. ASSUME NEW next \in Records, Write(next) PROVE BasicInv'
    BY <1>0, <1>1, WriteKeepsBasic
  <1>2. CASE Crash
    BY <1>2, AbsentIsRecord DEF Crash, BasicInv, StoreTypeOK, MemoryIsDurable, Records
  <1>3. CASE Tick
    BY <1>3 DEF Tick, BasicInv, StoreTypeOK, MemoryIsDurable
  <1>4. CASE UNCHANGED storeVars
    BY <1>4 DEF storeVars, BasicInv, StoreTypeOK, MemoryIsDurable
  <1>5. CASE StoreNext
    BY <1>0, <1>1, <1>2, <1>3, <1>5, NewRecordsType, WritesAndOthers
    DEF WritesCreate, WritesMove
  <1> QED
    BY <1>4, <1>5

(* An empty store satisfies the invariant.                                 *)
LEMMA BasicInitially == StoreInit => BasicInv
  BY AbsentIsRecord DEF StoreInit, BasicInv, StoreTypeOK, MemoryIsDurable, Records

(* The invariant of the store: types, durability, and a process that is    *)
(* down has an empty memory.                                               *)
THEOREM StoreInvariant == StoreSpec => []BasicInv
  BY BasicInitially, BasicStep, PTL DEF StoreSpec

(* The store's records, on file and in memory, keep their shape.           *)
THEOREM StoreTypeCorrect == StoreSpec => []StoreTypeOK
  BY StoreInvariant, PTL DEF BasicInv

(* persist before publish: a running process shows nothing that a restart  *)
(* would not read back.                                                    *)
THEOREM StoreDurable == StoreSpec => []MemoryIsDurable
  BY StoreInvariant, PTL DEF BasicInv

-----------------------------------------------------------------------------
(* The cap on unfinished invocations.  It is counted in memory before the  *)
(* sweep, and the file is what has to keep it.                             *)

CapInv == \A s \in Scopes : Cardinality(ActiveIn(disk, s)) <= MaxActive

(* Among fewer unfinished records the cap holds all the more.              *)
LEMMA FewerActive ==
  ASSUME NEW recs, NEW next, NEW s,
         ActiveIn(next, s) \subseteq ActiveIn(recs, s),
         Cardinality(ActiveIn(recs, s)) <= MaxActive
  PROVE  Cardinality(ActiveIn(next, s)) <= MaxActive
  <1>1. IsFiniteSet(ActiveIn(recs, s))
    BY StoreConfig, FS_Subset DEF ActiveIn
  <1>2. /\ IsFiniteSet(ActiveIn(next, s))
        /\ Cardinality(ActiveIn(next, s)) <= Cardinality(ActiveIn(recs, s))
    BY <1>1, FS_Subset
  <1>3. /\ Cardinality(ActiveIn(recs, s)) \in Nat /\ Cardinality(ActiveIn(next, s)) \in Nat
        /\ MaxActive \in Nat
    BY <1>1, <1>2, FS_CardinalityType, StoreConfig
  <1> QED
    BY <1>2, <1>3

(* A create was let in below the cap, and adds one to one scope.           *)
LEMMA CreateKeepsCap ==
  ASSUME StoreTypeOK, NEW i \in Ids, NEW s \in Scopes,
         NEW k \in Keys \cup {None}, NEW p \in Prints \cup {None},
         CreateOutcome(s, k, p) = "created",
         \A r \in Scopes : Cardinality(ActiveIn(mem, r)) <= MaxActive
  PROVE  \A r \in Scopes :
           Cardinality(ActiveIn(CreatedRecords(i, s, k, p), r)) <= MaxActive
  <1> DEFINE next == CreatedRecords(i, s, k, p)
  <1>1. TAKE r \in Scopes
  <1>2. ActiveIn(next, r) \subseteq ActiveIn(mem, r) \cup {i}
    <2>1. ASSUME NEW j \in Ids \ {i}, IsActive(next[j])
          PROVE  IsActive(mem[j]) /\ next[j].scope = mem[j].scope
      <3>1. Stored(next[j])
        BY <2>1 DEF IsActive, Stored, Active
      <3>2. SameButBound(next[j], mem[j])
        BY <3>1, CreatedAt
      <3> QED
        BY <2>1, <3>2 DEF SameButBound, IsActive
    <2> QED
      BY <2>1 DEF ActiveIn
  <1>3. IsFiniteSet(ActiveIn(mem, r)) /\ Cardinality(ActiveIn(mem, r)) \in Nat
    BY StoreConfig, FS_Subset, FS_CardinalityType DEF ActiveIn
  <1>4. CASE r = s
    <2>1. Cardinality(ActiveIn(mem, s)) < MaxActive
      BY <1>3, <1>4, StoreConfig DEF CreateOutcome
    <2>2. /\ IsFiniteSet(ActiveIn(mem, r) \cup {i})
          /\ Cardinality(ActiveIn(mem, r) \cup {i}) <= MaxActive
      <3>1. /\ IsFiniteSet(ActiveIn(mem, r) \cup {i})
            /\ \/ Cardinality(ActiveIn(mem, r) \cup {i}) = Cardinality(ActiveIn(mem, r))
               \/ Cardinality(ActiveIn(mem, r) \cup {i}) = Cardinality(ActiveIn(mem, r)) + 1
        BY <1>3, FS_AddElement
      <3>2. MaxActive \in Nat
        BY StoreConfig
      <3> QED
        BY <1>3, <1>4, <2>1, <3>1, <3>2
    <2>3. /\ IsFiniteSet(ActiveIn(next, r))
          /\ Cardinality(ActiveIn(next, r)) <= Cardinality(ActiveIn(mem, r) \cup {i})
      BY <1>2, <2>2, FS_Subset
    <2> QED
      BY <2>2, <2>3, FS_CardinalityType, StoreConfig
  <1>5. CASE r # s
    <2>1. next[i].scope = s
      BY DEF CreatedRecords, DropBindings, NewRecord
    <2>2. ActiveIn(next, r) \subseteq ActiveIn(mem, r)
      BY <1>2, <1>5, <2>1 DEF ActiveIn
    <2> QED
      BY <2>2, FewerActive
  <1> QED
    BY <1>4, <1>5

(* No other step makes a record unfinished or moves it to another scope.   *)
LEMMA OthersKeepCap ==
  ASSUME StoreTypeOK, NEW s \in Scopes
  PROVE  /\ \A i \in Ids, next \in States, code \in Codes \cup {"none"} :
              IsActive(mem[i]) =>
                ActiveIn([mem EXCEPT ![i] = Moved(@, next, code)], s) \subseteq ActiveIn(mem, s)
         /\ ActiveIn(Sweep(mem, now), s) \subseteq ActiveIn(mem, s)
         /\ ActiveIn(Recovered(disk), s) \subseteq ActiveIn(disk, s)
  <1>1. ASSUME NEW i \in Ids, NEW next \in States, NEW code \in Codes \cup {"none"},
               IsActive(mem[i])
        PROVE  ActiveIn([mem EXCEPT ![i] = Moved(@, next, code)], s) \subseteq ActiveIn(mem, s)
    BY <1>1 DEF ActiveIn, Moved, StoreTypeOK, Record
  <1>2. ActiveIn(Sweep(mem, now), s) \subseteq ActiveIn(mem, s)
    BY DEF ActiveIn, Sweep, IsActive, Active, Absent
  <1>3. ASSUME NEW i \in Ids PROVE ~IsActive(Recovered(disk)[i])
    <2>1. disk[i] \in Record
      BY DEF StoreTypeOK
    <2>2. ~IsActive(Interrupted(disk[i]))
      BY <2>1 DEF Interrupted, IsActive, Active, Record
    <2>3. CASE ~Stored(Recovered(disk)[i])
      BY <2>3 DEF Stored, IsActive, Active
    <2>4. CASE SameButBound(Recovered(disk)[i], Interrupted(disk[i]))
      BY <2>2, <2>4 DEF SameButBound, IsActive
    <2> QED
      BY <2>3, <2>4, RecoveredAt
  <1>4. ActiveIn(Recovered(disk), s) \subseteq ActiveIn(disk, s)
    BY <1>3 DEF ActiveIn
  <1> QED
    BY <1>1, <1>2, <1>4

(* Every step of the store keeps the cap on file.                          *)
LEMMA CapStep ==
  ASSUME BasicInv, CapInv, [StoreNext]_storeVars
  PROVE  CapInv'
  <1>0. StoreTypeOK /\ (up => mem = disk)
    BY DEF BasicInv, MemoryIsDurable
  <1>1. ASSUME NEW next, Write(next),
               \A s \in Scopes : Cardinality(ActiveIn(next, s)) <= MaxActive
        PROVE  CapInv'
    <2>1. disk' = next
      BY <1>1, WriteEffect
    <2>2. \A s \in Scopes : ActiveIn(disk, s)' = ActiveIn(next, s)
      BY <2>1 DEF ActiveIn, IsActive
    <2> QED
      BY <1>1, <2>2 DEF CapInv
  <1>2. CASE \E i \in Ids, s \in Scopes, k \in Keys \cup {None}, p \in Prints \cup {None} :
               WritesCreate(i, s, k, p)
    BY <1>0, <1>1, <1>2, CreateKeepsCap DEF WritesCreate, CapInv
  <1>3. CASE \E i \in Ids, next \in States, code \in Codes \cup {"none"} :
               WritesMove(i, next, code)
    BY <1>0, <1>1, <1>3, OthersKeepCap, FewerActive DEF WritesMove, CapInv
  <1>4. CASE up /\ Write(Sweep(mem, now))
    BY <1>0, <1>1, <1>4, OthersKeepCap, FewerActive DEF CapInv
  <1>5. CASE ~up /\ Write(Recovered(disk))
    BY <1>0, <1>1, <1>5, OthersKeepCap, FewerActive DEF CapInv
  <1>6. CASE UNCHANGED disk
    BY <1>6 DEF CapInv, ActiveIn
  <1> QED
    BY <1>0, <1>2, <1>3, <1>4, <1>5, <1>6, WritesAndOthers DEF Crash, Tick, storeVars

(* max_active_per_scope: the cap holds in memory and in the file, so also  *)
(* for a process that restarts from it.                                    *)
THEOREM StoreCapHolds == StoreSpec => []ActiveCap
  <1>1. StoreInit => CapInv
    <2>1. ASSUME StoreInit, NEW s \in Scopes PROVE ActiveIn(disk, s) = {}
      BY <2>1 DEF StoreInit, NoRecords, Absent, ActiveIn, IsActive, Active
    <2> QED
      BY <2>1, FS_EmptySet, StoreConfig DEF CapInv
  <1>2. BasicInv /\ CapInv => ActiveCap
    <2> SUFFICES ASSUME BasicInv, CapInv, NEW s \in Scopes
                 PROVE  Cardinality(ActiveIn(mem, s)) <= MaxActive
      BY DEF CapInv, ActiveCap
    <2>1. CASE up
      BY <2>1 DEF BasicInv, MemoryIsDurable, CapInv
    <2>2. CASE ~up
      <3>1. ActiveIn(mem, s) = {}
        BY <2>2 DEF BasicInv, NoRecords, Absent, ActiveIn, IsActive, Active
      <3> QED
        BY <3>1, FS_EmptySet, StoreConfig
    <2> QED
      BY <2>1, <2>2
  <1>3. BasicInv /\ CapInv /\ [StoreNext]_storeVars => CapInv'
    BY CapStep
  <1> QED
    BY <1>1, <1>2, <1>3, StoreInvariant, PTL DEF StoreSpec
=============================================================================
