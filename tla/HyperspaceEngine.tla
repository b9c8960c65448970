--------------------------- MODULE HyperspaceEngine ---------------------------
(***************************************************************************)
(* The persistence of the vector engine (crates/hyperspace-engine):        *)
(* EngineWal (wal.rs), the write operations, checkpoint, open and recover  *)
(* of HyperspaceEngineImpl (engine.rs) and the snapshot file               *)
(* (snapshot.rs).                                                          *)
(*                                                                         *)
(* A write holds the engine's locks from the registration of its IRI to    *)
(* the change of the vector store, so it is one step; a checkpoint holds   *)
(* no lock between its phases, so each phase is a step, and so is the      *)
(* deletion of each log file. Vector store, index and metadata always      *)
(* change together under those locks and are one function, `store`.        *)
(*                                                                         *)
(* The log files are one set of records: `file` of a record is its file    *)
(* and its logical clock its place in the file. Rotations are numbered by  *)
(* the timestamp they take first: rotation n gives the active file the     *)
(* name n, by which frozen files sort, and creates file n. A restart is    *)
(* the death of the process: what the kernel has accepted stays.           *)
(*                                                                         *)
(* Two can rotate the log at once: the checkpoint and the append that      *)
(* finds it full. Appends hold the engine's locks, so there is one at a    *)
(* time; checkpoints are modelled one at a time too.                       *)
(*                                                                         *)
(* Bounds: MaxClock (writes), MaxRotations (rotations, and restarts that   *)
(* must create the active file), MaxId (identifiers), MaxRestarts.         *)
(***************************************************************************)
EXTENDS Integers, FiniteSets

CONSTANTS Iris, Values,
          Nothing,      \* no vector
          NoIri,        \* a delete record does not carry its IRI
          MaxIoErrors,  \* EngineWal::MAX_IO_ERRORS
          MaxSize,      \* EngineWal::MAX_SIZE, in records
          MaxId, MaxClock, MaxRotations, MaxRestarts

ASSUME EngineAssumption ==
  /\ Nothing \notin Values
  /\ NoIri \notin Iris
  /\ MaxIoErrors \in Nat \ {0}
  /\ MaxSize \in Nat \ {0}
  /\ MaxId \in Nat
  /\ MaxClock \in Nat
  /\ MaxRotations \in Nat

VARIABLES
  log,        \* the records in the log files
  name,       \* name[f]: Unlinked, the timestamp in frozen.*.wal, or Active
  open,       \* inner.file: the file appends go to, whatever its name
  size,       \* current_size, in records
  rotations,  \* timestamps taken
  at,         \* at[p]: where rotator p is, and the checkpoint beyond that
  ticket,     \* ticket[p]: the timestamp of its rotation
  snap,       \* index.snapshot
  built,      \* the snapshot the checkpoint has built
  listed,     \* the files its cleanup has still to delete
  io_errors,  \* io_error_count
  iri_to_id,  \* IriRegistry: 0 is "not registered"
  next_id,
  clock,
  store,      \* vector store, index and metadata, by identifier
  restarts,
  doubt,      \* history: what else a restart may bring back for an IRI
  gone,       \* history: the clock of the newest write whose file is deleted
  muddled,    \* history: the last clock of a log that a restart met in disorder
  crossed     \* history: an append and a checkpoint have rotated at once

files  == <<log, name, open, size, rotations>>
phases == <<at, ticket, built, listed>>
memory == <<iri_to_id, next_id, clock, store>>

history == <<doubt, gone, muddled, crossed>>

vars == <<files, phases, memory, snap, io_errors, restarts, history>>

Ids == 1..MaxId
Contents == Values \cup {Nothing}

Files    == 0..MaxRotations
Unlinked == 0
Active   == MaxRotations + 1
FrozenFiles == {f \in Files : name[f] \notin {Unlinked, Active}}

Rotators == {"checkpoint", "append"}
Steps == {"idle", "begun", "renamed", "created", "switched", "rotated",
          "built", "saved", "cleaning"}

Goto(p, step) == at' = [at EXCEPT ![p] = step] /\ UNCHANGED ticket
Leave(p, step) == at' = [at EXCEPT ![p] = step] /\ ticket' = [ticket EXCEPT ![p] = 0]

EmptySnapshot == [iri_to_id |-> [i \in Iris |-> 0],
                  store |-> [d \in Ids |-> Nothing],
                  clock |-> 0]

Init ==
  /\ log = {} /\ name = [f \in Files |-> IF f = 0 THEN Active ELSE Unlinked]
  /\ open = 0 /\ size = 0 /\ rotations = 0
  /\ at = [p \in Rotators |-> "idle"] /\ ticket = [p \in Rotators |-> 0]
  /\ built = EmptySnapshot /\ listed = {}
  /\ snap = EmptySnapshot /\ io_errors = 0
  /\ iri_to_id = EmptySnapshot.iri_to_id /\ next_id = 1
  /\ clock = 0 /\ store = EmptySnapshot.store
  /\ restarts = 0
  /\ doubt = [i \in Iris |-> {}] /\ gone = 0 /\ muddled = 0 /\ crossed = FALSE

----------------------------------------------------------------------------
(* Reading the log back.                                                   *)

(* pending_paths: the frozen files and the active one.                     *)
Bug_Pending == {f \in Files : name[f] = Active}
Pending == {f \in Files : name[f] # Unlinked}

(* EngineWal::replay stops at the first record it cannot read: what is     *)
(* behind the bytes of a failed write, in the same file, is not read.      *)
Readable ==
  {r \in log : /\ r.file \in Pending /\ ~r.torn
               /\ ~\E t \in log : t.torn /\ t.file = r.file /\ t.clock < r.clock}

(* The files are replayed in the order of their names.                     *)
Before(r, q) ==
  \/ name[r.file] < name[q.file]
  \/ name[r.file] = name[q.file] /\ r.clock < q.clock

LastOf(S) == CHOOSE r \in S : \A q \in S : q = r \/ Before(q, r)

Touching(d) == {r \in Readable : r.id = d}
Naming(i) == {r \in Readable : r.iri = i}

(* open loads the snapshot, then recover applies every pending record.     *)
RecoveredStore ==
  [d \in Ids |-> IF Touching(d) # {} THEN LastOf(Touching(d)).val
                                     ELSE snap.store[d]]
RecoveredIds ==
  [i \in Iris |-> IF Naming(i) # {} THEN LastOf(Naming(i)).id
                                    ELSE snap.iri_to_id[i]]
RecoveredClocks == {snap.clock} \cup {r.clock : r \in Readable}

(* register_id and import keep next_id above every identifier restored.    *)
Bug_FreshIds(ids) == {1}
FreshIds(ids) ==
  {n \in {1} \cup {ids[i] + 1 : i \in Iris} : \A i \in Iris : ids[i] < n}

Lookup(ids, vectors, i) == IF ids[i] = 0 THEN Nothing ELSE vectors[ids[i]]

----------------------------------------------------------------------------
(* Writing. IriRegistry::register: an IRI keeps its identifier.            *)

IdOf(i) == IF iri_to_id[i] = 0 THEN next_id ELSE iri_to_id[i]

Register(i) ==
  /\ IdOf(i) \in Ids
  /\ iri_to_id' = [iri_to_id EXCEPT ![i] = IdOf(i)]
  /\ next_id' = IF iri_to_id[i] = 0 THEN next_id + 1 ELSE next_id

(* The last of a set of clocks.                                            *)
Newest(S) == {c \in S : \A x \in S : x <= c}

(* EngineWal::append: a file that is full is rotated before the write; the *)
(* size is not looked at again after it.                                   *)
Full == size + 1 > MaxSize
MayWrite ==
  /\ io_errors < MaxIoErrors
  /\ at["append"] = "rotated" \/ (at["append"] = "idle" /\ ~Full)

Record(i, v) ==
  [file |-> open, clock |-> clock + 1, id |-> IdOf(i), val |-> v,
   iri |-> IF v = Nothing THEN NoIri ELSE i, torn |-> FALSE]
TornRecord(i, v) == [Record(i, v) EXCEPT !.torn = TRUE]

Damaged(f) == \E t \in log : t.torn /\ t.file = f

(* Bytes go to the open file; nobody finds them when it has been deleted.  *)
Write(rec) == log' = IF name[open] = Unlinked THEN log ELSE log \cup {rec}

(* The packet is written and synced: memory follows, the errors are over.  *)
Logged(i, v) ==
  /\ MayWrite
  /\ Write(Record(i, v))
  /\ size' = size + 1
  /\ io_errors' = 0
  /\ store' = [store EXCEPT ![IdOf(i)] = v]
  /\ doubt' = [doubt EXCEPT ![i] =
                 IF Damaged(open) THEN @ \cup {Lookup(iri_to_id, store, i)} ELSE {}]
  /\ gone' = IF name[open] = Unlinked THEN clock + 1 ELSE gone

(* write_all fails: the bytes written before the failure stay in the file. *)
Bug_WriteFails(i, v) ==
  /\ Write(TornRecord(i, v))
  /\ io_errors' = io_errors + 1
  /\ UNCHANGED <<size, store, doubt, gone>>
WriteFails(i, v) ==
  /\ MayWrite
  /\ Write(TornRecord(i, v)) \/ UNCHANGED log
  /\ io_errors' = io_errors + 1
  /\ UNCHANGED <<size, store, doubt, gone>>

(* The sync fails: the record is in the file, the caller gets an error.    *)
SyncFails(i, v) ==
  /\ MayWrite
  /\ Write(Record(i, v))
  /\ doubt' = [doubt EXCEPT ![i] = @ \cup {v}]
  /\ UNCHANGED <<size, io_errors, store, gone>>

(* StorageCritical: after MaxIoErrors failures nothing is written. Nor is  *)
(* it when the rotation before the write fails.                            *)
Refused ==
  /\ \/ at["append"] = "idle" /\ io_errors >= MaxIoErrors
     \/ at["append"] \in {"begun", "renamed", "created"}
  /\ UNCHANGED <<log, size, io_errors, store, doubt, gone>>

Append(i, v) ==
  /\ clock < MaxClock
  /\ Logged(i, v) \/ WriteFails(i, v) \/ SyncFails(i, v) \/ Refused
  /\ clock' = clock + 1
  /\ Leave("append", "idle")
  /\ UNCHANGED <<name, open, rotations, built, listed, snap, restarts, muddled,
                 crossed>>

(* insert and upsert differ in the opcode they log. What is written is     *)
(* chosen at the end: nobody sees a write that is still rotating.          *)
Put(i, v) == Register(i) /\ Append(i, v)

Delete(i) ==
  /\ iri_to_id[i] # 0
  /\ Append(i, Nothing)
  /\ UNCHANGED <<iri_to_id, next_id>>

----------------------------------------------------------------------------
(* EngineWal::rotate, step by step: the log's lock is not held over them.  *)

(* The timestamp, and the sync of the open file. An append rotates when it *)
(* has found the file full, a checkpoint always.                           *)
BeginRotation(p) ==
  /\ at[p] = "idle"
  /\ p = "append" => Full /\ io_errors < MaxIoErrors /\ clock < MaxClock
  /\ rotations < MaxRotations
  /\ rotations' = rotations + 1
  /\ at' = [at EXCEPT ![p] = "begun"]
  /\ ticket' = [ticket EXCEPT ![p] = rotations + 1]
  /\ crossed' = (crossed \/ \E q \in Rotators \ {p} : at[q] # "idle")
  /\ UNCHANGED <<log, name, open, size, built, listed, memory, snap, io_errors,
                 restarts, doubt, gone, muddled>>

(* The rename, which fails when there is no active file.                   *)
RenameActive(p) ==
  /\ at[p] = "begun"
  /\ \E f \in Files : /\ name[f] = Active
                       /\ name' = [name EXCEPT ![f] = ticket[p]]
  /\ Goto(p, "renamed")
  /\ UNCHANGED <<log, open, size, rotations, built, listed, memory, snap,
                 io_errors, restarts, history>>

(* A new active file: the other rotator cannot have made one, because it   *)
(* found none to rename.                                                   *)
CreateActive(p) ==
  /\ at[p] = "renamed"
  /\ name' = [name EXCEPT ![ticket[p]] = Active]
  /\ Goto(p, "created")
  /\ UNCHANGED <<log, open, size, rotations, built, listed, memory, snap,
                 io_errors, restarts, history>>

(* inner.file = new_file, whatever has become of that file's name.         *)
SwitchFile(p) ==
  /\ at[p] = "created"
  /\ open' = ticket[p]
  /\ Goto(p, "switched")
  /\ UNCHANGED <<log, name, size, rotations, built, listed, memory, snap,
                 io_errors, restarts, history>>

ResetSize(p) ==
  /\ at[p] = "switched"
  /\ size' = 0
  /\ Leave(p, "rotated")
  /\ UNCHANGED <<log, name, open, rotations, built, listed, memory, snap,
                 io_errors, restarts, history>>

----------------------------------------------------------------------------
(* checkpoint: after the rotation it builds, saves and cleans up.          *)

(* The engine's locks are taken: no append is under way.                   *)
BuildSnapshot ==
  /\ at["checkpoint"] = "rotated" /\ at["append"] = "idle"
  /\ Goto("checkpoint", "built")
  /\ built' = [iri_to_id |-> iri_to_id, store |-> store, clock |-> clock]
  /\ UNCHANGED <<files, listed, memory, snap, io_errors, restarts, history>>

(* save_snapshot: a temporary file renamed over index.snapshot.            *)
SaveSnapshot ==
  /\ at["checkpoint"] = "built"
  /\ Goto("checkpoint", "saved")
  /\ snap' = built
  /\ built' = EmptySnapshot
  /\ UNCHANGED <<files, listed, memory, io_errors, restarts, history>>

(* cleanup_frozen: the files with a frozen name at this time ...           *)
Bug_Frozen == {f \in Files : name[f] # Unlinked /\ \E r \in log : r.file = f}
Frozen == FrozenFiles

ListFrozen ==
  /\ at["checkpoint"] = "saved"
  /\ Goto("checkpoint", "cleaning")
  /\ listed' = Frozen
  /\ UNCHANGED <<files, built, memory, snap, io_errors, restarts, history>>

(* ... are deleted in the order the directory lists them.                  *)
RemoveFrozen(f) ==
  /\ at["checkpoint"] = "cleaning"
  /\ log' = {r \in log : r.file # f}
  /\ name' = [name EXCEPT ![f] = Unlinked]
  /\ listed' = listed \ {f}
  /\ gone' \in Newest({gone} \cup {r.clock : r \in {q \in log : q.file = f}})
  /\ UNCHANGED <<open, size, rotations, at, ticket, built, memory, snap, io_errors,
                 restarts, doubt, muddled, crossed>>

FinishCleanup ==
  /\ at["checkpoint"] = "cleaning"
  /\ listed = {}
  /\ Goto("checkpoint", "idle")
  /\ UNCHANGED <<files, built, listed, memory, snap, io_errors, restarts, history>>

(* A step fails and the checkpoint gives up where it is.                   *)
CheckpointFails ==
  /\ at["checkpoint"] \in {"begun", "renamed", "created", "built", "saved", "cleaning"}
  /\ Leave("checkpoint", "idle")
  /\ built' = EmptySnapshot
  /\ listed' = {}
  /\ UNCHANGED <<files, memory, snap, io_errors, restarts, history>>

----------------------------------------------------------------------------
(* The process dies and opens the engine again: recover, and replay cuts   *)
(* each file at the first record it cannot read.                           *)
Bug_Healed == log
Healed == Readable

(* Records that are replayed in another order than they were written.      *)
Disordered ==
  \E r, q \in log : r.clock < q.clock /\ name[q.file] < name[r.file]

(* EngineWal::open creates the active file if there is none.               *)
OpenActive ==
  \/ /\ \E f \in Files : name[f] = Active /\ open' = f
     /\ UNCHANGED <<name, rotations>>
  \/ /\ \A f \in Files : name[f] # Active
     /\ rotations < MaxRotations
     /\ rotations' = rotations + 1
     /\ name' = [name EXCEPT ![rotations + 1] = Active]
     /\ open' = rotations + 1

(* What a restart has brought back is the content from now on. If it has   *)
(* read the records in disorder, they do not tell that content again when  *)
(* some of their files are gone.                                           *)
Restart ==
  /\ restarts < MaxRestarts
  /\ restarts' = restarts + 1
  /\ iri_to_id' = RecoveredIds
  /\ store' = RecoveredStore
  /\ next_id' \in FreshIds(RecoveredIds)
  /\ clock' \in Newest(RecoveredClocks)
  /\ log' = Healed
  /\ OpenActive
  /\ size' = Cardinality({r \in log : r.file = open'})
  /\ io_errors' = 0
  /\ at' = [p \in Rotators |-> "idle"] /\ ticket' = [p \in Rotators |-> 0]
  /\ built' = EmptySnapshot
  /\ listed' = {}
  /\ doubt' = [i \in Iris |-> {}]
  /\ gone' = 0
  /\ muddled' = IF Disordered THEN clock' ELSE 0
  /\ UNCHANGED <<snap, crossed>>

Next ==
  \/ \E i \in Iris, v \in Values : Put(i, v)
  \/ \E i \in Iris : Delete(i)
  \/ \E p \in Rotators : \/ BeginRotation(p) \/ RenameActive(p) \/ CreateActive(p)
                          \/ SwitchFile(p) \/ ResetSize(p)
  \/ BuildSnapshot
  \/ SaveSnapshot
  \/ ListFrozen
  \/ \E f \in listed : RemoveFrozen(f)
  \/ FinishCleanup
  \/ CheckpointFails
  \/ Restart

Spec == Init /\ [][Next]_vars
----------------------------------------------------------------------------
(* Properties.                                                             *)

Records == [file : Files, clock : 1..MaxClock, id : Ids,
            val : Contents, iri : Iris \cup {NoIri}, torn : BOOLEAN]
Snapshots == [iri_to_id : [Iris -> 0..MaxId], store : [Ids -> Contents],
              clock : 0..MaxClock]

(* The state of the engine, its files and the histories have their types   *)
(* (EngineWal, EngineSnapshot, EngineInner, IriRegistry).                  *)
EngineTypeOK ==
  /\ log \subseteq Records
  /\ name \in [Files -> 0..Active] /\ open \in Files
  /\ size \in Nat /\ rotations \in Files
  /\ at \in [Rotators -> Steps] /\ ticket \in [Rotators -> Files]
  /\ snap \in Snapshots /\ built \in Snapshots /\ listed \subseteq Files
  /\ io_errors \in 0..MaxIoErrors
  /\ iri_to_id \in [Iris -> 0..MaxId]
  /\ next_id \in 1..(MaxId + 1)
  /\ clock \in 0..MaxClock
  /\ store \in [Ids -> Contents]
  /\ restarts \in Nat
  /\ doubt \in [Iris -> SUBSET Contents]
  /\ gone \in 0..MaxClock /\ muddled \in 0..MaxClock /\ crossed \in BOOLEAN

(* What a reader gets now, and what it would get after a restart.          *)
View(i) == Lookup(iri_to_id, store, i)
RecoveredView(i) == Lookup(RecoveredIds, RecoveredStore, i)

(* A file has been deleted and an older record is left behind.             *)
Gap == \E r \in log : r.clock <= gone

(* A record has gone with its file that the snapshot does not cover.       *)
Lost == gone > snap.clock

(* A record is there whose file an earlier restart met in disorder.        *)
Muddled == \E r \in log : r.clock <= muddled

Exposed == Gap \/ Lost \/ Disordered \/ Muddled

(* In every state, in the middle of a rotation, a checkpoint or a cleanup  *)
(* too, a restart brings back what readers see, or a write the engine      *)
(* refused or acknowledged behind unreadable bytes; except where the files *)
(* themselves have come apart, with an older record left behind, a newer   *)
(* one gone, or two in the wrong order, now or at the last restart         *)
(* (append, rotate, checkpoint, replay, recover).                          *)
CrashSafe ==
  ~Exposed => \A i \in Iris : RecoveredView(i) \in {View(i)} \cup doubt[i]

(* As long as no append has rotated the log while a checkpoint was under   *)
(* way, no record is deleted that the snapshot does not cover and the log  *)
(* is replayed in the order it was written, whatever rotations, saves and  *)
(* deletions have failed half way (rotate, checkpoint, cleanup_frozen).    *)
OnlyCrossingExposes == ~crossed => ~Lost /\ ~Disordered

(* Registration, failed writes, restarts from a snapshot and from records  *)
(* in any mixture never give one identifier to two IRIs (IriRegistry).     *)
IdsNameOneIri ==
  \A i, j \in Iris : i # j /\ iri_to_id[i] = iri_to_id[j] => iri_to_id[i] = 0

(* checkpoint deletes frozen files as "already safe in snapshot"           *)
(* (engine.rs, Phase 3): while it does, a restart brings back nothing else *)
(* than what readers see or what is in doubt.                              *)
SafeInSnapshot ==
  gone > 0 => \A i \in Iris : RecoveredView(i) \in {View(i)} \cup doubt[i]

Contract == INSTANCE VectorContract WITH
  view <- [i \in Iris |-> View(i)],
  doubt <- doubt,
  sound <- ~Damaged(open),
  fragile <- Exposed,
  crossed <- crossed

(* The engine keeps the contract of its callers: what is acknowledged on a *)
(* sound log survives every restart that does not meet the files torn      *)
(* apart, and only a cleanup or crossing rotations tear them apart.        *)
KeepsWrites == Contract!Spec
=============================================================================
