--------------------------- MODULE InvocationStore ---------------------------
(***************************************************************************)
(* The claims-scoped invocation store                                      *)
(* (src/api/http/invocations_store.rs): a vector of records behind one     *)
(* write lock, copied to one JSON file by an atomic replace before it is   *)
(* published to memory.  A record carries its lifecycle state, its         *)
(* revision (the ETag), and the idempotency binding of the request that    *)
(* created it.                                                             *)
(*                                                                         *)
(* Every operation under the write lock is one action.  It ends in one of  *)
(* three ways: Commit (file replaced, memory published), a failed write    *)
(* (neither changes: a stuttering step), or CrashAfterReplace (the file    *)
(* is replaced and the process dies before memory is published).           *)
(***************************************************************************)
EXTENDS Naturals, FiniteSets, InvocationLifecycle

CONSTANTS
  Ids,          \* invocation ids (each is used once: they are UUIDs)
  Scopes,       \* (tenant_id, project_id) pairs
  Keys,         \* (actor_id, Idempotency-Key) pairs
  Prints,       \* request fingerprints
  Codes,        \* error codes the callers put into a patch
  None,         \* "no scope", "no key", "no fingerprint"
  Retention,    \* ticks a terminal record is kept after completed_at
  TTL,          \* ticks an idempotency binding stays live
  MaxActive,    \* max_active_per_scope
  MaxStored,    \* MAX_STORED_INVOCATIONS
  MaxTime       \* model bound: the clock stops here

(* try_from_vars refuses to start with ttl > retention or a zero value;    *)
(* the retention and the ttl are whole days and hours, at least one.       *)
ASSUME StoreConfig ==
  /\ Retention \in Nat /\ TTL \in Nat /\ 1 <= TTL /\ TTL <= Retention
  /\ MaxActive \in Nat \ {0} /\ MaxStored \in Nat /\ MaxTime \in Nat
  /\ IsFiniteSet(Ids)

ASSUME NoneIsNoValue == None \notin Scopes \cup Keys \cup Prints

VARIABLES
  mem,        \* InvocationStore.records
  disk,       \* invocations.json
  up,         \* the process runs and has opened the store
  now,        \* the wall clock, in ticks
  issued,     \* history: ids of records that have ever been written
  published   \* history: the last version of each record memory has shown

storeVars == <<mem, disk, up, now, issued, published>>

-----------------------------------------------------------------------------
(* Records.  An id that is not stored has the record Absent.               *)

RecordState == States \cup {"absent"}

Record == [state : RecordState, rev : Nat, scope : Scopes \cup {None},
           key : Keys \cup {None}, print : Prints \cup {None}, bound : BOOLEAN,
           born : Nat, done : Nat, code : Codes \cup {"none", "interrupted"}]

Absent == [state |-> "absent", rev |-> 0, scope |-> None, key |-> None,
           print |-> None, bound |-> FALSE, born |-> 0, done |-> 0, code |-> "none"]

NoRecords == [i \in Ids |-> Absent]

Stored(r)     == r.state # "absent"
IsActive(r)   == r.state \in Active
IsTerminal(r) == r.state \in Terminal

(* IdempotencyBinding::is_live: strictly before expires_at = created + ttl. *)
Live(r, t) == r.bound /\ t < r.born + TTL

(* Invocation::binds_key.                                                  *)
BindsKey(r, s, k, t) ==
  Stored(r) /\ r.scope = s /\ r.key = k /\ Live(r, t)

(* sweep_expired_records keeps a terminal record while                     *)
(* completed_at > now - retention.                                         *)
Expired(r, t) == IsTerminal(r) /\ r.done + Retention <= t

Bug_SweepsUnfinished(recs, t) ==
  [i \in Ids |-> IF Stored(recs[i]) /\ recs[i].born + Retention <= t
                   THEN Absent ELSE recs[i]]

Bug_SweepsSinceCreation(recs, t) ==
  [i \in Ids |-> IF IsTerminal(recs[i]) /\ recs[i].born + Retention <= t
                   THEN Absent ELSE recs[i]]

Sweep(recs, t) == [i \in Ids |-> IF Expired(recs[i], t) THEN Absent ELSE recs[i]]

Bug_DropsAtLastTick(recs, t) ==
  [i \in Ids |-> [recs[i] EXCEPT !.bound = Live(recs[i], t + 1)]]

DropBindings(recs, t) ==
  [i \in Ids |-> [recs[i] EXCEPT !.bound = Live(recs[i], t)]]

ActiveIn(recs, s) == {i \in Ids : IsActive(recs[i]) /\ recs[i].scope = s}
StoredIds(recs)   == {i \in Ids : Stored(recs[i])}

-----------------------------------------------------------------------------
(* Writes.  `persist` replaces the file, then `*records = next` publishes. *)

Show(recs) == [i \in Ids |-> IF Stored(recs[i]) THEN recs[i] ELSE published[i]]

Bug_PublishBeforePersist(next) ==
  /\ up' = TRUE
  /\ mem' = next
  /\ disk' \in {disk, next}
  /\ issued' = issued \cup StoredIds(next)
  /\ published' = Show(next)

Commit(next) ==
  /\ up' = TRUE
  /\ mem' = next
  /\ disk' = next
  /\ issued' = issued \cup StoredIds(next)
  /\ published' = Show(next)

CrashAfterReplace(next) ==
  /\ up' = FALSE
  /\ mem' = NoRecords
  /\ disk' = next
  /\ issued' = issued \cup StoredIds(next)
  /\ UNCHANGED published

Write(next) == (Commit(next) \/ CrashAfterReplace(next)) /\ UNCHANGED now

-----------------------------------------------------------------------------
(* create_idempotent_for_claims.                                           *)

NewRecord(s, k, p) ==
  [state |-> "queued", rev |-> 1, scope |-> s, key |-> k, print |-> p,
   bound |-> (k # None), born |-> now, done |-> 0, code |-> "none"]

(* The records a create under key k would replay or conflict with.         *)
Bound(s, k) == {i \in Ids : k # None /\ BindsKey(mem[i], s, k, now)}

Bug_NoLookupUnderLock(s, k, p) ==
  IF Cardinality(ActiveIn(mem, s)) >= MaxActive THEN "too_many_active"
  ELSE IF Cardinality(StoredIds(Sweep(mem, now))) >= MaxStored THEN "store_full"
  ELSE "created"

Bug_CapOffByOne(s, k, p) ==
  IF Bound(s, k) # {} THEN "replayed"
  ELSE IF Cardinality(ActiveIn(mem, s)) > MaxActive THEN "too_many_active"
  ELSE IF Cardinality(StoredIds(Sweep(mem, now))) >= MaxStored THEN "store_full"
  ELSE "created"

CreateOutcome(s, k, p) ==
  IF Bound(s, k) # {}
    THEN IF \E i \in Bound(s, k) : mem[i].print = p THEN "replayed" ELSE "conflict"
  ELSE IF Cardinality(ActiveIn(mem, s)) >= MaxActive THEN "too_many_active"
  ELSE IF Cardinality(StoredIds(Sweep(mem, now))) >= MaxStored THEN "store_full"
  ELSE "created"

CreatedRecords(i, s, k, p) ==
  [DropBindings(Sweep(mem, now), now) EXCEPT ![i] = NewRecord(s, k, p)]

Create(i, s, k, p) ==
  /\ up
  /\ i \notin issued
  /\ CreateOutcome(s, k, p) = "created"
  /\ Write(CreatedRecords(i, s, k, p))

-----------------------------------------------------------------------------
(* transition_outcome_for_claims.  `expected` is the If-Match revision, 0  *)
(* when the caller sent none.                                              *)

TransitionOutcome(i, expected, next, code) ==
  IF ~Stored(mem[i]) THEN "not_found"
  ELSE IF mem[i].state = next THEN "unchanged"
  ELSE IF expected # 0 /\ expected # mem[i].rev THEN "revision_conflict"
  ELSE IF ~PermitsWith(mem[i].state, next, code) THEN "illegal_transition"
  ELSE "changed"

Moved(r, next, code) ==
  [r EXCEPT !.state = next, !.rev = @ + 1,
            !.done = IF next \in Terminal THEN now ELSE @,
            !.code = IF code = "none" THEN @ ELSE code]

Transition(i, expected, next, code) ==
  /\ up
  /\ TransitionOutcome(i, expected, next, code) = "changed"
  /\ Write([mem EXCEPT ![i] = Moved(@, next, code)])

-----------------------------------------------------------------------------
(* sweep_expired: nothing to remove, nothing written.                      *)
SweepExpired ==
  /\ up
  /\ Sweep(mem, now) # mem
  /\ Write(Sweep(mem, now))

-----------------------------------------------------------------------------
(* open_with_config.  Every unfinished record fails as `interrupted`, then *)
(* the sweeps run; the file is rewritten only when something changed, and  *)
(* a failed rewrite is a failed start (a stuttering step: still down).     *)

Bug_InterruptKeepsRevision(r) ==
  IF IsActive(r)
    THEN [r EXCEPT !.state = "failed", !.done = now, !.code = "interrupted"]
    ELSE r

Bug_InterruptsFinished(r) ==
  IF Stored(r) /\ r.state # "failed"
    THEN [r EXCEPT !.state = "failed", !.rev = @ + 1, !.done = now, !.code = "interrupted"]
    ELSE r

Interrupted(r) ==
  IF IsActive(r)
    THEN [r EXCEPT !.state = "failed", !.rev = @ + 1, !.done = now, !.code = "interrupted"]
    ELSE r

Interrupt(recs) == [i \in Ids |-> Interrupted(recs[i])]

Recovered(recs) == DropBindings(Sweep(Interrupt(recs), now), now)

Open == ~up /\ Write(Recovered(disk))

(* The process dies outside a write.                                       *)
Crash ==
  /\ up
  /\ up' = FALSE
  /\ mem' = NoRecords
  /\ UNCHANGED <<disk, now, issued, published>>

Tick ==
  /\ now < MaxTime
  /\ now' = now + 1
  /\ UNCHANGED <<mem, disk, up, issued, published>>

-----------------------------------------------------------------------------
StoreInit ==
  /\ mem = NoRecords /\ disk = NoRecords
  /\ up = TRUE
  /\ now = 0
  /\ issued = {}
  /\ published = NoRecords

CreateAny ==
  \E i \in Ids, s \in Scopes :
    \/ Create(i, s, None, None)
    \/ \E k \in Keys, p \in Prints : Create(i, s, k, p)

(* Every caller attaches an error to a failure and to nothing else.        *)
TransitionAny ==
  \E i \in Ids, next \in States :
    \E code \in IF next = "failed" THEN Codes ELSE {"none"}, expected \in {0, mem[i].rev} :
      Transition(i, expected, next, code)

StoreNext ==
  \/ CreateAny \/ TransitionAny \/ SweepExpired
  \/ Open \/ Crash \/ Tick

StoreSpec == StoreInit /\ [][StoreNext]_storeVars

-----------------------------------------------------------------------------
(* Properties.                                                             *)

(* The shape of the two copies and of the histories.                       *)
StoreTypeOK ==
  /\ mem \in [Ids -> Record] /\ disk \in [Ids -> Record]
  /\ up \in BOOLEAN /\ now \in Nat
  /\ issued \in SUBSET Ids
  /\ published \in [Ids -> Record]

(* A running process holds in memory exactly what a restart would read, so *)
(* nothing a caller has seen can be undone by a crash at any later point:  *)
(* `persist` comes before `*records = next` in every write.                *)
MemoryIsDurable == up => mem = disk

(* While an Idempotency-Key is live, at most one invocation was ever shown *)
(* under it: two records created under one key in one scope are at least   *)
(* one TTL apart, across restarts and sweeps (docs/29 section 6).          *)
OneInvocationPerLiveKey ==
  \A i, j \in Ids :
    /\ i # j /\ Stored(published[i]) /\ Stored(published[j])
    /\ published[i].key # None /\ published[i].key = published[j].key
    /\ published[i].scope = published[j].scope
    => \/ published[i].born + TTL <= published[j].born
       \/ published[j].born + TTL <= published[i].born

(* A replay never meets a swept invocation: while the key of a shown       *)
(* record is live, the record and its binding are still there.             *)
LiveKeyResolves ==
  up => \A i \in Ids :
          Stored(published[i]) /\ published[i].key # None
            /\ now < published[i].born + TTL
          => BindsKey(mem[i], published[i].scope, published[i].key, now)

(* Nobody loses an invocation early: a record once shown is still stored   *)
(* until the retention has passed since the completion it was shown with,  *)
(* or, when it was last shown unfinished (a completion can reach the file  *)
(* in the instant of a crash), since its creation.                         *)
RetentionHonoured ==
  up => \A i \in Ids :
          Stored(published[i]) /\ ~Stored(mem[i]) =>
            LET since == IF IsTerminal(published[i]) THEN published[i].done
                                                    ELSE published[i].born
            IN  since + Retention <= now

(* The cap on unfinished invocations of one scope holds in memory and in   *)
(* the file a restart would read.                                          *)
ActiveCap ==
  \A s \in Scopes : /\ Cardinality(ActiveIn(mem, s)) <= MaxActive
                    /\ Cardinality(ActiveIn(disk, s)) <= MaxActive

(* An ETag names one version: what memory shows of an invocation changes   *)
(* state or error only together with a higher revision, even across a      *)
(* crash between the file replace and the publish.                         *)
EtagNamesOneVersion ==
  [][\A i \in Ids :
       Stored(published[i]) =>
         \/ published'[i].rev > published[i].rev
         \/ /\ published'[i].rev = published[i].rev
            /\ published'[i].state = published[i].state
            /\ published'[i].code = published[i].code]_storeVars

(* "Terminal results never change": what was shown as finished keeps its   *)
(* outcome, error code and completion time, whatever is retried, crashes   *)
(* or restarts afterwards.                                                 *)
OutcomeStands ==
  [][\A i \in Ids :
       IsTerminal(published[i]) =>
         /\ published'[i].state = published[i].state
         /\ published'[i].code = published[i].code
         /\ published'[i].done = published[i].done]_storeVars

(* The file alone implements the contract: a record is retired from the    *)
(* tick its retention ends (a sweep may then remove it), a key is held     *)
(* while its binding is live.                                              *)
Phase == [i \in Ids |->
            IF ~Stored(disk[i])
              THEN IF i \in issued THEN "retired" ELSE "absent"
              ELSE IF Expired(disk[i], now) THEN "retired" ELSE disk[i].state]

Holders == [k \in Scopes \X Keys |-> {i \in Ids : BindsKey(disk[i], k[1], k[2], now)}]

Contract == INSTANCE InvocationContract
              WITH Slots <- Scopes \X Keys, phase <- Phase, holders <- Holders

KeepsContract == Contract!Spec
=============================================================================
