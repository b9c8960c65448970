----------------------- MODULE InvocationContractProofs -----------------------
(***************************************************************************)
(* The store keeps the contract of the invocations API: what is on file    *)
(* implements InvocationContract.  A create accepts, a transition advances,*)
(* a restart interrupts, the passing of time elapses; sweeps and crashes   *)
(* are invisible, because a record is retired from the tick its retention  *)
(* ends, whether or not it has been removed yet.                           *)
(***************************************************************************)
EXTENDS InvocationStoreHistoryProofs

(* Phase and Holders of any set of records.                                *)
PhaseIn(recs, iss, t) ==
  [i \in Ids |-> IF ~Stored(recs[i])
                   THEN IF i \in iss THEN "retired" ELSE "absent"
                   ELSE IF Expired(recs[i], t) THEN "retired" ELSE recs[i].state]

HoldersIn(recs, t) ==
  [k \in Scopes \X Keys |-> {i \in Ids : BindsKey(recs[i], k[1], k[2], t)}]

(* The contract's variables after a write.                                 *)
LEMMA WriteMaps ==
  ASSUME NEW next, Write(next)
  PROVE  /\ Phase = PhaseIn(disk, issued, now) /\ Holders = HoldersIn(disk, now)
         /\ Phase' = PhaseIn(next, issued \cup StoredIds(next), now)
         /\ Holders' = HoldersIn(next, now)
  <1>1. disk' = next /\ now' = now /\ issued' = issued \cup StoredIds(next)
    BY WriteEffect
  <1> QED
    BY <1>1 DEF Phase, Holders, PhaseIn, HoldersIn, Stored, Expired, IsTerminal,
                BindsKey, Live

(* Any later version that is bound as far as time allows binds the same    *)
(* slots; so does one that is swept, because its key has lapsed.           *)
LEMMA BindsTheSame ==
  ASSUME BasicInv, KeysInv, NEW i \in Ids, NEW r \in Record,
         \/ Expired(disk[i], now) /\ ~Stored(r)
         \/ /\ Stored(r) <=> Stored(disk[i])
            /\ r.scope = disk[i].scope /\ r.key = disk[i].key /\ r.born = disk[i].born
            /\ r.bound = disk[i].bound \/ r.bound = Live(disk[i], now),
         NEW s \in Scopes, NEW k \in Keys
  PROVE  BindsKey(r, s, k, now) <=> BindsKey(disk[i], s, k, now)
  <1>0. /\ disk[i] \in Record /\ now \in Nat
        /\ TTL \in Nat /\ Retention \in Nat /\ TTL <= Retention
    BY StoreConfig DEF BasicInv, StoreTypeOK
  <1>1. CASE Expired(disk[i], now) /\ ~Stored(r)
    <2>1. Stored(disk[i]) /\ IsTerminal(disk[i]) /\ disk[i].done + Retention <= now
      BY <1>1 DEF Expired, Stored, IsTerminal, Terminal
    <2>2. disk[i].born <= disk[i].done
      BY <2>1 DEF KeysInv, Versions, Aged
    <2>3. disk[i].born \in Nat /\ disk[i].done \in Nat
      BY <1>0 DEF Record
    <2>4. ~(now < disk[i].born + TTL)
      BY <1>0, <2>1, <2>2, <2>3
    <2> QED
      BY <1>1, <2>4 DEF BindsKey, Live
  <1>2. CASE ~(Expired(disk[i], now) /\ ~Stored(r))
    BY <1>0, <1>2 DEF BindsKey, Live, Record
  <1> QED
    BY <1>1, <1>2

(* At most one invocation holds a slot.                                    *)
LEMMA OneHolder ==
  ASSUME BasicInv, KeysInv, NEW k \in Scopes \X Keys, NEW i \in Ids, NEW j \in Ids,
         BindsKey(disk[i], k[1], k[2], now), BindsKey(disk[j], k[1], k[2], now)
  PROVE  i = j
  <1> SUFFICES ASSUME i # j PROVE FALSE
    OBVIOUS
  <1>0. /\ disk[i] \in Record /\ disk[j] \in Record /\ now \in Nat /\ TTL \in Nat
    BY StoreConfig DEF BasicInv, StoreTypeOK
  <1>1. Apart(disk[i], disk[j]) /\ Aged(disk[i]) /\ Aged(disk[j])
    BY DEF KeysInv, Versions
  <1>2. k[1] \in Scopes /\ k[2] \in Keys /\ k[2] # None
    BY NoneIsNoValue
  <1>3. disk[i].born \in Nat /\ disk[j].born \in Nat
    BY <1>0 DEF Record
  <1> QED
    BY <1>0, <1>1, <1>2, <1>3 DEF BindsKey, Live, Apart, Aged

-----------------------------------------------------------------------------
(* One lemma per kind of step.                                             *)

(* A create accepts the request under its key, or under no slot.           *)
LEMMA CreateAccepts ==
  ASSUME BasicInv, HistoryInv, KeysInv, up,
         NEW i \in Ids, NEW s \in Scopes,
         NEW k \in Keys \cup {None}, NEW p \in Prints \cup {None},
         WritesCreate(i, s, k, p)
  PROVE  Contract!Next
  <1> DEFINE next == CreatedRecords(i, s, k, p)
             iss  == issued \cup StoredIds(next)
             K    == IF k = None THEN {} ELSE {<<s, k>>}
  <1>0. /\ mem = disk /\ StoreTypeOK /\ i \notin issued
        /\ CreateOutcome(s, k, p) = "created" /\ Write(next)
    BY DEF BasicInv, MemoryIsDurable, WritesCreate
  <1>1. /\ next \in Records /\ disk \in Records /\ now \in Nat
        /\ TTL \in Nat /\ 1 <= TTL
    BY <1>0, NewRecordsType, StoreConfig DEF StoreTypeOK, Records
  <1>2. next[i] = NewRecord(s, k, p)
    BY DEF CreatedRecords, DropBindings
  <1>3. ~Stored(disk[i])
    BY <1>0 DEF HistoryInv
  <1>4. \A j \in Ids \ {i} : \/ Expired(disk[j], now) /\ ~Stored(next[j])
                             \/ SameButBound(next[j], disk[j]) /\ next[j].bound = Live(disk[j], now)
    BY <1>0, CreatedAt
  <1>5. ASSUME NEW j \in Ids \ {i}
        PROVE  PhaseIn(next, iss, now)[j] = PhaseIn(disk, issued, now)[j]
    <2>1. CASE Expired(disk[j], now) /\ ~Stored(next[j])
      <3>1. Stored(disk[j]) /\ j \in issued
        BY <2>1 DEF Expired, IsTerminal, Terminal, Stored, HistoryInv
      <3> QED
        BY <2>1, <3>1 DEF PhaseIn
    <2>2. CASE SameButBound(next[j], disk[j])
      <3>1. /\ Stored(next[j]) <=> Stored(disk[j])
            /\ Expired(next[j], now) <=> Expired(disk[j], now)
            /\ next[j].state = disk[j].state
        BY <2>2 DEF SameButBound, Stored, Expired, IsTerminal
      <3>2. ~Stored(next[j]) => (j \in iss <=> j \in issued)
        BY DEF StoredIds
      <3> QED
        BY <3>1, <3>2 DEF PhaseIn
    <2> QED
      BY <1>4, <2>1, <2>2
  <1>6. PhaseIn(disk, issued, now)[i] = "absent" /\ PhaseIn(next, iss, now)[i] = "queued"
    BY <1>0, <1>2, <1>3 DEF PhaseIn, NewRecord, Stored, Expired, IsTerminal, Terminal
  <1>7. PhaseIn(next, iss, now) = [PhaseIn(disk, issued, now) EXCEPT ![i] = "queued"]
    BY <1>5, <1>6 DEF PhaseIn
  <1>8. ASSUME NEW c \in Scopes \X Keys, NEW j \in Ids \ {i}
        PROVE  BindsKey(next[j], c[1], c[2], now) <=> BindsKey(disk[j], c[1], c[2], now)
    <2>1. next[j] \in Record
      BY <1>1 DEF Records
    <2> QED
      BY <1>4, <2>1, BindsTheSame DEF SameButBound, Stored
  <1>9. ASSUME NEW c \in Scopes \X Keys
        PROVE  /\ BindsKey(next[i], c[1], c[2], now) <=> c \in K
               /\ ~BindsKey(disk[i], c[1], c[2], now)
    <2>1. BindsKey(next[i], c[1], c[2], now) <=> c[1] = s /\ c[2] = k /\ k # None
      <3>1. /\ next[i].state = "queued" /\ next[i].scope = s /\ next[i].key = k
            /\ next[i].born = now /\ next[i].bound = (k # None)
        BY <1>2 DEF NewRecord
      <3>2. now < now + TTL
        BY <1>1
      <3> HIDE DEF next
      <3> QED
        BY <3>1, <3>2 DEF BindsKey, Stored, Live
    <2>2. c = <<c[1], c[2]>> /\ c[2] # None
      BY NoneIsNoValue
    <2> QED
      BY <1>3, <2>1, <2>2 DEF BindsKey
  <1>10. \A c \in K : c \in Scopes \X Keys /\ HoldersIn(disk, now)[c] = {}
    BY <1>0 DEF HoldersIn, CreateOutcome, Bound
  <1>11. HoldersIn(next, now) =
           [c \in Scopes \X Keys |-> IF c \in K THEN {i} ELSE HoldersIn(disk, now)[c]]
    <2>1. ASSUME NEW c \in Scopes \X Keys
          PROVE  HoldersIn(next, now)[c] = IF c \in K THEN {i} ELSE HoldersIn(disk, now)[c]
      <3>0. /\ HoldersIn(next, now)[c] = {j \in Ids : BindsKey(next[j], c[1], c[2], now)}
            /\ HoldersIn(disk, now)[c] = {j \in Ids : BindsKey(disk[j], c[1], c[2], now)}
        BY DEF HoldersIn
      <3> HIDE DEF next, K
      <3>1. CASE c \in K
        <4>1. \A j \in Ids \ {i} : ~BindsKey(next[j], c[1], c[2], now)
          BY <1>8, <1>10, <3>0, <3>1
        <4> QED
          BY <1>9, <3>0, <3>1, <4>1
      <3>2. CASE c \notin K
        BY <1>8, <1>9, <3>0, <3>2
      <3> QED
        BY <3>1, <3>2
    <2> QED
      BY <2>1 DEF HoldersIn
  <1>12. Contract!Accept(i, K)
    BY <1>0, <1>6, <1>7, <1>10, <1>11, WriteMaps DEF Contract!Accept
  <1> QED
    BY <1>12 DEF Contract!Next

(* A transition advances one invocation.                                   *)
LEMMA MoveAdvances ==
  ASSUME BasicInv, KeysInv, up,
         NEW i \in Ids, NEW next \in States, NEW code \in Codes \cup {"none"},
         WritesMove(i, next, code)
  PROVE  Contract!Next
  <1> DEFINE recs == [mem EXCEPT ![i] = Moved(@, next, code)]
             iss  == issued \cup StoredIds(recs)
  <1>0. /\ mem = disk /\ StoreTypeOK /\ IsActive(disk[i])
        /\ PermitsWith(disk[i].state, next, code) /\ Write(recs)
    BY DEF BasicInv, MemoryIsDurable, WritesMove
  <1>1. recs \in Records /\ disk \in Records /\ now \in Nat /\ Retention \in Nat /\ 1 <= Retention
    BY <1>0, NewRecordsType, StoreConfig DEF StoreTypeOK, Records
  <1>2. recs[i] = Moved(disk[i], next, code) /\ \A j \in Ids \ {i} : recs[j] = disk[j]
    BY <1>0, <1>1 DEF Records
  <1>3. /\ recs[i].state = next
        /\ recs[i].scope = disk[i].scope /\ recs[i].key = disk[i].key
        /\ recs[i].born = disk[i].born /\ recs[i].bound = disk[i].bound
        /\ next \in Terminal => recs[i].done = now
    <2>1. disk[i] \in Record
      BY <1>1 DEF Records
    <2> HIDE DEF recs
    <2> QED
      BY <1>2, <2>1 DEF Moved, Record
  <1>4. Stored(disk[i]) /\ Stored(recs[i]) /\ ~Expired(disk[i], now) /\ ~Expired(recs[i], now)
    BY <1>0, <1>1, <1>3 DEF Stored, Expired, IsActive, IsTerminal, Active, Terminal, States
  <1>5. PhaseIn(recs, iss, now) = [PhaseIn(disk, issued, now) EXCEPT ![i] = next]
    <2>1. ASSUME NEW j \in Ids \ {i}
          PROVE  PhaseIn(recs, iss, now)[j] = PhaseIn(disk, issued, now)[j]
      BY <1>2 DEF PhaseIn, StoredIds
    <2>2. PhaseIn(recs, iss, now)[i] = next
      BY <1>3, <1>4 DEF PhaseIn
    <2> QED
      BY <2>1, <2>2 DEF PhaseIn
  <1>6. PhaseIn(disk, issued, now)[i] = disk[i].state
    BY <1>4 DEF PhaseIn
  <1>7. HoldersIn(recs, now) = HoldersIn(disk, now)
    <2>1. ASSUME NEW c \in Scopes \X Keys, NEW j \in Ids
          PROVE  BindsKey(recs[j], c[1], c[2], now) <=> BindsKey(disk[j], c[1], c[2], now)
      BY <1>2, <1>3, <1>4 DEF BindsKey, Live
    <2> QED
      BY <2>1 DEF HoldersIn
  <1>8. Contract!Permits(disk[i].state, next) \/ (disk[i].state = "queued" /\ next = "failed")
    BY <1>0 DEF PermitsWith, Permits, Successors, Contract!Permits, Contract!Successors
  <1>9. next \in Contract!States
    BY DEF States, Active, Terminal, Contract!States, Contract!Active, Contract!Terminal
  <1>10. Contract!Advance(i, next)
    BY <1>0, <1>5, <1>6, <1>7, <1>8, WriteMaps DEF Contract!Advance
  <1> QED
    BY <1>9, <1>10 DEF Contract!Next

(* A sweep removes what is retired already.                                *)
LEMMA SweepStutters ==
  ASSUME BasicInv, HistoryInv, KeysInv, up, Write(Sweep(mem, now))
  PROVE  UNCHANGED <<Phase, Holders>>
  <1> DEFINE next == Sweep(disk, now)
             iss  == issued \cup StoredIds(next)
  <1>0. mem = disk /\ StoreTypeOK /\ Write(next)
    BY DEF BasicInv, MemoryIsDurable
  <1>1. next \in Records /\ disk \in Records /\ now \in Nat
    BY <1>0, NewRecordsType DEF StoreTypeOK, Records
  <1>2. ASSUME NEW j \in Ids
        PROVE  \/ Expired(disk[j], now) /\ ~Stored(next[j])
               \/ next[j] = disk[j]
    BY <1>1, SweepAt DEF Stored, Absent
  <1>3. ASSUME NEW j \in Ids
        PROVE  PhaseIn(next, iss, now)[j] = PhaseIn(disk, issued, now)[j]
    <2>1. CASE Expired(disk[j], now) /\ ~Stored(next[j])
      <3>1. Stored(disk[j]) /\ j \in issued
        BY <2>1 DEF Expired, IsTerminal, Terminal, Stored, HistoryInv
      <3> QED
        BY <2>1, <3>1 DEF PhaseIn
    <2>2. CASE next[j] = disk[j]
      BY <2>2 DEF PhaseIn, StoredIds
    <2> QED
      BY <1>2, <2>1, <2>2
  <1>4. ASSUME NEW c \in Scopes \X Keys, NEW j \in Ids
        PROVE  BindsKey(next[j], c[1], c[2], now) <=> BindsKey(disk[j], c[1], c[2], now)
    <2>1. next[j] \in Record
      BY <1>1 DEF Records
    <2> QED
      BY <1>2, <2>1, BindsTheSame
  <1>5. PhaseIn(next, iss, now) = PhaseIn(disk, issued, now)
    BY <1>3 DEF PhaseIn
  <1>6. HoldersIn(next, now) = HoldersIn(disk, now)
    BY <1>4 DEF HoldersIn
  <1> QED
    BY <1>0, <1>5, <1>6, WriteMaps

(* A restart interrupts everything that was unfinished.                    *)
LEMMA OpenInterrupts ==
  ASSUME BasicInv, HistoryInv, KeysInv, Write(Recovered(disk))
  PROVE  Contract!Next
  <1> DEFINE next == Recovered(disk)
             iss  == issued \cup StoredIds(next)
  <1>0. StoreTypeOK
    BY DEF BasicInv
  <1>1. /\ next \in Records /\ disk \in Records /\ now \in Nat
        /\ Retention \in Nat /\ 1 <= Retention
    BY <1>0, NewRecordsType, StoreConfig DEF StoreTypeOK, Records
  <1>2. ASSUME NEW j \in Ids, IsActive(disk[j])
        PROVE  /\ next[j].state = "failed" /\ next[j].done = now
               /\ next[j].scope = disk[j].scope /\ next[j].key = disk[j].key
               /\ next[j].born = disk[j].born /\ next[j].bound = Live(disk[j], now)
    <2> DEFINE q == Interrupted(disk[j])
    <2>1. /\ q.state = "failed" /\ q.done = now /\ q.scope = disk[j].scope
          /\ q.key = disk[j].key /\ q.born = disk[j].born /\ q.bound = disk[j].bound
      BY <1>1, <1>2 DEF Interrupted, Record, Records
    <2>2. ~Expired(q, now)
      BY <1>1, <2>1 DEF Expired
    <2>3. SameButBound(next[j], q) /\ next[j].bound = Live(q, now)
      BY <1>0, <2>2, RecoveredAt
    <2> QED
      BY <2>1, <2>3 DEF SameButBound, Live
  <1>3. ASSUME NEW j \in Ids, ~IsActive(disk[j])
        PROVE  \/ Expired(disk[j], now) /\ ~Stored(next[j])
               \/ SameButBound(next[j], disk[j]) /\ next[j].bound = Live(disk[j], now)
    <2>1. Interrupted(disk[j]) = disk[j]
      BY <1>3 DEF Interrupted
    <2> QED
      BY <1>0, <2>1, RecoveredAt
  <1>4. ASSUME NEW j \in Ids
        PROVE  PhaseIn(next, iss, now)[j] =
                 IF PhaseIn(disk, issued, now)[j] \in Active
                   THEN "failed" ELSE PhaseIn(disk, issued, now)[j]
    <2>1. CASE IsActive(disk[j])
      <3>1. Stored(next[j]) /\ ~Expired(next[j], now) /\ next[j].state = "failed"
        BY <1>1, <1>2, <2>1 DEF Stored, Expired
      <3>2. Stored(disk[j]) /\ ~Expired(disk[j], now) /\ disk[j].state \in Active
        BY <2>1 DEF IsActive, Stored, Expired, IsTerminal, Active, Terminal
      <3> QED
        BY <3>1, <3>2 DEF PhaseIn
    <2>2. CASE ~IsActive(disk[j])
      <3>0. PhaseIn(disk, issued, now)[j] \notin Active
        BY <2>2 DEF PhaseIn, IsActive, Active
      <3>1. CASE Expired(disk[j], now) /\ ~Stored(next[j])
        <4>1. Stored(disk[j]) /\ j \in issued
          BY <3>1 DEF Expired, IsTerminal, Terminal, Stored, HistoryInv
        <4> QED
          BY <3>0, <3>1, <4>1 DEF PhaseIn
      <3>2. CASE SameButBound(next[j], disk[j])
        <4>1. /\ Stored(next[j]) <=> Stored(disk[j])
              /\ Expired(next[j], now) <=> Expired(disk[j], now)
              /\ next[j].state = disk[j].state
          BY <3>2 DEF SameButBound, Stored, Expired, IsTerminal
        <4>2. ~Stored(next[j]) => (j \in iss <=> j \in issued)
          BY DEF StoredIds
        <4> QED
          BY <3>0, <4>1, <4>2 DEF PhaseIn
      <3> QED
        BY <1>3, <2>2, <3>1, <3>2
    <2> QED
      BY <2>1, <2>2
  <1>5. PhaseIn(next, iss, now) =
          [j \in Ids |-> IF PhaseIn(disk, issued, now)[j] \in Active
                           THEN "failed" ELSE PhaseIn(disk, issued, now)[j]]
    BY <1>4 DEF PhaseIn
  <1>6. ASSUME NEW c \in Scopes \X Keys, NEW j \in Ids
        PROVE  BindsKey(next[j], c[1], c[2], now) <=> BindsKey(disk[j], c[1], c[2], now)
    <2>1. next[j] \in Record
      BY <1>1 DEF Records
    <2>2. CASE IsActive(disk[j])
      <3>1. Stored(next[j]) /\ Stored(disk[j])
        BY <1>2, <2>2 DEF Stored, IsActive, Active
      <3> QED
        BY <1>2, <2>1, <2>2, <3>1, BindsTheSame
    <2>3. CASE ~IsActive(disk[j])
      BY <1>3, <2>1, <2>3, BindsTheSame DEF SameButBound, Stored
    <2> QED
      BY <2>2, <2>3
  <1>7. HoldersIn(next, now) = HoldersIn(disk, now)
    BY <1>6 DEF HoldersIn
  <1>8. Contract!Active = Active
    BY DEF Active, Contract!Active
  <1>9. Contract!Interrupt
    BY <1>5, <1>7, <1>8, WriteMaps DEF Contract!Interrupt
  <1> QED
    BY <1>9 DEF Contract!Next

(* Time passes: keys lapse first, retentions end after that.               *)
LEMMA TickElapses ==
  ASSUME BasicInv, HistoryInv, KeysInv, Tick
  PROVE  Contract!Next
  <1> DEFINE R == {i \in Ids : Stored(disk[i]) /\ ~Expired(disk[i], now)
                                 /\ Expired(disk[i], now + 1)}
             K == {c \in Scopes \X Keys : HoldersIn(disk, now + 1)[c] = {}}
  <1>0. /\ disk' = disk /\ issued' = issued /\ now' = now + 1 /\ now \in Nat
        /\ TTL \in Nat /\ Retention \in Nat /\ TTL <= Retention
        /\ \A i \in Ids : disk[i] \in Record
    BY StoreConfig DEF Tick, BasicInv, StoreTypeOK
  <1>1. /\ Phase = PhaseIn(disk, issued, now) /\ Holders = HoldersIn(disk, now)
        /\ Phase' = PhaseIn(disk, issued, now + 1) /\ Holders' = HoldersIn(disk, now + 1)
    BY <1>0 DEF Phase, Holders, PhaseIn, HoldersIn, Stored, Expired, IsTerminal,
                BindsKey, Live
  <1>2. ASSUME NEW i \in Ids
        PROVE  /\ disk[i].born \in Nat /\ disk[i].done \in Nat
               /\ Expired(disk[i], now) => Expired(disk[i], now + 1)
               /\ Live(disk[i], now + 1) => Live(disk[i], now)
    <2>1. disk[i].born \in Nat /\ disk[i].done \in Nat
      BY <1>0 DEF Record
    <2> QED
      BY <1>0, <2>1 DEF Expired, Live
  <1>3. PhaseIn(disk, issued, now + 1) =
          [i \in Ids |-> IF i \in R THEN "retired" ELSE PhaseIn(disk, issued, now)[i]]
    <2>1. ASSUME NEW i \in Ids
          PROVE  PhaseIn(disk, issued, now + 1)[i] =
                   IF i \in R THEN "retired" ELSE PhaseIn(disk, issued, now)[i]
      BY <1>2 DEF PhaseIn
    <2> QED
      BY <2>1 DEF PhaseIn
  <1>4. ASSUME NEW c \in Scopes \X Keys
        PROVE  HoldersIn(disk, now + 1)[c] = IF c \in K THEN {} ELSE HoldersIn(disk, now)[c]
    <2>1. CASE c \in K
      BY <2>1
    <2>2. CASE c \notin K
      <3>1. PICK i \in Ids : BindsKey(disk[i], c[1], c[2], now + 1)
        BY <2>2 DEF HoldersIn
      <3>2. BindsKey(disk[i], c[1], c[2], now)
        BY <1>2, <3>1 DEF BindsKey
      <3>3. \A j \in Ids : BindsKey(disk[j], c[1], c[2], now) => j = i
        BY <3>2, OneHolder
      <3>4. \A j \in Ids : BindsKey(disk[j], c[1], c[2], now + 1)
                             => BindsKey(disk[j], c[1], c[2], now)
        BY <1>2 DEF BindsKey
      <3> QED
        BY <2>2, <3>1, <3>2, <3>3, <3>4 DEF HoldersIn
    <2> QED
      BY <2>1, <2>2
  <1>5. HoldersIn(disk, now + 1) =
          [c \in Scopes \X Keys |-> IF c \in K THEN {} ELSE HoldersIn(disk, now)[c]]
    BY <1>4 DEF HoldersIn
  <1>6. ASSUME NEW i \in R
        PROVE  /\ PhaseIn(disk, issued, now)[i] \in Contract!Terminal
               /\ \A c \in Scopes \X Keys : i \notin HoldersIn(disk, now + 1)[c]
    <2>1. /\ i \in Ids /\ Stored(disk[i]) /\ ~Expired(disk[i], now)
          /\ IsTerminal(disk[i]) /\ disk[i].done + Retention <= now + 1
      BY DEF Expired
    <2>2. disk[i].born <= disk[i].done
      BY <2>1 DEF KeysInv, Versions, Aged
    <2>3. ~(now + 1 < disk[i].born + TTL)
      BY <1>0, <1>2, <2>1, <2>2
    <2> QED
      BY <2>1, <2>3 DEF PhaseIn, HoldersIn, BindsKey, Live, IsTerminal, Terminal,
                        Contract!Terminal
  <1>7. Contract!Elapse(R, K)
    BY <1>1, <1>3, <1>5, <1>6 DEF Contract!Elapse
  <1>8. R \in SUBSET Ids /\ K \in SUBSET (Scopes \X Keys)
    OBVIOUS
  <1> QED
    BY <1>7, <1>8 DEF Contract!Next

-----------------------------------------------------------------------------
(* Every step of the store is a step of the contract or stutters.          *)
LEMMA StepKeepsContract ==
  ASSUME BasicInv, HistoryInv, KeysInv, [StoreNext]_storeVars
  PROVE  [Contract!Next]_(Contract!vars)
  <1>1. CASE \E i \in Ids, s \in Scopes, k \in Keys \cup {None}, p \in Prints \cup {None} :
               WritesCreate(i, s, k, p)
    BY <1>1, CreateAccepts DEF WritesCreate
  <1>2. CASE \E i \in Ids, next \in States, code \in Codes \cup {"none"} :
               WritesMove(i, next, code)
    BY <1>2, MoveAdvances DEF WritesMove
  <1>3. CASE up /\ Write(Sweep(mem, now))
    BY <1>3, SweepStutters DEF Contract!vars
  <1>4. CASE ~up /\ Write(Recovered(disk))
    BY <1>4, OpenInterrupts
  <1>5. CASE Tick
    BY <1>5, TickElapses
  <1>6. CASE UNCHANGED <<disk, issued, now>>
    BY <1>6 DEF Contract!vars, Phase, Holders, Stored, Expired, IsTerminal, BindsKey, Live
  <1>7. CASE Crash \/ UNCHANGED storeVars
    BY <1>6, <1>7 DEF Crash, storeVars
  <1>8. StoreTypeOK
    BY DEF BasicInv
  <1> QED
    BY <1>1, <1>2, <1>3, <1>4, <1>5, <1>7, <1>8, WritesAndOthers

(* An empty store is an empty contract.                                    *)
LEMMA InitKeepsContract == StoreInit => Contract!Init
  <1> SUFFICES ASSUME StoreInit PROVE Contract!Init
    OBVIOUS
  <1>1. \A i \in Ids : ~Stored(disk[i]) /\ i \notin issued
    BY DEF StoreInit, NoRecords, Absent, Stored
  <1> QED
    BY <1>1 DEF Contract!Init, Phase, Holders, BindsKey

(* The store keeps the contract of the invocations API.                    *)
THEOREM StoreKeepsContract == StoreSpec => KeepsContract
  <1>1. StoreInit => Contract!Init
    BY InitKeepsContract
  <1>2. BasicInv /\ HistoryInv /\ KeysInv /\ [StoreNext]_storeVars
          => [Contract!Next]_(Contract!vars)
    BY StepKeepsContract
  <1> QED
    BY <1>1, <1>2, StoreInvariant, StoreHistory, StoreKeys, PTL
    DEF StoreSpec, KeepsContract, Contract!Spec
=============================================================================
