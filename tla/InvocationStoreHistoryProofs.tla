--------------------- MODULE InvocationStoreHistoryProofs ---------------------
(***************************************************************************)
(* What the callers of the store may rely on over time: versions, outcomes,*)
(* retention and idempotency keys.  Memory and file of InvocationStore are *)
(* related to `published`, what memory has shown, which a crash between    *)
(* the file replace and the publish leaves one version behind.             *)
(*                                                                         *)
(* Every write Evolves the file: each record of it is succeeded by a       *)
(* version that continues it or goes when its retention is over, and at    *)
(* most one record is fresh.  The invariants are shown from that alone.    *)
(***************************************************************************)
EXTENDS InvocationStoreProofs

(* b is the same version of an invocation as a, or a later one.            *)
Continues(a, b) ==
  /\ b.scope = a.scope /\ b.key = a.key /\ b.born = a.born
  /\ \/ ~IsTerminal(a) /\ a.rev < b.rev /\ b.state # "queued"
     \/ b.rev = a.rev /\ b.state = a.state /\ b.code = a.code /\ b.done = a.done

(* What a write may do to a stored record.                                 *)
Succeeds(a, b) ==
  \/ /\ Stored(b)
     /\ Continues(a, b)
     /\ IsTerminal(b) /\ ~IsTerminal(a) => b.done = now
     /\ a.bound /\ now < a.born + TTL => b.bound
  \/ /\ ~Stored(b)
     /\ IsTerminal(a) /\ a.done + Retention <= now

(* What a write may store under a new id.                                  *)
Fresh(i, r) ==
  /\ i \notin issued
  /\ r.state = "queued" /\ r.rev = 1 /\ r.born = now /\ r.bound = (r.key # None)
  /\ r.key # None => \A j \in Ids : ~BindsKey(disk[j], r.scope, r.key, now)

Added(next) == {i \in Ids : Stored(next[i]) /\ ~Stored(disk[i])}

Evolves(next) ==
  /\ \A i \in Ids : Stored(disk[i]) => Succeeds(disk[i], next[i])
  /\ \A i \in Added(next) : Fresh(i, next[i])
  /\ \A i, j \in Added(next) : i = j

(* Ids are used once, and the file holds the shown version or a later one. *)
HistoryInv ==
  \A i \in Ids :
    /\ Stored(disk[i]) \/ Stored(published[i]) => i \in issued
    /\ Stored(disk[i]) /\ Stored(published[i]) => Continues(published[i], disk[i])

-----------------------------------------------------------------------------
(* Every write evolves the file.                                           *)

(* A record that is only stripped of its binding, if that is over,         *)
(* succeeds itself.                                                        *)
LEMMA SameSucceeds ==
  ASSUME NEW a \in Record, NEW b \in Record, Stored(a), SameButBound(b, a),
         b.bound = a.bound \/ b.bound = Live(a, now)
  PROVE  Succeeds(a, b)
  BY DEF SameButBound, Succeeds, Continues, Stored, Live, IsTerminal, Record

(* create_idempotent_for_claims.                                           *)
LEMMA CreateEvolves ==
  ASSUME StoreTypeOK, HistoryInv, mem = disk,
         NEW i \in Ids, NEW s \in Scopes,
         NEW k \in Keys \cup {None}, NEW p \in Prints \cup {None},
         i \notin issued, CreateOutcome(s, k, p) = "created"
  PROVE  Evolves(CreatedRecords(i, s, k, p))
  <1> DEFINE next == CreatedRecords(i, s, k, p)
  <1>1. next \in Records /\ disk \in Records
    BY NewRecordsType DEF StoreTypeOK, Records
  <1>2. ASSUME NEW j \in Ids \ {i}, Stored(disk[j])
        PROVE  Succeeds(disk[j], next[j])
    <2>1. CASE Expired(disk[j], now) /\ ~Stored(next[j])
      BY <2>1 DEF Expired, Succeeds
    <2>2. CASE SameButBound(next[j], disk[j]) /\ next[j].bound = Live(disk[j], now)
      BY <1>1, <1>2, <2>2, SameSucceeds DEF Records
    <2> QED
      BY <2>1, <2>2, CreatedAt
  <1>3. ASSUME NEW j \in Ids \ {i}, ~Stored(disk[j]) PROVE ~Stored(next[j])
    BY <1>3, CreatedAt DEF SameButBound, Stored
  <1>4. ~Stored(disk[i])
    BY DEF HistoryInv
  <1>5. next[i] = NewRecord(s, k, p)
    BY DEF CreatedRecords, DropBindings
  <1>6. k # None => \A j \in Ids : ~BindsKey(disk[j], s, k, now)
    BY DEF CreateOutcome, Bound
  <1>7. Fresh(i, next[i])
    BY <1>5, <1>6 DEF Fresh, NewRecord, IsTerminal, Terminal
  <1> QED
    BY <1>2, <1>3, <1>4, <1>7 DEF Evolves, Added

(* transition_outcome_for_claims.                                          *)
LEMMA MoveEvolves ==
  ASSUME StoreTypeOK, mem = disk,
         NEW i \in Ids, NEW next \in States \ {"queued"}, NEW code \in Codes \cup {"none"},
         IsActive(mem[i])
  PROVE  Evolves([mem EXCEPT ![i] = Moved(@, next, code)])
  <1> DEFINE recs == [mem EXCEPT ![i] = Moved(@, next, code)]
  <1>1. \A j \in Ids : disk[j] \in Record
    BY DEF StoreTypeOK
  <1>2. recs[i] = Moved(disk[i], next, code) /\ \A j \in Ids \ {i} : recs[j] = disk[j]
    BY DEF StoreTypeOK
  <1>3. Succeeds(disk[i], recs[i])
    BY <1>1, <1>2 DEF Moved, Succeeds, Continues, Stored, IsActive, IsTerminal, Active,
                      Terminal, States, Record
  <1>4. ASSUME NEW j \in Ids \ {i}, Stored(disk[j]) PROVE Succeeds(disk[j], recs[j])
    BY <1>1, <1>2, <1>4, SameSucceeds DEF SameButBound
  <1>5. Stored(disk[i])
    BY DEF IsActive, Stored, Active
  <1>6. Added(recs) = {}
    BY <1>2, <1>5 DEF Added
  <1> QED
    BY <1>3, <1>4, <1>6 DEF Evolves

(* sweep_expired.                                                          *)
LEMMA SweepEvolves ==
  ASSUME StoreTypeOK, mem = disk
  PROVE  Evolves(Sweep(mem, now))
  <1>1. disk \in Records /\ now \in Nat
    BY DEF StoreTypeOK, Records
  <1>2. ASSUME NEW j \in Ids, Stored(disk[j]) PROVE Succeeds(disk[j], Sweep(disk, now)[j])
    <2>1. CASE Expired(disk[j], now)
      BY <1>1, <2>1, SweepAt DEF Expired, Succeeds, Stored, Absent
    <2>2. CASE ~Expired(disk[j], now)
      BY <1>1, <1>2, <2>2, SweepAt, SameSucceeds DEF SameButBound, Records
    <2> QED
      BY <2>1, <2>2
  <1>3. Added(Sweep(disk, now)) = {}
    BY <1>1, SweepAt DEF Added, Stored, Absent
  <1> QED
    BY <1>2, <1>3 DEF Evolves

(* open_with_config: what recovery fails has just ended, so no record that *)
(* was unfinished is swept by it.                                          *)
LEMMA RecoveredEvolves ==
  ASSUME StoreTypeOK
  PROVE  Evolves(Recovered(disk))
  <1> DEFINE next == Recovered(disk)
  <1>1. next \in Records /\ disk \in Records /\ now \in Nat
    BY NewRecordsType DEF StoreTypeOK, Records
  <1>2. ASSUME NEW j \in Ids, Stored(disk[j]) PROVE Succeeds(disk[j], next[j])
    <2>0. disk[j] \in Record /\ next[j] \in Record
      BY <1>1 DEF Records
    <2>1. CASE IsActive(disk[j])
      <3> DEFINE q == Interrupted(disk[j])
      <3>1. /\ q.state = "failed" /\ q.rev = disk[j].rev + 1 /\ q.done = now
            /\ q.scope = disk[j].scope /\ q.key = disk[j].key /\ q.born = disk[j].born
            /\ q.bound = disk[j].bound
        BY <2>0, <2>1 DEF Interrupted, Record
      <3>2. ~Expired(q, now)
        BY <1>1, <3>1, StoreConfig DEF Expired
      <3>3. SameButBound(next[j], q) /\ next[j].bound = Live(q, now)
        BY <3>2, RecoveredAt
      <3>4. ~IsTerminal(disk[j])
        BY <2>1 DEF IsActive, IsTerminal, Active, Terminal
      <3> QED
        BY <2>0, <3>1, <3>3, <3>4
        DEF Succeeds, Continues, SameButBound, Stored, Live, Record
    <2>2. CASE ~IsActive(disk[j])
      <3>1. Interrupted(disk[j]) = disk[j]
        BY <2>2 DEF Interrupted
      <3>2. CASE Expired(disk[j], now) /\ ~Stored(next[j])
        BY <3>2 DEF Expired, Succeeds
      <3>3. CASE SameButBound(next[j], disk[j]) /\ next[j].bound = Live(disk[j], now)
        BY <1>2, <2>0, <3>3, SameSucceeds
      <3> QED
        BY <3>1, <3>2, <3>3, RecoveredAt
    <2> QED
      BY <2>1, <2>2
  <1>3. ASSUME NEW j \in Ids, ~Stored(disk[j]) PROVE ~Stored(next[j])
    <2>1. Interrupted(disk[j]) = disk[j]
      BY <1>3 DEF Interrupted, IsActive, Active, Stored
    <2> QED
      BY <1>3, <2>1, RecoveredAt DEF SameButBound, Stored
  <1>4. Added(next) = {}
    BY <1>3 DEF Added
  <1> QED
    BY <1>2, <1>4 DEF Evolves

(* A step of the store evolves the file, is a crash or lets time pass.     *)
LEMMA StepsEvolve ==
  ASSUME BasicInv, HistoryInv, StoreNext
  PROVE  \/ \E next \in Records : Write(next) /\ Evolves(next)
         \/ Crash
         \/ Tick
  <1>0. StoreTypeOK /\ (up => mem = disk)
    BY DEF BasicInv, MemoryIsDurable
  <1>1. CASE \E i \in Ids, s \in Scopes, k \in Keys \cup {None}, p \in Prints \cup {None} :
               WritesCreate(i, s, k, p)
    BY <1>0, <1>1, CreateEvolves, NewRecordsType DEF WritesCreate
  <1>2. CASE \E i \in Ids, next \in States, code \in Codes \cup {"none"} :
               WritesMove(i, next, code)
    <2>1. \A st, code : ~PermitsWith(st, "queued", code)
      BY DEF PermitsWith, Permits, Successors
    <2> QED
      BY <1>0, <1>2, <2>1, MoveEvolves, NewRecordsType DEF WritesMove
  <1>3. CASE up /\ Write(Sweep(mem, now))
    BY <1>0, <1>3, SweepEvolves, NewRecordsType
  <1>4. CASE ~up /\ Write(Recovered(disk))
    BY <1>0, <1>4, RecoveredEvolves, NewRecordsType
  <1> QED
    BY <1>0, <1>1, <1>2, <1>3, <1>4, WritesAndOthers

-----------------------------------------------------------------------------
(* Versions and outcomes.                                                  *)

(* A later version of a later version is a later version.                  *)
LEMMA ContinuesTrans ==
  ASSUME NEW a \in Record, NEW b \in Record, NEW c \in Record,
         Continues(a, b), Continues(b, c)
  PROVE  Continues(a, c)
  BY DEF Continues, IsTerminal, Record

(* What memory shows of an invocation continues what it showed before.     *)
ShownContinues ==
  \A i \in Ids : Stored(published[i]) => Continues(published[i], published'[i])

(* A write that evolves the file keeps the history.                        *)
LEMMA WriteKeepsHistory ==
  ASSUME BasicInv, HistoryInv, NEW next \in Records, Write(next), Evolves(next)
  PROVE  HistoryInv' /\ ShownContinues
  <1>0. \A i \in Ids : disk[i] \in Record /\ published[i] \in Record /\ next[i] \in Record
    BY DEF BasicInv, StoreTypeOK, Records
  <1>1. /\ disk' = next /\ issued' = issued \cup StoredIds(next)
        /\ published' = Show(next) \/ published' = published
    BY WriteEffect
  <1>2. ASSUME NEW i \in Ids
        PROVE  published'[i] = published[i] \/ (Stored(next[i]) /\ published'[i] = next[i])
    BY <1>1 DEF Show
  <1>3. ASSUME NEW i \in Ids, Stored(next[i]), Stored(published[i])
        PROVE  Continues(published[i], next[i])
    <2>1. Stored(disk[i])
      BY <1>3 DEF Evolves, Added, Fresh, HistoryInv
    <2>2. Continues(disk[i], next[i]) /\ Continues(published[i], disk[i])
      BY <1>3, <2>1 DEF Evolves, Succeeds, HistoryInv
    <2> QED
      BY <1>0, <2>2, ContinuesTrans
  <1>4. ShownContinues
    BY <1>2, <1>3 DEF ShownContinues, Continues
  <1>5. ASSUME NEW i \in Ids
        PROVE  Stored(next[i]) \/ Stored(published'[i]) => i \in issued'
    BY <1>1, <1>2 DEF StoredIds, HistoryInv
  <1>6. ASSUME NEW i \in Ids, Stored(next[i]), Stored(published'[i])
        PROVE  Continues(published'[i], next[i])
    BY <1>2, <1>3, <1>6 DEF Continues
  <1>7. \A i \in Ids : /\ Stored(next[i]) \/ Stored(published'[i]) => i \in issued'
                       /\ Stored(next[i]) /\ Stored(published'[i])
                            => Continues(published'[i], next[i])
    BY <1>5, <1>6
  <1>8. HistoryInv'
    BY <1>1, <1>7 DEF HistoryInv, Stored, Continues, IsTerminal
  <1> QED
    BY <1>4, <1>8

(* Every step keeps the history.                                           *)
LEMMA HistoryStep ==
  ASSUME BasicInv, HistoryInv, [StoreNext]_storeVars
  PROVE  HistoryInv' /\ ShownContinues
  <1>1. CASE \E next \in Records : Write(next) /\ Evolves(next)
    BY <1>1, WriteKeepsHistory
  <1>2. CASE UNCHANGED <<disk, issued, published>>
    BY <1>2 DEF HistoryInv, ShownContinues, Stored, Continues, IsTerminal
  <1> QED
    BY <1>1, <1>2, StepsEvolve DEF Crash, Tick, storeVars

(* Nothing is stored or shown at first.                                    *)
LEMMA HistoryInitially == StoreInit => HistoryInv
  BY DEF StoreInit, HistoryInv, NoRecords, Absent, Stored

(* Ids are used once, and the file is never behind what was shown.         *)
THEOREM StoreHistory == StoreSpec => []HistoryInv
  <1>1. BasicInv /\ HistoryInv /\ [StoreNext]_storeVars => HistoryInv'
    BY HistoryStep
  <1> QED
    BY <1>1, HistoryInitially, StoreInvariant, PTL DEF StoreSpec

(* An ETag names one version, also across restarts.                        *)
THEOREM StoreEtags == StoreSpec => EtagNamesOneVersion
  <1>1. BasicInv /\ HistoryInv /\ [StoreNext]_storeVars =>
          [\A i \in Ids :
             Stored(published[i]) =>
               \/ published'[i].rev > published[i].rev
               \/ /\ published'[i].rev = published[i].rev
                  /\ published'[i].state = published[i].state
                  /\ published'[i].code = published[i].code]_storeVars
    <2> SUFFICES ASSUME BasicInv, BasicInv', ShownContinues
                 PROVE  \A i \in Ids :
                          Stored(published[i]) =>
                            \/ published'[i].rev > published[i].rev
                            \/ /\ published'[i].rev = published[i].rev
                               /\ published'[i].state = published[i].state
                               /\ published'[i].code = published[i].code
      BY HistoryStep, BasicStep
    <2>1. \A i \in Ids : published[i].rev \in Nat /\ published'[i].rev \in Nat
      BY DEF BasicInv, StoreTypeOK, Record
    <2> QED
      BY <2>1 DEF ShownContinues, Continues
  <1> QED
    BY <1>1, StoreHistory, StoreInvariant, PTL DEF StoreSpec, EtagNamesOneVersion

(* A finished invocation keeps its outcome.                                *)
THEOREM StoreOutcomes == StoreSpec => OutcomeStands
  <1>1. BasicInv /\ HistoryInv /\ [StoreNext]_storeVars =>
          [\A i \in Ids :
             IsTerminal(published[i]) =>
               /\ published'[i].state = published[i].state
               /\ published'[i].code = published[i].code
               /\ published'[i].done = published[i].done]_storeVars
    <2> SUFFICES ASSUME ShownContinues, NEW i \in Ids, IsTerminal(published[i])
                 PROVE  /\ published'[i].state = published[i].state
                        /\ published'[i].code = published[i].code
                        /\ published'[i].done = published[i].done
      BY HistoryStep
    <2>1. Stored(published[i])
      BY DEF IsTerminal, Terminal, Stored
    <2> QED
      BY <2>1 DEF ShownContinues, Continues
  <1> QED
    BY <1>1, StoreHistory, StoreInvariant, PTL DEF StoreSpec, OutcomeStands
-----------------------------------------------------------------------------
(* What memory shows, and how it is numbered.                              *)

(* Revision 1 is the queued record, and no other revision is.              *)
Numbered(r) == Stored(r) => r.rev >= 1 /\ (r.state = "queued" <=> r.rev = 1)

(* What is stored in memory is what was shown last.                        *)
ShownInv ==
  /\ \A i \in Ids : Numbered(disk[i]) /\ Numbered(published[i])
  /\ up => \A i \in Ids : Stored(mem[i]) => published[i] = mem[i]

(* What was shown of an invocation is replaced by nothing but a record.    *)
ShownStays ==
  \A i \in Ids : Stored(published[i]) => Stored(published'[i])

(* A write that evolves the file numbers its records.                      *)
LEMMA WriteKeepsShown ==
  ASSUME BasicInv, HistoryInv, ShownInv,
         NEW next \in Records, Write(next), Evolves(next)
  PROVE  ShownInv' /\ ShownStays
  <1>0. \A i \in Ids : disk[i] \in Record /\ next[i] \in Record
    BY DEF BasicInv, StoreTypeOK, Records
  <1>1. /\ disk' = next
        /\ \/ up' = TRUE /\ mem' = next /\ published' = Show(next)
           \/ up' = FALSE /\ mem' = NoRecords /\ published' = published
    BY WriteEffect
  <1>2. ASSUME NEW i \in Ids
        PROVE  published'[i] = published[i] \/ (Stored(next[i]) /\ published'[i] = next[i])
    BY <1>1 DEF Show
  <1>3. ASSUME NEW i \in Ids PROVE Numbered(next[i])
    <2>1. CASE Stored(next[i]) /\ Stored(disk[i])
      <3>1. Continues(disk[i], next[i])
        BY <2>1 DEF Evolves, Succeeds
      <3>2. Numbered(disk[i]) /\ disk[i].rev \in Nat /\ next[i].rev \in Nat
        BY <1>0 DEF ShownInv, Record
      <3> QED
        BY <2>1, <3>1, <3>2 DEF Numbered, Continues
    <2>2. CASE Stored(next[i]) /\ ~Stored(disk[i])
      BY <2>2 DEF Evolves, Added, Fresh, Numbered
    <2> QED
      BY <2>1, <2>2 DEF Numbered
  <1>4. \A i \in Ids : Numbered(disk'[i]) /\ Numbered(published'[i])
    BY <1>1, <1>2, <1>3 DEF ShownInv
  <1>5. up' => \A i \in Ids : Stored(mem'[i]) => published'[i] = mem'[i]
    BY <1>1 DEF Show
  <1>6. ShownStays
    BY <1>2 DEF ShownStays
  <1> QED
    BY <1>4, <1>5, <1>6 DEF ShownInv, Numbered, Stored

(* Every step keeps the numbering.                                         *)
LEMMA ShownStep ==
  ASSUME BasicInv, HistoryInv, ShownInv, [StoreNext]_storeVars
  PROVE  ShownInv' /\ ShownStays
  <1>1. CASE \E next \in Records : Write(next) /\ Evolves(next)
    BY <1>1, WriteKeepsShown
  <1>2. CASE Crash \/ Tick \/ UNCHANGED storeVars
    BY <1>2 DEF Crash, Tick, storeVars, ShownInv, ShownStays, Numbered, Stored
  <1> QED
    BY <1>1, <1>2, StepsEvolve

(* Nothing is shown at first.                                              *)
LEMMA ShownInitially == StoreInit => ShownInv
  BY DEF StoreInit, ShownInv, Numbered, NoRecords, Absent, Stored

(* Memory shows what it stores, numbered from the queued record on.        *)
THEOREM StoreNumbers == StoreSpec => []ShownInv
  <1>1. BasicInv /\ HistoryInv /\ ShownInv /\ [StoreNext]_storeVars => ShownInv'
    BY ShownStep
  <1> QED
    BY <1>1, ShownInitially, StoreHistory, StoreInvariant, PTL DEF StoreSpec

-----------------------------------------------------------------------------
(* Retention and keys.                                                     *)

Versions(i) == {disk[i], published[i]}

(* What is recorded of an invocation lies in the past, in order.           *)
Aged(r) == Stored(r) => /\ r.born <= now
                        /\ IsTerminal(r) => r.born <= r.done /\ r.done <= now

(* When the retention of a record begins, as far as its caller can know.   *)
Since(r) == IF IsTerminal(r) THEN r.done ELSE r.born

(* Two versions under one key were created a TTL apart.                    *)
Apart(a, b) ==
  Stored(a) /\ Stored(b) /\ a.key # None /\ a.key = b.key /\ a.scope = b.scope
    => a.born + TTL <= b.born \/ b.born + TTL <= a.born

KeysInv ==
  /\ \A i \in Ids : \A r \in Versions(i) : Aged(r)
  /\ \A i \in Ids : Stored(disk[i]) /\ disk[i].key # None /\ now < disk[i].born + TTL
                     => disk[i].bound
  /\ \A i \in Ids : Stored(published[i]) /\ ~Stored(disk[i])
                     => Since(published[i]) + Retention <= now
  /\ \A i, j \in Ids : i # j => \A a \in Versions(i), b \in Versions(j) : Apart(a, b)

(* A key that is live by any version of its record is bound on file: the   *)
(* retention is no shorter than the TTL.                                   *)
LEMMA LiveIsBound ==
  ASSUME BasicInv, HistoryInv, KeysInv, NEW i \in Ids, NEW r \in Versions(i),
         Stored(r), r.key # None, now < r.born + TTL
  PROVE  BindsKey(disk[i], r.scope, r.key, now)
  <1>0. disk[i] \in Record /\ published[i] \in Record /\ now \in Nat
    BY DEF BasicInv, StoreTypeOK
  <1>1. TTL \in Nat /\ Retention \in Nat /\ TTL <= Retention
    BY StoreConfig
  <1>2. CASE ~Stored(disk[i])
    <2>1. r = published[i] /\ Since(r) + Retention <= now /\ Aged(r)
      BY <1>2 DEF Versions, KeysInv
    <2>2. r.born <= Since(r) /\ r.born \in Nat /\ Since(r) \in Nat
      BY <1>0, <2>1 DEF Since, Aged, Record
    <2> QED
      BY <1>0, <1>1, <2>1, <2>2
  <1>3. CASE Stored(disk[i])
    <2>1. disk[i].scope = r.scope /\ disk[i].key = r.key /\ disk[i].born = r.born
      BY <1>3 DEF Versions, HistoryInv, Continues
    <2>2. disk[i].bound
      BY <1>3, <2>1 DEF KeysInv
    <2> QED
      BY <1>3, <2>1, <2>2 DEF BindsKey, Live
  <1> QED
    BY <1>2, <1>3

(* A version that a write leaves behind stems from one it found, unless    *)
(* the write created the invocation.                                       *)
LEMMA VersionsStem ==
  ASSUME BasicInv, HistoryInv, NEW next \in Records, Write(next), Evolves(next),
         NEW i \in Ids, NEW r \in Versions(i)', Stored(r)
  PROVE  \/ \E q \in Versions(i) :
               Stored(q) /\ r.scope = q.scope /\ r.key = q.key /\ r.born = q.born
         \/ i \in Added(next) /\ r = next[i]
  <1>1. /\ disk' = next
        /\ published' = Show(next) \/ published' = published
    BY WriteEffect
  <1>2. r = published[i] \/ r = next[i]
    BY <1>1 DEF Versions, Show
  <1>3. CASE r = published[i]
    BY <1>3 DEF Versions
  <1>4. CASE r = next[i] /\ ~Stored(disk[i])
    BY <1>4 DEF Added
  <1>5. CASE r = next[i] /\ Stored(disk[i])
    <2>1. Continues(disk[i], r)
      BY <1>5 DEF Evolves, Succeeds
    <2> QED
      BY <1>5, <2>1 DEF Versions, Continues
  <1> QED
    BY <1>2, <1>3, <1>4, <1>5

(* A write keeps every part of the invariant.                              *)
LEMMA WriteKeepsKeys ==
  ASSUME BasicInv, HistoryInv, KeysInv, NEW next \in Records, Write(next), Evolves(next)
  PROVE  KeysInv'
  <1>0. /\ \A i \in Ids : disk[i] \in Record /\ published[i] \in Record /\ next[i] \in Record
        /\ now \in Nat /\ TTL \in Nat /\ Retention \in Nat
    BY StoreConfig DEF BasicInv, StoreTypeOK, Records
  <1>1. /\ disk' = next /\ now' = now
        /\ published' = Show(next) \/ published' = published
    BY WriteEffect
  <1>2. ASSUME NEW i \in Ids
        PROVE  published'[i] = published[i] \/ (Stored(next[i]) /\ published'[i] = next[i])
    BY <1>1 DEF Show
  <1>3. ASSUME NEW i \in Ids, Stored(next[i]), Stored(disk[i])
        PROVE  /\ Continues(disk[i], next[i])
               /\ IsTerminal(next[i]) /\ ~IsTerminal(disk[i]) => next[i].done = now
               /\ disk[i].bound /\ now < disk[i].born + TTL => next[i].bound
    BY <1>3 DEF Evolves, Succeeds
  <1>4. ASSUME NEW i \in Ids, Stored(next[i]), ~Stored(disk[i])
        PROVE  i \in Added(next) /\ Fresh(i, next[i])
    BY <1>4 DEF Evolves, Added
  <1>5. ASSUME NEW i \in Ids PROVE Aged(next[i]) /\ Aged(published'[i])
    <2>1. Aged(published[i]) /\ Aged(disk[i])
      BY DEF KeysInv, Versions
    <2>2. CASE ~Stored(next[i])
      BY <1>2, <2>1, <2>2 DEF Aged
    <2>3. CASE Stored(next[i]) /\ ~Stored(disk[i])
      <3>1. Aged(next[i])
        BY <1>0, <1>4, <2>3 DEF Fresh, Aged, IsTerminal, Terminal
      <3> QED
        BY <1>2, <2>1, <3>1
    <2>4. CASE Stored(next[i]) /\ Stored(disk[i])
      <3>1. Aged(next[i])
        <4>1. next[i].born = disk[i].born /\ next[i].born <= now
          BY <1>3, <2>1, <2>4 DEF Continues, Aged
        <4>2. CASE IsTerminal(next[i]) /\ ~IsTerminal(disk[i])
          BY <1>0, <1>3, <2>4, <4>1, <4>2 DEF Aged
        <4>3. CASE IsTerminal(disk[i])
          BY <1>3, <2>1, <2>4, <4>1, <4>3 DEF Aged, Continues
        <4>4. CASE ~IsTerminal(next[i])
          BY <4>1, <4>4 DEF Aged
        <4> QED
          BY <4>2, <4>3, <4>4
      <3> QED
        BY <1>2, <2>1, <3>1
    <2> QED
      BY <2>2, <2>3, <2>4
  <1>6. ASSUME NEW i \in Ids, Stored(next[i]), next[i].key # None, now < next[i].born + TTL
        PROVE  next[i].bound
    <2>1. CASE Stored(disk[i])
      BY <1>3, <1>6, <2>1 DEF Continues, KeysInv
    <2>2. CASE ~Stored(disk[i])
      BY <1>4, <1>6, <2>2 DEF Fresh
    <2> QED
      BY <2>1, <2>2
  <1>7. ASSUME NEW i \in Ids, Stored(published'[i]), ~Stored(next[i])
        PROVE  Since(published'[i]) + Retention <= now
    <2>1. published'[i] = published[i]
      BY <1>2, <1>7
    <2>2. CASE ~Stored(disk[i])
      BY <1>7, <2>1, <2>2 DEF KeysInv
    <2>3. CASE Stored(disk[i])
      <3>1. IsTerminal(disk[i]) /\ disk[i].done + Retention <= now
        BY <1>7, <2>3 DEF Evolves, Succeeds
      <3>2. Continues(published[i], disk[i])
        BY <1>7, <2>1, <2>3 DEF HistoryInv
      <3>3. disk[i].born <= disk[i].done
        BY <2>3, <3>1 DEF KeysInv, Versions, Aged
      <3>4. Since(published[i]) <= disk[i].done /\ Since(published[i]) \in Nat
        BY <1>0, <3>2, <3>3 DEF Since, Continues, Record
      <3>5. disk[i].done \in Nat
        BY <1>0 DEF Record
      <3> QED
        BY <1>0, <2>1, <3>1, <3>4, <3>5
    <2> QED
      BY <2>2, <2>3
  <1>8. ASSUME NEW i \in Ids, NEW j \in Ids, i # j,
               NEW a \in Versions(i)', NEW b \in Versions(j), i \in Added(next), a = next[i]
        PROVE  Apart(a, b)
    <2> SUFFICES ASSUME Stored(a), Stored(b), a.key # None, a.key = b.key, a.scope = b.scope,
                        ~(b.born + TTL <= a.born)
                 PROVE  FALSE
      BY DEF Apart
    <2>1. Fresh(i, a)
      BY <1>8 DEF Evolves
    <2>2. a.born = now /\ ~BindsKey(disk[j], b.scope, b.key, now)
      BY <2>1 DEF Fresh
    <2>3. b.born \in Nat
      BY <1>0 DEF Versions, Record
    <2>4. now < b.born + TTL
      BY <1>0, <2>2, <2>3
    <2> QED
      BY <2>2, <2>4, LiveIsBound
  <1>9. ASSUME NEW i \in Ids, NEW j \in Ids, i # j,
               NEW a \in Versions(i)', NEW b \in Versions(j)'
        PROVE  Apart(a, b)
    <2> SUFFICES ASSUME Stored(a), Stored(b)
                 PROVE  Apart(a, b)
      BY DEF Apart
    <2>1. CASE i \in Added(next) /\ a = next[i] /\ j \in Added(next)
      BY <1>9, <2>1 DEF Evolves
    <2>2. CASE i \in Added(next) /\ a = next[i] /\ j \notin Added(next)
      <3>1. PICK q \in Versions(j) :
              Stored(q) /\ b.scope = q.scope /\ b.key = q.key /\ b.born = q.born
        BY <2>2, VersionsStem
      <3>2. Apart(a, q)
        BY <1>8, <1>9, <2>2
      <3> QED
        BY <3>1, <3>2 DEF Apart
    <2>3. CASE ~(i \in Added(next) /\ a = next[i]) /\ j \in Added(next) /\ b = next[j]
      <3>1. PICK q \in Versions(i) :
              Stored(q) /\ a.scope = q.scope /\ a.key = q.key /\ a.born = q.born
        BY <2>3, VersionsStem
      <3>2. Apart(b, q)
        BY <1>8, <1>9, <2>3
      <3> QED
        BY <3>1, <3>2 DEF Apart
    <2>4. CASE ~(i \in Added(next) /\ a = next[i]) /\ ~(j \in Added(next) /\ b = next[j])
      <3>1. PICK q \in Versions(i) :
              Stored(q) /\ a.scope = q.scope /\ a.key = q.key /\ a.born = q.born
        BY <2>4, VersionsStem
      <3>2. PICK r \in Versions(j) :
              Stored(r) /\ b.scope = r.scope /\ b.key = r.key /\ b.born = r.born
        BY <2>4, VersionsStem
      <3>3. Apart(q, r)
        BY <1>9 DEF KeysInv
      <3> QED
        BY <3>1, <3>2, <3>3 DEF Apart
    <2> QED
      BY <2>1, <2>2, <2>3, <2>4, VersionsStem
  <1>10. \A i \in Ids : \A r \in Versions(i)' : Aged(r)'
    BY <1>1, <1>5 DEF Versions, Aged, Stored, IsTerminal
  <1>11. \A i \in Ids : Stored(disk'[i]) /\ disk'[i].key # None /\ now' < disk'[i].born + TTL
                        => disk'[i].bound
    BY <1>1, <1>6
  <1>12. \A i \in Ids : Stored(published'[i]) /\ ~Stored(disk'[i])
                        => Since(published'[i]) + Retention <= now'
    BY <1>1, <1>7
  <1> QED
    BY <1>9, <1>10, <1>11, <1>12 DEF KeysInv, Stored, Since, IsTerminal, Apart

(* Time ends bindings and retentions, and nothing begins them again.       *)
LEMMA KeysStep ==
  ASSUME BasicInv, HistoryInv, KeysInv, [StoreNext]_storeVars
  PROVE  KeysInv'
  <1>1. CASE \E next \in Records : Write(next) /\ Evolves(next)
    BY <1>1, WriteKeepsKeys
  <1>2. CASE UNCHANGED <<disk, published>> /\ (now' = now \/ now' = now + 1)
    <2>0. /\ \A i \in Ids : disk[i] \in Record /\ published[i] \in Record
          /\ now \in Nat /\ TTL \in Nat /\ Retention \in Nat
      BY StoreConfig DEF BasicInv, StoreTypeOK
    <2>1. now <= now' /\ now' \in Nat
      BY <1>2, <2>0
    <2>2. ASSUME NEW i \in Ids, NEW r \in Versions(i) PROVE Aged(r)'
      <3>1. Aged(r) /\ r.born \in Nat /\ r.done \in Nat
        BY <2>0, <2>2 DEF KeysInv, Versions, Record
      <3> QED
        BY <2>0, <2>1, <3>1 DEF Aged, Stored, IsTerminal
    <2>3. ASSUME NEW i \in Ids, Stored(disk[i]), disk[i].key # None, now' < disk[i].born + TTL
          PROVE  disk[i].bound
      <3>1. disk[i].born \in Nat
        BY <2>0 DEF Record
      <3> QED
        BY <2>0, <2>1, <2>3, <3>1 DEF KeysInv
    <2>4. ASSUME NEW i \in Ids, Stored(published[i]), ~Stored(disk[i])
          PROVE  Since(published[i]) + Retention <= now'
      <3>1. Since(published[i]) \in Nat
        BY <2>0 DEF Since, Record
      <3> QED
        BY <2>0, <2>1, <2>4, <3>1 DEF KeysInv
    <2> QED
      BY <1>2, <2>2, <2>3, <2>4 DEF KeysInv, Versions, Stored, Since, IsTerminal, Apart
  <1> QED
    BY <1>1, <1>2, StepsEvolve DEF Crash, Tick, storeVars

(* Nothing is stored or shown at first.                                    *)
LEMMA KeysInitially == StoreInit => KeysInv
  BY DEF StoreInit, KeysInv, NoRecords, Absent, Stored, Versions, Aged, Apart

(* Retention, bindings and keys, over every version a caller may know.     *)
THEOREM StoreKeys == StoreSpec => []KeysInv
  <1>1. BasicInv /\ HistoryInv /\ KeysInv /\ [StoreNext]_storeVars => KeysInv'
    BY KeysStep
  <1> QED
    BY <1>1, KeysInitially, StoreHistory, StoreInvariant, PTL DEF StoreSpec

(* A live key stands for one invocation.                                   *)
THEOREM StoreKeepsKeysApart == StoreSpec => []OneInvocationPerLiveKey
  <1>1. KeysInv => OneInvocationPerLiveKey
    BY DEF KeysInv, OneInvocationPerLiveKey, Versions, Apart
  <1> QED
    BY <1>1, StoreKeys, PTL

(* A live key finds the invocation it was used for.                        *)
THEOREM StoreResolvesKeys == StoreSpec => []LiveKeyResolves
  <1>1. BasicInv /\ HistoryInv /\ KeysInv => LiveKeyResolves
    BY LiveIsBound DEF LiveKeyResolves, Versions, BasicInv, MemoryIsDurable
  <1> QED
    BY <1>1, StoreKeys, StoreHistory, StoreInvariant, PTL

(* No invocation is lost before its retention is over.                     *)
THEOREM StoreRetains == StoreSpec => []RetentionHonoured
  <1>1. BasicInv /\ KeysInv => RetentionHonoured
    BY DEF KeysInv, RetentionHonoured, Since, BasicInv, MemoryIsDurable
  <1> QED
    BY <1>1, StoreKeys, StoreInvariant, PTL
=============================================================================
