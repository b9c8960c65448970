------------------------ MODULE HyperspaceEngineProofs ------------------------
(***************************************************************************)
(* Proofs about HyperspaceEngine, for every set of IRIs and contents and   *)
(* every bound: its types, that no identifier names two IRIs, that a       *)
(* restart loses nothing it should not (CrashSafe), that only two          *)
(* rotations at once take the log apart (OnlyCrossingExposes), and that    *)
(* the engine implements VectorContract.                                   *)
(*                                                                         *)
(* What a restart reads back is not a function of what is in memory, so    *)
(* the invariant describes the files. The first part of it holds always:   *)
(* clocks tell records apart (LogKept), a rotation has a file of its own   *)
(* (FilesAreFresh), identifiers mean the same in files and memory          *)
(* (IdsAgree), and the newest readable record of an identifier, or the     *)
(* snapshot where there is none, holds what memory holds as far as no      *)
(* newer record has gone (LogHoldsStore, SnapshotHoldsRest,                *)
(* NextSnapshotHoldsRest). The second part holds until two rotations       *)
(* cross: names and clocks agree (NamesInOrder), and what a checkpoint     *)
(* will delete is in its snapshot (CheckpointCovers).                      *)
(***************************************************************************)
EXTENDS HyperspaceEngine, FiniteSetTheorems, WellFoundedInduction, TLAPS

LogKept ==
  /\ IsFiniteSet(log)
  /\ \A r \in log : r.clock <= clock /\ name[r.file] # Unlinked
  /\ \A r, q \in log : r.clock = q.clock => r = q
  /\ snap.clock <= clock /\ built.clock <= clock
  /\ gone <= clock /\ muddled <= clock

(* A rotation that has not switched yet has a file nobody has written to.  *)
Turning == {"begun", "renamed", "created"}

FilesAreFresh ==
  /\ open <= rotations
  /\ \A f \in Files : name[f] # Unlinked => f <= rotations
  /\ \A p \in Rotators :
       at[p] \in Turning => /\ ticket[p] \in 1..rotations /\ ticket[p] # open
                            /\ \A r \in log : r.file # ticket[p]
  /\ \A p, q \in Rotators :
       p # q /\ at[p] \in Turning /\ at[q] \in Turning => ticket[p] # ticket[q]

IdsAgree ==
  /\ IdsNameOneIri
  /\ \A i \in Iris : iri_to_id[i] < next_id
  /\ \A i \in Iris : snap.iri_to_id[i] \in {0, iri_to_id[i]}
  /\ \A i \in Iris : built.iri_to_id[i] \in {0, iri_to_id[i]}
  /\ \A r \in log : r.iri = NoIri => r.val = Nothing
  /\ \A r \in log : r.iri # NoIri => iri_to_id[r.iri] = r.id

(* A vector in a store belongs to an IRI of the registry beside it.        *)
StoresAreNamed ==
  /\ \A d \in Ids : store[d] # Nothing => \E i \in Iris : iri_to_id[i] = d
  /\ \A d \in Ids : snap.store[d] # Nothing => \E i \in Iris : snap.iri_to_id[i] = d
  /\ \A d \in Ids : built.store[d] # Nothing => \E i \in Iris : built.iri_to_id[i] = d

(* r is the newest readable record of its identifier.                      *)
IsLast(r) == \A q \in Readable : q.id = r.id => q.clock <= r.clock

Expected(i) == {store[iri_to_id[i]]} \cup doubt[i]

LogHoldsStore ==
  \A i \in Iris, r \in Readable :
    iri_to_id[i] = r.id /\ IsLast(r) /\ gone < r.clock /\ muddled < r.clock
      => r.val \in Expected(i)

(* Nothing that can be read, or has gone, is newer than c.                 *)
Covers(c, d) ==
  /\ gone <= c
  /\ \A r \in Readable : r.id = d => r.clock <= c

SnapshotHoldsRest ==
  \A i \in Iris :
    /\ iri_to_id[i] # 0
    /\ gone <= snap.clock
    /\ \A r \in Readable : r.id # iri_to_id[i]
    => snap.store[iri_to_id[i]] \in Expected(i)

(* The snapshot that is to stand for the deleted files.                    *)
StandsFor(s) == \A i \in Iris : iri_to_id[i] # 0 /\ Covers(s.clock, iri_to_id[i])
                              => s.store[iri_to_id[i]] \in Expected(i)

NextSnapshotHoldsRest ==
  /\ at["checkpoint"] = "built" => StandsFor(built)
  /\ at["checkpoint"] \in {"saved", "cleaning"} => StandsFor(snap)

OneRotates == \A p, q \in Rotators : p # q /\ at[p] # "idle" => at[q] = "idle"

NamesInOrder ==
  /\ name[open] # Unlinked
  /\ \A f \in Files : name[f] # Active => name[f] <= rotations
  /\ \A f, g \in Files : name[f] = Active /\ name[g] = Active => f = g
  /\ \A p \in Rotators : at[p] = "begun" =>
       \A f \in Files : name[f] # Active => name[f] < ticket[p]
  /\ \A p \in Rotators : at[p] = "renamed" => \A f \in Files : name[f] # Active
  /\ \A p \in Rotators : at[p] = "created" => name[ticket[p]] = Active
  /\ \A r \in log : name[r.file] <= name[open]
  /\ \A r, q \in log : r.clock < q.clock => name[r.file] <= name[q.file]

(* All records outside the active file are in the snapshot s, and what has *)
(* gone is.                                                                *)
HasFrozen(s) ==
  /\ gone <= s.clock
  /\ \A r \in log : r.clock <= s.clock \/ name[r.file] = Active

CheckpointCovers ==
  /\ gone <= snap.clock
  /\ at["checkpoint"] \in {"switched", "rotated", "built", "saved", "cleaning"}
       => name[open] = Active
  /\ at["checkpoint"] = "built" => HasFrozen(built)
  /\ at["checkpoint"] \in {"saved", "cleaning"} => HasFrozen(snap)
  /\ at["checkpoint"] = "cleaning" => listed \subseteq FrozenFiles

Orderly == ~crossed => OneRotates /\ NamesInOrder /\ CheckpointCovers

IInv == /\ EngineTypeOK /\ LogKept /\ FilesAreFresh /\ IdsAgree /\ StoresAreNamed
        /\ LogHoldsStore /\ SnapshotHoldsRest /\ NextSnapshotHoldsRest
        /\ Orderly
----------------------------------------------------------------------------
(* What a restart reads back.                                              *)

(* A bounded set of numbers that is not empty has a greatest one.          *)
LEMMA GreatestIsThere ==
  ASSUME NEW N \in Nat, NEW T \in SUBSET (0..N), T # {}
  PROVE  \E x \in T : \A y \in T : y <= x
<1> DEFINE Distances == {N - y : y \in T}
<1>1. Distances \subseteq Nat /\ Distances # {}
  <2>1. \A y \in T : y \in 0..N
    OBVIOUS
  <2>2. \A y \in T : N - y \in Nat
    BY <2>1
  <2>3. PICK y \in T : TRUE
    OBVIOUS
  <2>4. N - y \in Distances
    BY <2>3
  <2> QED BY <2>2, <2>4
<1>2. PICK m \in Distances : \A k \in Distances : <<k, m>> \notin OpToRel(<, Nat)
  <2> HIDE DEF Distances
  <2> QED BY <1>1, WFMin, NatLessThanWellFounded
<1>3. \A k \in Distances : ~(k < m)
  <2> HIDE DEF Distances
  <2> QED BY <1>1, <1>2, Zenon DEF OpToRel
<1>4. PICK x \in T : m = N - x
  OBVIOUS
<1>5. \A y \in T : N - y \in Distances
  OBVIOUS
<1> QED BY <1>3, <1>4, <1>5

(* The fields of a record have their types.                                *)
LEMMA RecordFields ==
  ASSUME EngineTypeOK, NEW r \in log
  PROVE  /\ r.file \in Files /\ r.clock \in 1..MaxClock /\ r.id \in Ids
         /\ r.val \in Contents /\ r.iri \in Iris \cup {NoIri}
         /\ r.torn \in BOOLEAN /\ name[r.file] \in 0..Active
BY DEF EngineTypeOK, Records

(* A part of the log that is not empty has a newest record ...             *)
LEMMA NewestIsThere ==
  ASSUME EngineTypeOK, NEW S \in SUBSET log, S # {}
  PROVE  \E r \in S : \A q \in S : q.clock <= r.clock
<1> DEFINE Clocks == {r.clock : r \in S}
<1>1. Clocks \in SUBSET (0..MaxClock) /\ Clocks # {} /\ MaxClock \in Nat
  BY RecordFields, EngineAssumption
<1>2. PICK c \in Clocks : \A x \in Clocks : x <= c
  BY <1>1, GreatestIsThere
<1> QED BY <1>2

(* ... and one that is replayed last.                                      *)
LEMMA LastIsThere ==
  ASSUME EngineTypeOK, LogKept, NEW S \in SUBSET log, S # {}
  PROVE  /\ LastOf(S) \in S
         /\ \A q \in S : q = LastOf(S) \/ Before(q, LastOf(S))
<1> DEFINE Names == {name[r.file] : r \in S}
<1>1. Names \in SUBSET (0..Active) /\ Names # {} /\ Active \in Nat
  BY RecordFields, EngineAssumption DEF Active
<1>2. PICK n \in Names : \A x \in Names : x <= n
  <2> HIDE DEF Names
  <2> QED BY <1>1, GreatestIsThere
<1> DEFINE Top == {r \in S : name[r.file] = n}
<1>3. Top \in SUBSET log /\ Top # {}
  OBVIOUS
<1>4. PICK r \in Top : \A q \in Top : q.clock <= r.clock
  <2> HIDE DEF Top
  <2> QED BY <1>3, NewestIsThere
<1>5. ASSUME NEW q \in S PROVE q = r \/ Before(q, r)
  <2>1. /\ name[q.file] \in 0..Active /\ name[q.file] <= n /\ name[r.file] = n
        /\ q.clock \in 1..MaxClock /\ r.clock \in 1..MaxClock
    BY <1>2, RecordFields
  <2>2. CASE name[q.file] = n
    <3>1. q.clock <= r.clock /\ (q.clock = r.clock => q = r)
      BY <1>4, <2>2 DEF LogKept
    <3> QED BY <2>1, <2>2, <3>1 DEF Before
  <2>3. CASE name[q.file] # n
    BY <1>1, <2>1, <2>3 DEF Before
  <2> QED BY <2>2, <2>3
<1>6. r \in S
  OBVIOUS
<1> QED BY <1>5, <1>6 DEF LastOf

LEMMA RecoveredTypes ==
  ASSUME IInv
  PROVE  /\ RecoveredStore \in [Ids -> Contents]
         /\ RecoveredIds \in [Iris -> 0..MaxId]
<1> USE DEF IInv
<1>1. ASSUME NEW d \in Ids PROVE RecoveredStore[d] \in Contents
  <2>1. CASE Touching(d) # {}
    <3>1. LastOf(Touching(d)) \in log
      BY <2>1, LastIsThere DEF Touching, Readable
    <3> QED BY <2>1, <3>1, RecordFields DEF RecoveredStore
  <2>2. CASE Touching(d) = {}
    BY <2>2 DEF RecoveredStore, EngineTypeOK, Snapshots
  <2> QED BY <2>1, <2>2
<1>2. ASSUME NEW i \in Iris PROVE RecoveredIds[i] \in 0..MaxId
  <2>1. CASE Naming(i) # {}
    <3>1. LastOf(Naming(i)) \in log
      BY <2>1, LastIsThere DEF Naming, Readable
    <3> QED BY <2>1, <3>1, RecordFields, EngineAssumption DEF RecoveredIds, Ids
  <2>2. CASE Naming(i) = {}
    BY <2>2 DEF RecoveredIds, EngineTypeOK, Snapshots
  <2> QED BY <2>1, <2>2
<1> QED BY <1>1, <1>2 DEF RecoveredStore, RecoveredIds

(* A restart registers an IRI under the identifier it has, or not at all;  *)
(* in the second case neither a record nor the snapshot names it.          *)
LEMMA RecoveredIdsAgree ==
  ASSUME IInv, NEW i \in Iris
  PROVE  /\ RecoveredIds[i] \in {0, iri_to_id[i]}
         /\ RecoveredIds[i] = 0 => Naming(i) = {} /\ snap.iri_to_id[i] = 0
<1> USE DEF IInv
<1>1. CASE Naming(i) # {}
  <2>1. LastOf(Naming(i)) \in Naming(i)
    BY <1>1, LastIsThere DEF Naming, Readable
  <2>2. /\ LastOf(Naming(i)) \in log
        /\ LastOf(Naming(i)).iri = i
    BY <2>1 DEF Naming, Readable
  <2>3. LastOf(Naming(i)).id = iri_to_id[i]
    BY <2>2, EngineAssumption DEF IdsAgree
  <2>4. LastOf(Naming(i)).id # 0
    BY <2>2, RecordFields DEF Ids
  <2> QED BY <1>1, <2>3, <2>4 DEF RecoveredIds
<1>2. CASE Naming(i) = {}
  BY <1>2 DEF RecoveredIds, IdsAgree
<1> QED BY <1>1, <1>2

(* What a restart gives an identifier is in a record or in the snapshot.   *)
LEMMA RecoveredFromFiles ==
  ASSUME IInv, NEW d \in Ids
  PROVE  \/ \E r \in Readable : r.id = d /\ RecoveredStore[d] = r.val
         \/ Touching(d) = {} /\ RecoveredStore[d] = snap.store[d]
<1>1. CASE Touching(d) # {}
  <2>1. LastOf(Touching(d)) \in Touching(d)
    BY <1>1, LastIsThere DEF IInv, Touching, Readable
  <2> QED BY <1>1, <2>1 DEF RecoveredStore, Touching
<1>2. CASE Touching(d) = {}
  BY <1>2 DEF RecoveredStore
<1> QED BY <1>1, <1>2

(* As long as the log is in order, the newest record that touches an       *)
(* identifier decides its content.                                         *)
LEMMA LastDecides ==
  ASSUME IInv, ~Disordered, NEW r \in Readable, IsLast(r)
  PROVE  RecoveredStore[r.id] = r.val
<1> USE DEF IInv
<1> DEFINE l == LastOf(Touching(r.id))
<1>1. r \in log /\ r \in Touching(r.id) /\ Touching(r.id) \in SUBSET log
  BY DEF Touching, Readable
<1>2. l \in Touching(r.id) /\ (r = l \/ Before(r, l))
  BY <1>1, LastIsThere
<1>3. l \in log /\ l \in Readable /\ l.id = r.id
  BY <1>2 DEF Touching, Readable
<1>4. l.clock <= r.clock /\ (l.clock = r.clock => l = r)
  BY <1>1, <1>3 DEF IsLast, LogKept
<1>5. l.clock < r.clock => ~(name[r.file] < name[l.file])
  BY <1>1, <1>3 DEF Disordered
<1>6. l = r
  BY <1>1, <1>2, <1>3, <1>4, <1>5, RecordFields DEF Before
<1> QED BY <1>1, <1>6, RecordFields DEF RecoveredStore

(* Where something touches an identifier, there is a newest such record.   *)
LEMMA LastTouch ==
  ASSUME IInv, NEW d \in Ids, Touching(d) # {}
  PROVE  \E r \in Readable : r.id = d /\ IsLast(r)
<1>1. PICK r \in Touching(d) : \A q \in Touching(d) : q.clock <= r.clock
  BY NewestIsThere DEF IInv, Touching, Readable
<1> QED BY <1>1 DEF Touching, IsLast

(* An identifier no IRI has holds nothing, in memory and after a restart.  *)
LEMMA UnnamedHoldsNothing ==
  ASSUME IInv, NEW d \in Ids, \A i \in Iris : iri_to_id[i] # d
  PROVE  store[d] = Nothing /\ snap.store[d] = Nothing /\ built.store[d] = Nothing
         /\ \A r \in Readable : r.id = d => r.val = Nothing
<1> USE DEF IInv
<1>1. store[d] = Nothing /\ snap.store[d] = Nothing /\ built.store[d] = Nothing
  <2>1. store[d] = Nothing
    BY DEF StoresAreNamed
  <2>2. ASSUME NEW i \in Iris PROVE snap.iri_to_id[i] # d /\ built.iri_to_id[i] # d
    BY DEF IdsAgree, Ids
  <2> QED BY <2>1, <2>2 DEF StoresAreNamed
<1>2. ASSUME NEW r \in Readable, r.id = d PROVE r.val = Nothing
  <2>1. r \in log
    BY DEF Readable
  <2>2. r.iri = NoIri
    BY <1>2, <2>1, RecordFields DEF IdsAgree
  <2> QED BY <2>1, <2>2 DEF IdsAgree
<1> QED BY <1>1, <1>2

(* A restart that does not meet the files torn apart gives an identifier   *)
(* what is expected of its IRI.                                            *)
LEMMA RecoveredAsExpected ==
  ASSUME IInv, ~Exposed, NEW i \in Iris, iri_to_id[i] # 0
  PROVE  RecoveredStore[iri_to_id[i]] \in Expected(i)
<1> USE DEF IInv
<1> DEFINE d == iri_to_id[i]
<1>1. d \in Ids
  BY EngineAssumption DEF EngineTypeOK, Ids
<1>2. CASE Touching(d) # {}
  <2>1. PICK r \in Readable : r.id = d /\ IsLast(r)
    BY <1>1, <1>2, LastTouch
  <2>2. r \in log /\ r.clock \in Nat
    BY RecordFields DEF Readable
  <2>3. gone < r.clock /\ muddled < r.clock
    BY <2>2 DEF Exposed, Gap, Muddled, EngineTypeOK
  <2> QED BY <2>1, <2>3, LastDecides DEF LogHoldsStore, Exposed
<1>3. CASE Touching(d) = {}
  <2>1. gone <= snap.clock
    BY DEF Exposed, Lost, EngineTypeOK, Snapshots
  <2> QED BY <1>1, <1>3, <2>1 DEF RecoveredStore, SnapshotHoldsRest, Touching
<1> QED BY <1>2, <1>3

(* An IRI that a restart does not register has nothing after it either:    *)
(* its identifier is free of content.                                      *)
LEMMA ForgottenHoldsNothing ==
  ASSUME IInv, NEW i \in Iris, iri_to_id[i] # 0, RecoveredIds[i] = 0
  PROVE  RecoveredStore[iri_to_id[i]] = Nothing
<1> USE DEF IInv
<1> DEFINE d == iri_to_id[i]
<1>1. d \in Ids
  BY EngineAssumption DEF EngineTypeOK, Ids
<1>2. Naming(i) = {} /\ snap.iri_to_id[i] = 0
  BY RecoveredIdsAgree
<1>3. ASSUME NEW r \in Readable, r.id = d PROVE r.val = Nothing
  <2>1. r \in log /\ r.iri # i
    BY <1>2 DEF Naming, Readable
  <2>2. r.iri = NoIri
    BY <1>3, <2>1, RecordFields DEF IdsAgree, IdsNameOneIri
  <2> QED BY <2>1, <2>2 DEF IdsAgree
<1>4. snap.store[d] = Nothing
  <2> SUFFICES ASSUME NEW j \in Iris, snap.iri_to_id[j] = d PROVE FALSE
    BY <1>1 DEF StoresAreNamed
  <2>1. iri_to_id[j] = d
    BY DEF IdsAgree
  <2> QED BY <1>2, <2>1 DEF IdsAgree, IdsNameOneIri
<1> QED BY <1>1, <1>3, <1>4, RecoveredFromFiles

(* A restart that does not meet the files torn apart gives readers what    *)
(* they have, or what is in doubt.                                         *)
LEMMA InvGivesCrashSafe == IInv => CrashSafe
<1> SUFFICES ASSUME IInv, ~Exposed, NEW i \in Iris
             PROVE  RecoveredView(i) \in {View(i)} \cup doubt[i]
  BY DEF CrashSafe
<1>1. RecoveredIds[i] \in {0, iri_to_id[i]}
  BY RecoveredIdsAgree
<1>2. CASE iri_to_id[i] = 0
  BY <1>1, <1>2 DEF RecoveredView, View, Lookup
<1>3. CASE iri_to_id[i] # 0 /\ RecoveredIds[i] = 0
  BY <1>3, ForgottenHoldsNothing, RecoveredAsExpected
  DEF Expected, View, RecoveredView, Lookup
<1>4. CASE iri_to_id[i] # 0 /\ RecoveredIds[i] = iri_to_id[i]
  BY <1>4, RecoveredAsExpected DEF Expected, View, RecoveredView, Lookup
<1> QED BY <1>1, <1>2, <1>3, <1>4

LEMMA InvGivesOrder == IInv => OnlyCrossingExposes
<1> SUFFICES ASSUME IInv, ~crossed PROVE ~Lost /\ ~Disordered
  BY DEF OnlyCrossingExposes
<1>1. ~Lost
  BY DEF IInv, Orderly, CheckpointCovers, Lost, EngineTypeOK, Snapshots
<1>2. ~Disordered
  <2> SUFFICES ASSUME NEW r \in log, NEW q \in log, r.clock < q.clock,
                      name[q.file] < name[r.file]
               PROVE  FALSE
    BY DEF Disordered
  <2>1. name[r.file] <= name[q.file]
    BY DEF IInv, Orderly, NamesInOrder
  <2> QED BY <2>1, RecordFields DEF IInv, Active
<1> QED BY <1>1, <1>2
----------------------------------------------------------------------------
(* Writes.                                                                 *)

(* A record at the end of the log is readable unless it is torn or the     *)
(* file it is in is damaged; the records before it stay what they are.     *)
LEMMA ReadableGrows ==
  ASSUME IInv, NEW rec, log' = log \cup {rec}, UNCHANGED name,
         rec.clock = clock + 1, rec.torn \in BOOLEAN,
         rec.file \in Files, name[rec.file] # Unlinked
  PROVE  Readable' = Readable \cup (IF rec.torn \/ Damaged(rec.file) THEN {} ELSE {rec})
<1> USE DEF IInv
<1>1. \A r \in log : r.clock \in Nat /\ r.clock < rec.clock
  BY RecordFields DEF LogKept, EngineTypeOK
<1>2. rec \notin log /\ ~(rec.clock < rec.clock)
  BY <1>1 DEF EngineTypeOK
<1>3. ASSUME NEW r \in log PROVE r \in Readable' <=> r \in Readable
  <2>1. ~(rec.clock < r.clock)
    BY <1>1 DEF EngineTypeOK
  <2> QED BY <2>1 DEF Readable, Pending
<1>4. rec \in Readable' <=> ~rec.torn /\ ~Damaged(rec.file)
  BY <1>1, <1>2 DEF Readable, Damaged, Pending
<1>5. \A r \in Readable' : r \in log \/ r = rec
  BY DEF Readable
<1>6. \A r \in Readable : r \in log
  BY DEF Readable
<1> QED BY <1>2, <1>3, <1>4, <1>5, <1>6

(* The identifier a write uses belongs to no other IRI; if it is new, it   *)
(* holds nothing yet.                                                      *)
LEMMA WriteId ==
  ASSUME IInv, NEW i \in Iris, Register(i)
  PROVE  /\ IdOf(i) \in Ids
         /\ \A j \in Iris : j # i => iri_to_id[j] # IdOf(i)
         /\ Lookup(iri_to_id, store, i) = store[IdOf(i)]
         /\ iri_to_id[i] = 0 =>
              /\ store[IdOf(i)] = Nothing /\ snap.store[IdOf(i)] = Nothing
              /\ built.store[IdOf(i)] = Nothing
              /\ \A r \in Readable : r.id = IdOf(i) => r.val = Nothing
<1> USE DEF IInv
<1>1. IdOf(i) \in Ids
  BY DEF Register
<1>2. ASSUME NEW j \in Iris, j # i PROVE iri_to_id[j] # IdOf(i)
  BY <1>1, <1>2 DEF IdOf, IdsAgree, IdsNameOneIri, EngineTypeOK, Ids
<1>3. CASE iri_to_id[i] = 0
  <2>1. \A j \in Iris : iri_to_id[j] # IdOf(i)
    BY <1>1, <1>2, <1>3 DEF Ids
  <2> QED BY <1>1, <1>2, <1>3, <2>1, UnnamedHoldsNothing DEF Lookup
<1>4. CASE iri_to_id[i] # 0
  BY <1>1, <1>2, <1>4 DEF IdOf, Lookup
<1> QED BY <1>3, <1>4

(* What files and memory hold for the identifier of a write, before it.    *)
LEMMA WriteBefore ==
  ASSUME IInv, NEW i \in Iris, Register(i)
  PROVE  LET d == IdOf(i)
             E == {store[d]} \cup doubt[i]
         IN  /\ \A r \in Readable :
                  r.id = d /\ IsLast(r) /\ gone < r.clock /\ muddled < r.clock => r.val \in E
             /\ (\A r \in Readable : r.id # d) /\ gone <= snap.clock => snap.store[d] \in E
             /\ at["checkpoint"] = "built" /\ Covers(built.clock, d) => built.store[d] \in E
             /\ at["checkpoint"] \in {"saved", "cleaning"} /\ Covers(snap.clock, d)
                  => snap.store[d] \in E
<1>1. CASE iri_to_id[i] = 0
  BY <1>1, WriteId
<1>2. CASE iri_to_id[i] # 0
  BY <1>2 DEF IdOf, IInv, LogHoldsStore, SnapshotHoldsRest,
              NextSnapshotHoldsRest, StandsFor, Expected
<1> QED BY <1>1, <1>2

(* The effect of a write on files and memory: a readable record of it is   *)
(* the newest of the log; or nothing readable is added and everything      *)
(* expected before is still expected; or the record has gone at once.      *)
LEMMA WriteEffect ==
  ASSUME IInv, NEW i \in Iris, NEW v \in Contents, Register(i), Append(i, v)
  PROVE  LET d == IdOf(i)
             rec == Record(i, v)
         IN  /\ \/ log' = log
                \/ log' = log \cup {rec}
                \/ log' = log \cup {TornRecord(i, v)}
             /\ log' # log => name[open] # Unlinked
             /\ gone' = gone \/ (gone' = clock + 1 /\ name[open] = Unlinked)
             /\ \/ /\ Readable' = Readable \cup {rec}
                   /\ gone' = gone
                   /\ v \in {store'[d]} \cup doubt'[i]
                \/ /\ Readable' = Readable
                   /\ gone' = gone
                   /\ {store[d]} \cup doubt[i] \subseteq {store'[d]} \cup doubt'[i]
                \/ /\ Readable' = Readable
                   /\ gone' = clock + 1
             /\ \A e \in Ids : e # d => store'[e] = store[e]
             /\ \A j \in Iris : j # i => doubt'[j] = doubt[j]
             /\ store' \in [Ids -> Contents] /\ doubt' \in [Iris -> SUBSET Contents]
             /\ store' = store \/ store' = [store EXCEPT ![d] = v]
<1> USE DEF IInv
<1> DEFINE d == IdOf(i)
           rec == Record(i, v)
           torn == TornRecord(i, v)
<1>1. d \in Ids /\ Lookup(iri_to_id, store, i) = store[d] /\ store[d] \in Contents
  BY WriteId DEF EngineTypeOK
<1>2. /\ rec.clock = clock + 1 /\ torn.clock = clock + 1
      /\ rec.torn = FALSE /\ torn.torn = TRUE
      /\ rec.file = open /\ torn.file = open
      /\ open \in Files /\ UNCHANGED name
  BY DEF Record, TornRecord, Append, EngineTypeOK
<1>3. store \in [Ids -> Contents] /\ doubt \in [Iris -> SUBSET Contents]
  BY DEF EngineTypeOK
<1>4. log' = log \cup {rec} /\ name[open] # Unlinked
        => Readable' = Readable \cup (IF Damaged(open) THEN {} ELSE {rec})
  BY <1>2, ReadableGrows
<1>5. log' = log \cup {torn} /\ name[open] # Unlinked => Readable' = Readable
  BY <1>2, ReadableGrows
<1>6. log' = log => Readable' = Readable
  BY <1>2 DEF Readable, Pending
<1>7. CASE Logged(i, v)
  <2>1. /\ store' = [store EXCEPT ![d] = v]
        /\ doubt' = [doubt EXCEPT ![i] = IF Damaged(open) THEN @ \cup {store[d]} ELSE {}]
    BY <1>1, <1>7 DEF Logged
  <2>2. CASE name[open] = Unlinked
    <3>1. log' = log /\ gone' = clock + 1
      BY <1>7, <2>2 DEF Logged, Write
    <3> QED BY <1>1, <1>3, <1>6, <2>1, <2>2, <3>1
  <2>3. CASE name[open] # Unlinked
    <3>1. log' = log \cup {rec} /\ gone' = gone
      BY <1>7, <2>3 DEF Logged, Write
    <3> QED BY <1>1, <1>3, <1>4, <2>1, <2>3, <3>1
  <2> QED BY <2>2, <2>3
<1>8. CASE WriteFails(i, v)
  <2>1. /\ log' = log \/ (log' = log \cup {torn} /\ name[open] # Unlinked)
        /\ store' = store /\ doubt' = doubt /\ gone' = gone
    BY <1>8 DEF WriteFails, Write
  <2> QED BY <1>1, <1>3, <1>5, <1>6, <2>1
<1>9. CASE SyncFails(i, v)
  <2>1. /\ log' = log \/ (log' = log \cup {rec} /\ name[open] # Unlinked)
        /\ store' = store /\ gone' = gone /\ doubt' = [doubt EXCEPT ![i] = @ \cup {v}]
    BY <1>9 DEF SyncFails, Write
  <2> QED BY <1>1, <1>3, <1>4, <1>6, <2>1
<1>10. CASE Refused
  <2>1. log' = log /\ store' = store /\ doubt' = doubt /\ gone' = gone
    BY <1>10 DEF Refused
  <2> QED BY <1>1, <1>3, <1>6, <2>1
<1> QED BY <1>7, <1>8, <1>9, <1>10 DEF Append

(* What a write leaves alone.                                              *)
LEMMA WriteFrame ==
  ASSUME IInv, NEW i \in Iris, NEW v \in Contents, Append(i, v)
  PROVE  /\ clock' = clock + 1 /\ clock < MaxClock
         /\ UNCHANGED <<name, open, rotations, built, listed, snap, restarts, muddled,
                        crossed>>
         /\ at' \in [Rotators -> Steps] /\ ticket' \in [Rotators -> Files]
         /\ at'["append"] = "idle" /\ at'["checkpoint"] = at["checkpoint"]
         /\ ticket'["checkpoint"] = ticket["checkpoint"]
<1>1. at \in [Rotators -> Steps] /\ ticket \in [Rotators -> Files] /\ 0 \in Files
  BY EngineAssumption DEF IInv, EngineTypeOK, Files
<1> QED BY <1>1 DEF Append, Leave, Rotators, Steps

LEMMA WriteKeepsTypes ==
  ASSUME IInv, NEW i \in Iris, NEW v \in Contents, Register(i), Append(i, v)
  PROVE  EngineTypeOK'
<1> USE DEF IInv
<1>1. /\ IdOf(i) \in Ids /\ IdOf(i) \in 0..MaxId
      /\ next_id' \in 1..(MaxId + 1)
      /\ iri_to_id' \in [Iris -> 0..MaxId]
  BY EngineAssumption DEF Register, IdOf, EngineTypeOK, Ids
<1>2. clock + 1 \in 1..MaxClock /\ clock' \in 0..MaxClock
  BY WriteFrame, EngineAssumption DEF EngineTypeOK
<1>3. /\ store' \in [Ids -> Contents] /\ doubt' \in [Iris -> SUBSET Contents]
      /\ gone' \in 0..MaxClock
  BY <1>2, WriteEffect DEF EngineTypeOK
<1>4. size' \in Nat /\ io_errors' \in 0..MaxIoErrors
  BY EngineAssumption
  DEF Append, Logged, WriteFails, SyncFails, Refused, MayWrite, EngineTypeOK
<1>5. log' \subseteq Records
  <2>1. Record(i, v) \in Records
    BY <1>1, <1>2 DEF Record, Records, EngineTypeOK
  <2>2. TornRecord(i, v) \in Records
    BY <2>1 DEF TornRecord, Records
  <2> QED BY <2>1, <2>2, WriteEffect DEF EngineTypeOK
<1> QED BY <1>1, <1>2, <1>3, <1>4, <1>5, WriteFrame DEF EngineTypeOK

(* A record is newer than all others and in the open file.                 *)
LEMMA WriteAdds ==
  ASSUME IInv, NEW i \in Iris, NEW v \in Contents, Register(i), Append(i, v)
  PROVE  \/ log' = log
         \/ \E rec : /\ log' = log \cup {rec} /\ name[open] # Unlinked
                     /\ rec.clock = clock + 1 /\ rec.file = open
<1>1. /\ Record(i, v).clock = clock + 1 /\ Record(i, v).file = open
      /\ TornRecord(i, v).clock = clock + 1 /\ TornRecord(i, v).file = open
  BY DEF Record, TornRecord
<1> QED BY <1>1, WriteEffect

LEMMA WriteKeepsLog ==
  ASSUME IInv, NEW i \in Iris, NEW v \in Contents, Register(i), Append(i, v)
  PROVE  LogKept'
<1> USE DEF IInv
<1>1. clock \in Nat /\ clock' = clock + 1 /\ UNCHANGED <<name, snap, built, muddled>>
  BY WriteFrame DEF EngineTypeOK
<1>2. /\ snap.clock \in Nat /\ built.clock \in Nat /\ muddled \in Nat /\ gone \in Nat
      /\ \A r \in log : r.clock \in Nat
  BY RecordFields DEF EngineTypeOK, Snapshots
<1>3. /\ snap'.clock <= clock' /\ built'.clock <= clock'
      /\ muddled' <= clock' /\ gone' <= clock'
  BY <1>1, <1>2, WriteEffect DEF LogKept
<1>4. IsFiniteSet(log')
  BY WriteAdds, FS_AddElement DEF LogKept
<1>5. \A r \in log' : r.clock <= clock' /\ name'[r.file] # Unlinked
  BY <1>1, <1>2, WriteAdds DEF LogKept
<1>6. \A r, q \in log' : r.clock = q.clock => r = q
  BY <1>1, <1>2, WriteAdds DEF LogKept
<1> QED BY <1>3, <1>4, <1>5, <1>6 DEF LogKept

LEMMA WriteKeepsFiles ==
  ASSUME IInv, NEW i \in Iris, NEW v \in Contents, Register(i), Append(i, v)
  PROVE  FilesAreFresh' /\ Orderly'
<1> USE DEF IInv
<1>1. FilesAreFresh'
  <2>1. ASSUME NEW p \in Rotators, at'[p] \in Turning
        PROVE  p = "checkpoint" /\ at[p] \in Turning /\ ticket'[p] = ticket[p]
    BY <2>1, WriteFrame DEF Rotators, Turning
  <2>2. ASSUME NEW p \in Rotators, at'[p] \in Turning
        PROVE  \A r \in log' : r.file # ticket'[p]
    BY <2>1, <2>2, WriteAdds DEF FilesAreFresh
  <2> QED BY <2>1, <2>2, WriteFrame DEF FilesAreFresh
<1>2. ASSUME ~crossed' PROVE OneRotates' /\ NamesInOrder' /\ CheckpointCovers'
  <2>1. OneRotates /\ NamesInOrder /\ CheckpointCovers
    BY <1>2, WriteFrame DEF Orderly
  <2>2. \A p \in Rotators : at'[p] # "idle" =>
           p = "checkpoint" /\ at[p] = at'[p] /\ ticket'[p] = ticket[p]
    BY WriteFrame DEF Rotators
  <2>3. OneRotates'
    BY <2>2 DEF OneRotates
  <2>4. gone' = gone
    BY <2>1, WriteEffect DEF NamesInOrder
  <2>5. \A r \in log' : name[r.file] <= name[open]
    <3>1. name[open] <= name[open]
      BY DEF EngineTypeOK, Active
    <3> QED BY <2>1, <3>1, WriteAdds DEF NamesInOrder
  <2>6. \A r, q \in log' : r.clock < q.clock => name[r.file] <= name[q.file]
    <3>1. \A r \in log : r.clock \in Nat /\ r.clock <= clock /\ clock \in Nat
      BY RecordFields DEF LogKept, EngineTypeOK
    <3> QED BY <2>1, <2>5, <3>1, WriteAdds DEF NamesInOrder
  <2>7. NamesInOrder'
    BY <2>1, <2>2, <2>5, <2>6, WriteFrame DEF NamesInOrder
  <2>8. at["checkpoint"] = "built" => HasFrozen(built)'
    BY <2>1, <2>4, WriteAdds, WriteFrame DEF CheckpointCovers, HasFrozen
  <2>9. at["checkpoint"] \in {"saved", "cleaning"} => HasFrozen(snap)'
    BY <2>1, <2>4, WriteAdds, WriteFrame DEF CheckpointCovers, HasFrozen
  <2>10. CheckpointCovers'
    BY <2>1, <2>4, <2>8, <2>9, WriteFrame DEF CheckpointCovers, FrozenFiles
  <2> QED BY <2>3, <2>7, <2>10
<1> QED BY <1>1, <1>2 DEF Orderly

LEMMA WriteKeepsIds ==
  ASSUME IInv, NEW i \in Iris, NEW v \in Contents, Register(i), Append(i, v)
  PROVE  IdsAgree' /\ StoresAreNamed'
<1> USE DEF IInv
<1> DEFINE d == IdOf(i)
<1>1. /\ d \in Ids /\ \A j \in Iris : j # i => iri_to_id[j] # d
      /\ iri_to_id[i] # 0 => iri_to_id[i] = d
  BY WriteId DEF IdOf
<1>2. /\ iri_to_id' = [iri_to_id EXCEPT ![i] = d]
      /\ next_id' \in {next_id, next_id + 1} /\ d < next_id' /\ next_id \in Nat
      /\ iri_to_id \in [Iris -> 0..MaxId]
  BY DEF Register, IdOf, EngineTypeOK, IdsAgree
<1>3. /\ \A j \in Iris : j # i => iri_to_id'[j] = iri_to_id[j]
      /\ iri_to_id'[i] = d
  BY <1>2
<1>4. UNCHANGED <<snap, built>>
  BY DEF Append
<1>5. IdsNameOneIri'
  BY <1>1, <1>3 DEF IdsAgree, IdsNameOneIri
<1>6. \A j \in Iris : iri_to_id'[j] < next_id'
  BY <1>2, <1>3, EngineAssumption DEF IdsAgree
<1>7. \A j \in Iris : snap.iri_to_id[j] \in {0, iri_to_id'[j]}
                      /\ built.iri_to_id[j] \in {0, iri_to_id'[j]}
  BY <1>1, <1>3 DEF IdsAgree
<1>8. ASSUME NEW r \in log'
      PROVE  /\ r.iri = NoIri => r.val = Nothing
             /\ r.iri # NoIri => iri_to_id'[r.iri] = r.id
  <2>1. CASE r \in log
    <3>1. r.iri # NoIri => r.iri \in Iris /\ r.id # 0
      BY <2>1, RecordFields DEF Ids
    <3> QED BY <1>1, <1>3, <2>1, <3>1 DEF IdsAgree
  <2>2. CASE r \in {Record(i, v), TornRecord(i, v)}
    BY <1>3, <2>2, EngineAssumption DEF Record, TornRecord
  <2> QED BY <2>1, <2>2, WriteEffect
<1>9. ASSUME NEW e \in Ids, store'[e] # Nothing
      PROVE  \E j \in Iris : iri_to_id'[j] = e
  <2>1. CASE e = d
    BY <1>3, <2>1
  <2>2. CASE e # d
    <3>1. store[e] # Nothing
      BY <1>9, <2>2, WriteEffect
    <3>2. PICK j \in Iris : iri_to_id[j] = e
      BY <3>1 DEF StoresAreNamed
    <3>3. j # i
      BY <1>1, <2>2, <3>2 DEF Ids
    <3> QED BY <1>3, <3>2, <3>3
  <2> QED BY <2>1, <2>2
<1> QED BY <1>4, <1>5, <1>6, <1>7, <1>8, <1>9 DEF IdsAgree, StoresAreNamed

(* Whatever becomes of a write, files and memory agree after it.           *)
LEMMA WriteKeepsContents ==
  ASSUME IInv, NEW i \in Iris, NEW v \in Contents, Register(i), Append(i, v)
  PROVE  LogHoldsStore' /\ SnapshotHoldsRest' /\ NextSnapshotHoldsRest'
<1> USE DEF IInv
<1> DEFINE d == IdOf(i)
           rec == Record(i, v)
<1>1. /\ d \in Ids /\ \A j \in Iris : j # i => iri_to_id[j] # d
      /\ iri_to_id' = [iri_to_id EXCEPT ![i] = d]
      /\ iri_to_id \in [Iris -> 0..MaxId]
  BY WriteId DEF Register, EngineTypeOK
<1>2. /\ \A j \in Iris : j # i => iri_to_id'[j] = iri_to_id[j]
      /\ iri_to_id'[i] = d
  BY <1>1
<1>3. UNCHANGED <<snap, built, muddled>> /\ at'["checkpoint"] = at["checkpoint"]
  BY WriteFrame
<1>4. rec.id = d /\ rec.val = v /\ rec.clock = clock + 1
  BY DEF Record
<1>5. \A r \in Readable : r \in log /\ r.clock \in Nat /\ r.clock <= clock /\ r.id \in Ids
  BY RecordFields DEF Readable, LogKept
<1>6. /\ clock \in Nat /\ 0 \notin Ids
      /\ snap.clock \in Nat /\ snap.clock <= clock
      /\ built.clock \in Nat /\ built.clock <= clock
  BY DEF EngineTypeOK, Ids, Snapshots, LogKept
<1>7. /\ Readable \subseteq Readable'
      /\ \A r \in Readable' : r \in Readable \/ r = rec
  BY WriteEffect
<1>8. ASSUME NEW r \in Readable, IsLast(r)' PROVE IsLast(r)
  BY <1>7, <1>8 DEF IsLast
<1>9. \A j \in Iris : j # i /\ iri_to_id[j] # 0 => Expected(j)' = Expected(j)
  <2> SUFFICES ASSUME NEW j \in Iris, j # i, iri_to_id[j] # 0
               PROVE  Expected(j)' = Expected(j)
    OBVIOUS
  <2>1. iri_to_id[j] \in Ids /\ iri_to_id[j] # d
    BY <1>1, EngineAssumption DEF Ids
  <2> QED BY <1>2, <2>1, WriteEffect DEF Expected
<1>10. Expected(i)' = {store'[d]} \cup doubt'[i]
  BY <1>2 DEF Expected
<1>11. CASE /\ Readable' = Readable \cup {rec} /\ gone' = gone
            /\ v \in {store'[d]} \cup doubt'[i]
  <2>1. LogHoldsStore'
    <3> SUFFICES ASSUME NEW j \in Iris, NEW r \in Readable', iri_to_id'[j] = r.id,
                        IsLast(r)', gone < r.clock, muddled < r.clock
                 PROVE  r.val \in Expected(j)'
      BY <1>3, <1>11 DEF LogHoldsStore
    <3>1. CASE j = i
      <4>1. rec.clock <= r.clock
        BY <1>2, <1>4, <1>11, <3>1 DEF IsLast
      <4>2. r = rec
        BY <1>4, <1>5, <1>6, <1>7, <4>1
      <4> QED BY <1>4, <1>10, <1>11, <3>1, <4>2
    <3>2. CASE j # i
      <4>1. iri_to_id[j] = r.id /\ r \in Readable
        BY <1>1, <1>2, <1>4, <1>7, <3>2
      <4> QED BY <1>5, <1>6, <1>8, <1>9, <3>2, <4>1 DEF LogHoldsStore
    <3> QED BY <3>1, <3>2
  <2>2. SnapshotHoldsRest'
    BY <1>2, <1>3, <1>4, <1>9, <1>11 DEF SnapshotHoldsRest
  <2>3. ASSUME NEW j \in Iris, NEW c \in {snap.clock, built.clock},
               \A r \in Readable' : r.id = iri_to_id'[j] => r.clock <= c
        PROVE  j # i /\ \A r \in Readable : r.id = iri_to_id[j] => r.clock <= c
    <3>1. j # i
      BY <1>2, <1>4, <1>6, <1>11, <2>3
    <3> QED BY <1>2, <1>7, <2>3, <3>1
  <2>4. ASSUME StandsFor(snap) PROVE StandsFor(snap)'
    <3> SUFFICES ASSUME NEW j \in Iris, iri_to_id'[j] # 0, gone <= snap.clock,
                        \A r \in Readable' : r.id = iri_to_id'[j] => r.clock <= snap.clock
                 PROVE  snap.store[iri_to_id'[j]] \in Expected(j)'
      BY <1>3, <1>11 DEF StandsFor, Covers
    <3>1. j # i /\ Covers(snap.clock, iri_to_id[j])
      BY <2>3 DEF Covers
    <3> QED BY <1>2, <1>9, <2>4, <3>1 DEF StandsFor
  <2>5. ASSUME StandsFor(built) PROVE StandsFor(built)'
    <3> SUFFICES ASSUME NEW j \in Iris, iri_to_id'[j] # 0, gone <= built.clock,
                        \A r \in Readable' : r.id = iri_to_id'[j] => r.clock <= built.clock
                 PROVE  built.store[iri_to_id'[j]] \in Expected(j)'
      BY <1>3, <1>11 DEF StandsFor, Covers
    <3>1. j # i /\ Covers(built.clock, iri_to_id[j])
      BY <2>3 DEF Covers
    <3> QED BY <1>2, <1>9, <2>5, <3>1 DEF StandsFor
  <2> QED BY <1>3, <2>1, <2>2, <2>4, <2>5 DEF NextSnapshotHoldsRest
<1>12. CASE /\ Readable' = Readable /\ gone' = gone
            /\ {store[d]} \cup doubt[i] \subseteq {store'[d]} \cup doubt'[i]
  <2>1. LogHoldsStore'
    <3> SUFFICES ASSUME NEW j \in Iris, NEW r \in Readable', iri_to_id'[j] = r.id,
                        IsLast(r)', gone < r.clock, muddled < r.clock
                 PROVE  r.val \in Expected(j)'
      BY <1>3, <1>12 DEF LogHoldsStore
    <3>1. CASE j = i
      BY <1>2, <1>8, <1>10, <1>12, <3>1, WriteBefore
    <3>2. CASE j # i
      BY <1>2, <1>5, <1>6, <1>8, <1>9, <1>12, <3>2 DEF LogHoldsStore
    <3> QED BY <3>1, <3>2
  <2>2. SnapshotHoldsRest'
    <3> SUFFICES ASSUME NEW j \in Iris, iri_to_id'[j] # 0, gone <= snap.clock,
                        \A r \in Readable : r.id # iri_to_id'[j]
                 PROVE  snap.store[iri_to_id'[j]] \in Expected(j)'
      BY <1>3, <1>12 DEF SnapshotHoldsRest
    <3>1. CASE j = i
      BY <1>2, <1>10, <1>12, <3>1, WriteBefore
    <3>2. CASE j # i
      BY <1>2, <1>9, <1>12, <3>2 DEF SnapshotHoldsRest
    <3> QED BY <3>1, <3>2
  <2>3. \A c, e : Covers(c, e)' <=> Covers(c, e)
    BY <1>12 DEF Covers
  <2>4. ASSUME at["checkpoint"] = "built", NEW j \in Iris, iri_to_id'[j] # 0,
               Covers(built.clock, iri_to_id'[j])
        PROVE  built.store[iri_to_id'[j]] \in Expected(j)'
    <3>1. CASE j = i
      BY <1>2, <1>10, <1>12, <2>4, <3>1, WriteBefore
    <3>2. CASE j # i
      BY <1>2, <1>9, <2>4, <3>2 DEF NextSnapshotHoldsRest, StandsFor
    <3> QED BY <3>1, <3>2
  <2>5. ASSUME at["checkpoint"] \in {"saved", "cleaning"}, NEW j \in Iris, iri_to_id'[j] # 0,
               Covers(snap.clock, iri_to_id'[j])
        PROVE  snap.store[iri_to_id'[j]] \in Expected(j)'
    <3>1. CASE j = i
      BY <1>2, <1>10, <1>12, <2>5, <3>1, WriteBefore
    <3>2. CASE j # i
      BY <1>2, <1>9, <2>5, <3>2 DEF NextSnapshotHoldsRest, StandsFor
    <3> QED BY <3>1, <3>2
  <2>6. NextSnapshotHoldsRest'
    BY <1>3, <2>3, <2>4, <2>5 DEF NextSnapshotHoldsRest, StandsFor
  <2> QED BY <2>1, <2>2, <2>6
<1>13. CASE Readable' = Readable /\ gone' = clock + 1
  <2>1. LogHoldsStore'
    BY <1>5, <1>6, <1>13 DEF LogHoldsStore
  <2>2. SnapshotHoldsRest'
    BY <1>3, <1>6, <1>13 DEF SnapshotHoldsRest
  <2>3. NextSnapshotHoldsRest'
    BY <1>3, <1>6, <1>13 DEF NextSnapshotHoldsRest, StandsFor, Covers
  <2> QED BY <2>1, <2>2, <2>3
<1> QED BY <1>11, <1>12, <1>13, WriteEffect

LEMMA WriteKeepsInv ==
  ASSUME IInv, NEW i \in Iris, NEW v \in Contents, Register(i), Append(i, v)
  PROVE  IInv'
BY WriteKeepsTypes, WriteKeepsLog, WriteKeepsFiles, WriteKeepsIds, WriteKeepsContents
   DEF IInv

(* A delete uses the identifier its IRI has.                               *)
LEMMA DeleteIsAWrite ==
  ASSUME IInv, NEW i \in Iris, Delete(i)
  PROVE  Register(i) /\ Append(i, Nothing)
<1>1. iri_to_id \in [Iris -> 0..MaxId] /\ MaxId \in Nat
  BY EngineAssumption DEF IInv, EngineTypeOK
<1> QED BY <1>1 DEF Delete, Register, IdOf, Ids
----------------------------------------------------------------------------
(* Rotations.                                                              *)

Rotates(p) ==
  \/ BeginRotation(p) \/ RenameActive(p) \/ CreateActive(p) \/ SwitchFile(p)
  \/ ResetSize(p)

(* A step of a rotation gives files names, and nothing else.               *)
LEMMA RotationFrame ==
  ASSUME IInv, NEW p \in Rotators, Rotates(p)
  PROVE  /\ UNCHANGED <<log, built, listed, memory, snap, io_errors, restarts,
                        doubt, gone, muddled>>
         /\ \A q \in Rotators : q # p => at'[q] = at[q] /\ ticket'[q] = ticket[q]
         /\ at'[p] \in Steps \ {"idle", "built", "saved", "cleaning"}
         /\ at' \in [Rotators -> Steps]
         /\ \A r \in log : name'[r.file] # Unlinked
         /\ Readable' = Readable
         /\ \A i \in Iris : Expected(i)' = Expected(i)
<1> USE DEF IInv
<1>1. at \in [Rotators -> Steps] /\ ticket \in [Rotators -> Files]
      /\ name \in [Files -> 0..Active]
  BY DEF EngineTypeOK
<1>2. UNCHANGED <<log, built, listed, memory, snap, io_errors, restarts,
                  doubt, gone, muddled>>
  BY DEF Rotates, BeginRotation, RenameActive, CreateActive, SwitchFile, ResetSize,
         history
<1>3. \A q \in Rotators : q # p => at'[q] = at[q] /\ ticket'[q] = ticket[q]
  BY <1>1 DEF Rotates, BeginRotation, RenameActive, CreateActive, SwitchFile, ResetSize,
              Goto, Leave
<1>4. at'[p] \in {"begun", "renamed", "created", "switched", "rotated"}
      /\ at' \in [Rotators -> Steps]
  BY <1>1 DEF Rotates, BeginRotation, RenameActive, CreateActive, SwitchFile, ResetSize,
              Goto, Leave, Steps
<1>5. \A f \in Files : name[f] # Unlinked => name'[f] # Unlinked
  <2>1. at[p] = "begun" => ticket[p] # 0
    BY DEF FilesAreFresh, Turning, EngineTypeOK, Files
  <2>2. Active # 0
    BY EngineAssumption DEF Active
  <2> QED BY <1>1, <2>1, <2>2 DEF Rotates, BeginRotation, RenameActive, CreateActive,
                                  SwitchFile, ResetSize, Unlinked
<1>6. \A r \in log : r.file \in Files /\ name[r.file] # Unlinked
  BY RecordFields DEF LogKept
<1>7. Readable' = Readable
  BY <1>2, <1>5, <1>6 DEF Readable, Pending
<1> QED BY <1>2, <1>3, <1>4, <1>5, <1>6, <1>7 DEF Expected, memory, Steps

LEMMA RotationKeepsTypes ==
  ASSUME IInv, NEW p \in Rotators, Rotates(p)
  PROVE  EngineTypeOK'
<1> USE DEF IInv
<1>1. at \in [Rotators -> Steps] /\ ticket \in [Rotators -> Files]
      /\ name \in [Files -> 0..Active] /\ MaxRotations \in Nat
      /\ rotations \in Files /\ open \in Files /\ size \in Nat
  BY EngineAssumption DEF EngineTypeOK
<1>2. rotations' \in Files /\ ticket' \in [Rotators -> Files]
  BY <1>1 DEF Rotates, BeginRotation, RenameActive, CreateActive, SwitchFile, ResetSize,
              Goto, Leave, Files
<1>3. name' \in [Files -> 0..Active]
  <2>1. ticket[p] \in 0..Active /\ Active \in 0..Active
    BY <1>1 DEF Files, Active
  <2> QED BY <1>1, <2>1 DEF Rotates, BeginRotation, RenameActive, CreateActive,
                            SwitchFile, ResetSize
<1>4. open' \in Files /\ size' \in Nat
  BY <1>1 DEF Rotates, BeginRotation, RenameActive, CreateActive, SwitchFile, ResetSize
<1>5. crossed' \in BOOLEAN
  BY DEF Rotates, BeginRotation, RenameActive, CreateActive, SwitchFile, ResetSize,
         history, EngineTypeOK
<1> QED BY <1>2, <1>3, <1>4, <1>5, RotationFrame DEF EngineTypeOK, memory

LEMMA RotationKeepsFresh ==
  ASSUME IInv, NEW p \in Rotators, Rotates(p)
  PROVE  FilesAreFresh'
<1> USE DEF IInv
<1>1. at \in [Rotators -> Steps] /\ ticket \in [Rotators -> Files]
      /\ name \in [Files -> 0..Active] /\ MaxRotations \in Nat
      /\ rotations \in Nat /\ rotations <= MaxRotations /\ open \in Nat
  BY EngineAssumption DEF EngineTypeOK, Files
<1>2. \A r \in log : r.file \in Nat /\ r.file <= rotations
  BY RecordFields DEF LogKept, FilesAreFresh, Files
<1>3. log' = log /\ \A q \in Rotators : q # p => at'[q] = at[q] /\ ticket'[q] = ticket[q]
  BY RotationFrame
<1>4. CASE BeginRotation(p)
  <2>1. /\ rotations' = rotations + 1 /\ ticket'[p] = rotations + 1
        /\ UNCHANGED <<name, open>>
    BY <1>1, <1>4 DEF BeginRotation
  <2>2. \A f \in Files : f \in Nat
    BY <1>1 DEF Files
  <2>3. open' <= rotations' /\ \A f \in Files : name'[f] # Unlinked => f <= rotations'
    BY <1>1, <2>1, <2>2 DEF FilesAreFresh
  <2>4. \A q \in Rotators : q # p /\ at[q] \in Turning => ticket[q] # ticket'[p]
    BY <1>1, <2>1 DEF FilesAreFresh
  <2>5. \A q \in Rotators : at'[q] \in Turning =>
          /\ ticket'[q] \in 1..rotations' /\ ticket'[q] # open'
          /\ \A r \in log' : r.file # ticket'[q]
    <3> SUFFICES ASSUME NEW q \in Rotators, at'[q] \in Turning
                 PROVE  /\ ticket'[q] \in 1..rotations' /\ ticket'[q] # open'
                        /\ \A r \in log' : r.file # ticket'[q]
      OBVIOUS
    <3>1. CASE q = p
      BY <1>1, <1>2, <1>3, <2>1, <3>1 DEF FilesAreFresh
    <3>2. CASE q # p
      BY <1>1, <1>3, <2>1, <3>2 DEF FilesAreFresh
    <3> QED BY <3>1, <3>2
  <2> QED BY <1>3, <2>3, <2>4, <2>5 DEF FilesAreFresh
<1>5. ASSUME ~BeginRotation(p)
      PROVE  /\ rotations' = rotations /\ at[p] \in Turning \cup {"switched"}
             /\ at'[p] \in Turning => at[p] \in Turning /\ ticket'[p] = ticket[p]
             /\ open' = open \/ (open' = ticket[p] /\ at'[p] \notin Turning /\ at[p] \in Turning)
             /\ \A f \in Files : name'[f] # Unlinked =>
                   name[f] # Unlinked \/ (f = ticket[p] /\ at[p] \in Turning)
  <2>1. CASE RenameActive(p)
    BY <1>1, <2>1, EngineAssumption
       DEF RenameActive, Goto, Turning, Unlinked, Active
  <2>2. CASE CreateActive(p)
    BY <1>1, <2>2 DEF CreateActive, Goto, Turning
  <2>3. CASE SwitchFile(p)
    BY <1>1, <2>3 DEF SwitchFile, Goto, Turning
  <2>4. CASE ResetSize(p)
    BY <1>1, <2>4 DEF ResetSize, Leave, Turning
  <2> QED BY <1>5, <2>1, <2>2, <2>3, <2>4 DEF Rotates
<1>6. CASE ~BeginRotation(p)
  <2>1. open' <= rotations'
    BY <1>1, <1>5, <1>6 DEF FilesAreFresh
  <2>2. \A f \in Files : name'[f] # Unlinked => f <= rotations'
    BY <1>1, <1>5, <1>6 DEF FilesAreFresh
  <2>3. \A q \in Rotators : at'[q] \in Turning => at[q] \in Turning /\ ticket'[q] = ticket[q]
    BY <1>3, <1>5, <1>6
  <2>4. \A q \in Rotators : at'[q] \in Turning => ticket'[q] # open'
    BY <1>3, <1>5, <1>6, <2>3 DEF FilesAreFresh
  <2>5. \A q, t \in Rotators : q # t /\ at'[q] \in Turning /\ at'[t] \in Turning
           => ticket'[q] # ticket'[t]
    BY <2>3 DEF FilesAreFresh
  <2>6. \A q \in Rotators : at'[q] \in Turning =>
           ticket'[q] \in 1..rotations' /\ \A r \in log' : r.file # ticket'[q]
    BY <1>3, <1>5, <1>6, <2>3 DEF FilesAreFresh
  <2> QED BY <2>1, <2>2, <2>4, <2>5, <2>6 DEF FilesAreFresh
<1> QED BY <1>4, <1>6

(* Alone, a rotation moves all records of the active file, which are the   *)
(* newest, under a name above all others.                                  *)
LEMMA RotationKeepsOrder ==
  ASSUME IInv, NEW p \in Rotators, Rotates(p)
  PROVE  Orderly'
<1> USE DEF IInv
<1> SUFFICES ASSUME ~crossed' PROVE OneRotates' /\ NamesInOrder' /\ CheckpointCovers'
  BY DEF Orderly
<1>1. at \in [Rotators -> Steps] /\ ticket \in [Rotators -> Files]
      /\ name \in [Files -> 0..Active] /\ MaxRotations \in Nat
      /\ rotations \in Nat /\ rotations <= MaxRotations /\ open \in Files
      /\ Active \in Nat /\ MaxRotations < Active
      /\ \A f \in Files : name[f] \in Nat /\ name[f] <= Active
  BY EngineAssumption DEF EngineTypeOK, Files, Active
<1>2. \A r \in log : r.file \in Files /\ r.clock \in Nat
  BY RecordFields
<1>3. /\ UNCHANGED <<log, snap, built, listed, gone>>
      /\ \A q \in Rotators : q # p => at'[q] = at[q]
      /\ at'[p] \in Steps \ {"idle", "built", "saved", "cleaning"}
  BY RotationFrame
<1>4. ~crossed
  BY DEF Rotates, BeginRotation, RenameActive, CreateActive, SwitchFile, ResetSize, history
<1>5. OneRotates /\ NamesInOrder /\ CheckpointCovers
  BY <1>4 DEF Orderly
<1>6. \A q \in Rotators : q # p => at[q] = "idle" /\ at'[q] = "idle"
  <2>1. CASE at[p] = "idle"
    BY <1>3, <2>1 DEF Rotates, BeginRotation, RenameActive, CreateActive, SwitchFile,
                      ResetSize
  <2>2. CASE at[p] # "idle"
    BY <1>3, <1>5, <2>2 DEF OneRotates
  <2> QED BY <2>1, <2>2
<1>7. OneRotates'
  BY <1>6 DEF OneRotates
<1>8. CASE BeginRotation(p)
  <2>1. /\ UNCHANGED <<name, open>> /\ rotations' = rotations + 1
        /\ ticket'[p] = rotations + 1 /\ at'[p] = "begun"
    BY <1>1, <1>8 DEF BeginRotation
  <2>2. \A f \in Files : name[f] # Active => name[f] < rotations + 1
    BY <1>1, <1>5 DEF NamesInOrder
  <2>3. \A f \in Files : name[f] # Active => name[f] <= rotations + 1
    BY <1>1, <2>2
  <2>4. \A q \in Rotators : at'[q] \notin {"idle", "begun"} => FALSE
    BY <1>6, <2>1
  <2>5. \A q \in Rotators : at'[q] = "begun" =>
          \A f \in Files : name[f] # Active => name[f] < ticket'[q]
    BY <1>6, <2>1, <2>2
  <2>6. NamesInOrder'
    BY <1>3, <1>5, <2>1, <2>3, <2>4, <2>5 DEF NamesInOrder
  <2>7. CheckpointCovers'
    BY <1>3, <1>5, <2>4 DEF CheckpointCovers, Rotators
  <2> QED BY <1>7, <2>6, <2>7
<1>9. CASE RenameActive(p)
  <2>1. PICK f \in Files : name[f] = Active /\ name' = [name EXCEPT ![f] = ticket[p]]
    BY <1>9 DEF RenameActive
  <2>2. /\ at[p] = "begun" /\ at'[p] = "renamed" /\ UNCHANGED <<open, rotations>>
        /\ ticket[p] \in 1..rotations
    BY <1>1, <1>9 DEF RenameActive, Goto, FilesAreFresh, Turning
  <2>3. \A g \in Files : g # f => name[g] < ticket[p] /\ name[g] # Active /\ name'[g] = name[g]
    BY <1>1, <1>5, <2>1, <2>2 DEF NamesInOrder
  <2>4. name'[f] = ticket[p] /\ ticket[p] \in Nat /\ ticket[p] < Active /\ ticket[p] # 0
        /\ ticket[p] <= rotations
    BY <1>1, <2>1, <2>2
  <2>5. \A g \in Files : name'[g] # Active /\ name'[g] <= rotations
    BY <1>1, <1>5, <2>3, <2>4 DEF NamesInOrder
  <2>6. name'[open] # Unlinked
    BY <1>1, <1>5, <2>3, <2>4 DEF NamesInOrder, Unlinked
  <2>7. ASSUME NEW r \in log PROVE name'[r.file] <= name'[open]
    <3>1. r.file \in Files /\ name[r.file] <= name[open]
      BY <1>2, <1>5 DEF NamesInOrder
    <3>2. CASE open = f
      BY <1>1, <2>3, <2>4, <3>1, <3>2
    <3>3. CASE open # f
      BY <1>1, <2>1, <2>3, <2>4, <3>1, <3>3
    <3> QED BY <3>2, <3>3
  <2>8. ASSUME NEW r \in log, NEW q \in log, r.clock < q.clock
        PROVE  name'[r.file] <= name'[q.file]
    <3>1. r.file \in Files /\ q.file \in Files /\ name[r.file] <= name[q.file]
      BY <1>2, <1>5, <2>8 DEF NamesInOrder
    <3>2. CASE q.file = f
      BY <1>1, <2>3, <2>4, <3>1, <3>2
    <3>3. CASE q.file # f
      BY <1>1, <2>1, <2>3, <2>4, <3>1, <3>3
    <3> QED BY <3>2, <3>3
  <2>9. NamesInOrder'
    BY <1>3, <1>6, <2>2, <2>5, <2>6, <2>7, <2>8 DEF NamesInOrder
  <2>10. CheckpointCovers'
    BY <1>3, <1>5, <1>6, <2>2 DEF CheckpointCovers, Rotators
  <2> QED BY <1>7, <2>9, <2>10
<1>10. CASE CreateActive(p)
  <2>1. /\ at[p] = "renamed" /\ at'[p] = "created" /\ ticket'[p] = ticket[p]
        /\ name' = [name EXCEPT ![ticket[p]] = Active]
        /\ UNCHANGED <<open, rotations>>
    BY <1>10 , <1>1 DEF CreateActive, Goto
  <2>2. ticket[p] \in Files /\ ticket[p] # open /\ \A r \in log : r.file # ticket[p]
    BY <1>1, <2>1 DEF FilesAreFresh, Turning
  <2>3. /\ \A g \in Files : g # ticket[p] => name'[g] = name[g] /\ name[g] # Active
        /\ name'[ticket[p]] = Active /\ name'[open] = name[open]
        /\ \A r \in log : name'[r.file] = name[r.file]
    BY <1>1, <1>2, <1>5, <2>1, <2>2 DEF NamesInOrder
  <2>4. NamesInOrder'
    BY <1>3, <1>5, <1>6, <2>1, <2>3 DEF NamesInOrder
  <2>5. CheckpointCovers'
    BY <1>3, <1>5, <1>6, <2>1 DEF CheckpointCovers, Rotators
  <2> QED BY <1>7, <2>4, <2>5
<1>11. CASE SwitchFile(p)
  <2>1. /\ at[p] = "created" /\ at'[p] = "switched" /\ open' = ticket[p]
        /\ UNCHANGED <<name, rotations>>
    BY <1>11, <1>1 DEF SwitchFile, Goto
  <2>2. name[open'] = Active /\ Active # Unlinked
    BY <1>1, <1>5, <2>1 DEF NamesInOrder, Unlinked
  <2>3. \A r \in log : name[r.file] <= Active
    BY <1>1, <1>2
  <2>4. NamesInOrder'
    BY <1>3, <1>5, <1>6, <2>1, <2>2, <2>3 DEF NamesInOrder
  <2>5. CheckpointCovers'
    BY <1>3, <1>5, <1>6, <2>1, <2>2 DEF CheckpointCovers, Rotators
  <2> QED BY <1>7, <2>4, <2>5
<1>12. CASE ResetSize(p)
  <2>1. /\ at[p] = "switched" /\ at'[p] = "rotated"
        /\ UNCHANGED <<name, open, rotations>>
    BY <1>12, <1>1 DEF ResetSize, Leave
  <2>2. NamesInOrder'
    BY <1>3, <1>5, <1>6, <2>1 DEF NamesInOrder
  <2>3. CheckpointCovers'
    BY <1>3, <1>5, <1>6, <2>1 DEF CheckpointCovers, Rotators
  <2> QED BY <1>7, <2>2, <2>3
<1> QED BY <1>8, <1>9, <1>10, <1>11, <1>12 DEF Rotates

LEMMA RotationKeepsInv ==
  ASSUME IInv, NEW p \in Rotators, Rotates(p)
  PROVE  IInv'
<1> USE DEF IInv
<1>1. LogKept'
  BY RotationFrame DEF LogKept, memory
<1>2. IdsAgree' /\ StoresAreNamed'
  BY RotationFrame DEF IdsAgree, IdsNameOneIri, StoresAreNamed, memory
<1>3. LogHoldsStore' /\ SnapshotHoldsRest'
  BY RotationFrame DEF LogHoldsStore, SnapshotHoldsRest, IsLast, memory
<1>4. at'["checkpoint"] \in {"built", "saved", "cleaning"}
        => at'["checkpoint"] = at["checkpoint"]
  BY RotationFrame DEF Rotators
<1>5. NextSnapshotHoldsRest'
  BY <1>4, RotationFrame DEF NextSnapshotHoldsRest, StandsFor, Covers, memory
<1> QED BY <1>1, <1>2, <1>3, <1>5, RotationKeepsTypes, RotationKeepsFresh,
           RotationKeepsOrder
----------------------------------------------------------------------------
(* Snapshots and cleanup.                                                  *)

Checkpoints ==
  \/ BuildSnapshot \/ SaveSnapshot \/ ListFrozen \/ FinishCleanup \/ CheckpointFails

(* These steps touch no log file.                                          *)
LEMMA CheckpointFrame ==
  ASSUME IInv, Checkpoints
  PROVE  /\ UNCHANGED <<files, memory, io_errors, restarts, history>>
         /\ at' \in [Rotators -> Steps] /\ ticket' \in [Rotators -> Files]
         /\ at'["append"] = at["append"] /\ ticket'["append"] = ticket["append"]
         /\ at'["checkpoint"] \in {"built", "saved", "cleaning", "idle"}
         /\ at["checkpoint"] # "idle"
         /\ Readable' = Readable
         /\ \A i \in Iris : Expected(i)' = Expected(i)
         /\ \A c, d : Covers(c, d)' <=> Covers(c, d)
<1>1. at \in [Rotators -> Steps] /\ ticket \in [Rotators -> Files] /\ 0 \in Files
  BY EngineAssumption DEF IInv, EngineTypeOK, Files
<1>2. UNCHANGED <<files, memory, io_errors, restarts, history>>
  BY DEF Checkpoints, BuildSnapshot, SaveSnapshot, ListFrozen, FinishCleanup,
         CheckpointFails
<1>3. /\ at' \in [Rotators -> Steps] /\ ticket' \in [Rotators -> Files]
      /\ at'["append"] = at["append"] /\ ticket'["append"] = ticket["append"]
      /\ at'["checkpoint"] \in {"built", "saved", "cleaning", "idle"}
      /\ at["checkpoint"] # "idle"
  BY <1>1 DEF Checkpoints, BuildSnapshot, SaveSnapshot, ListFrozen, FinishCleanup,
              CheckpointFails, Goto, Leave, Rotators, Steps
<1>4. Readable' = Readable /\ gone' = gone
  BY <1>2 DEF Readable, Pending, files, history
<1> QED BY <1>2, <1>3, <1>4 DEF Expected, memory, history, Covers

(* The steps, seen from the snapshots.                                     *)
LEMMA CheckpointSnapshots ==
  ASSUME IInv, Checkpoints
  PROVE  \/ /\ at["checkpoint"] = "rotated" /\ at["append"] = "idle"
            /\ at'["checkpoint"] = "built"
            /\ built' = [iri_to_id |-> iri_to_id, store |-> store, clock |-> clock]
            /\ UNCHANGED <<snap, listed>>
         \/ /\ at["checkpoint"] = "built" /\ at'["checkpoint"] = "saved"
            /\ snap' = built /\ built' = EmptySnapshot
            /\ UNCHANGED listed
         \/ /\ at["checkpoint"] = "saved" /\ at'["checkpoint"] = "cleaning"
            /\ listed' = Frozen
            /\ UNCHANGED <<snap, built>>
         \/ /\ at'["checkpoint"] = "idle"
            /\ built' \in {built, EmptySnapshot} /\ listed' \in {listed, {}}
            /\ UNCHANGED snap
<1>1. at \in [Rotators -> Steps]
  BY DEF IInv, EngineTypeOK
<1> QED BY <1>1 DEF Checkpoints, BuildSnapshot, SaveSnapshot, ListFrozen, FinishCleanup,
                    CheckpointFails, Goto, Leave, Rotators

LEMMA CheckpointKeepsTypes ==
  ASSUME IInv, Checkpoints
  PROVE  EngineTypeOK' /\ LogKept' /\ FilesAreFresh'
<1> USE DEF IInv
<1>1. EmptySnapshot \in Snapshots /\ EmptySnapshot.clock = 0
  BY EngineAssumption DEF EmptySnapshot, Snapshots, Ids, Contents
<1>2. [iri_to_id |-> iri_to_id, store |-> store, clock |-> clock] \in Snapshots
      /\ clock \in Nat
  BY DEF EngineTypeOK, Snapshots
<1>3. snap' \in Snapshots /\ built' \in Snapshots /\ listed' \subseteq Files
  BY <1>1, <1>2, CheckpointSnapshots DEF EngineTypeOK, Frozen, FrozenFiles
<1>4. EngineTypeOK'
  BY <1>3, CheckpointFrame DEF EngineTypeOK, files, memory, history
<1>5. snap'.clock <= clock /\ built'.clock <= clock
  BY <1>1, <1>2, CheckpointSnapshots DEF LogKept
<1>6. LogKept'
  BY <1>5, CheckpointFrame DEF LogKept, files, memory, history
<1>7. \A p \in Rotators : at'[p] \in Turning =>
         p = "append" /\ at[p] \in Turning /\ ticket'[p] = ticket[p]
  BY CheckpointFrame DEF Rotators, Turning
<1>8. FilesAreFresh'
  BY <1>7, CheckpointFrame DEF FilesAreFresh, files
<1> QED BY <1>4, <1>6, <1>8

(* The snapshot takes the place of the records it was built from.          *)
LEMMA CheckpointKeepsContents ==
  ASSUME IInv, Checkpoints
  PROVE  /\ IdsAgree' /\ StoresAreNamed'
         /\ LogHoldsStore' /\ SnapshotHoldsRest' /\ NextSnapshotHoldsRest'
<1> USE DEF IInv
<1>1. UNCHANGED <<log, memory, gone, muddled>>
  BY CheckpointFrame DEF files, history
<1>2. /\ built' \in {built, EmptySnapshot,
                     [iri_to_id |-> iri_to_id, store |-> store, clock |-> clock]}
      /\ snap' \in {snap, built}
  BY CheckpointSnapshots
<1>3. IdsAgree' /\ StoresAreNamed'
  BY <1>1, <1>2 DEF IdsAgree, IdsNameOneIri, StoresAreNamed, EmptySnapshot, memory
<1>4. LogHoldsStore'
  BY <1>1, CheckpointFrame DEF LogHoldsStore, IsLast, memory
<1>5. NextSnapshotHoldsRest'
  <2>1. CASE at'["checkpoint"] = "built"
    BY <1>1, <2>1, CheckpointFrame, CheckpointSnapshots
       DEF NextSnapshotHoldsRest, StandsFor, Expected, memory
  <2>2. CASE at'["checkpoint"] \in {"saved", "cleaning"}
    BY <1>1, <2>2, CheckpointFrame, CheckpointSnapshots
       DEF NextSnapshotHoldsRest, StandsFor, memory
  <2>3. CASE at'["checkpoint"] = "idle"
    BY <2>3 DEF NextSnapshotHoldsRest
  <2> QED BY <2>1, <2>2, <2>3, CheckpointFrame
<1>6. SnapshotHoldsRest'
  <2>1. CASE snap' = snap
    BY <1>1, <2>1, CheckpointFrame DEF SnapshotHoldsRest, memory
  <2>2. CASE snap' = built /\ at["checkpoint"] = "built"
    BY <1>1, <2>2, CheckpointFrame
       DEF SnapshotHoldsRest, NextSnapshotHoldsRest, StandsFor, Covers, memory
  <2> QED BY <2>1, <2>2, CheckpointSnapshots
<1> QED BY <1>3, <1>4, <1>5, <1>6

LEMMA CheckpointKeepsOrder ==
  ASSUME IInv, Checkpoints
  PROVE  Orderly'
<1> USE DEF IInv
<1> SUFFICES ASSUME ~crossed' PROVE OneRotates' /\ NamesInOrder' /\ CheckpointCovers'
  BY DEF Orderly
<1>1. /\ UNCHANGED <<log, name, open, rotations, gone, clock>>
      /\ at'["checkpoint"] \in {"built", "saved", "cleaning", "idle"}
      /\ at["checkpoint"] # "idle" /\ at'["append"] = at["append"]
  BY CheckpointFrame DEF files, memory, history
<1>2. OneRotates /\ NamesInOrder /\ CheckpointCovers
  BY CheckpointFrame DEF Orderly, history
<1>3. at'["append"] = "idle" /\ at["append"] = "idle"
  BY <1>1, <1>2 DEF OneRotates, Rotators
<1>4. OneRotates'
  BY <1>3 DEF OneRotates, Rotators
<1>5. \A p \in Rotators : at'[p] \notin {"begun", "renamed", "created"}
  BY <1>1, <1>3 DEF Rotators
<1>6. NamesInOrder'
  BY <1>1, <1>2, <1>5 DEF NamesInOrder
<1>7. gone <= clock /\ \A r \in log : r.clock <= clock
  BY DEF LogKept
<1>8. CheckpointCovers'
  BY <1>1, <1>2, <1>7, CheckpointSnapshots
     DEF CheckpointCovers, HasFrozen, Frozen, FrozenFiles
<1> QED BY <1>4, <1>6, <1>8

LEMMA CheckpointKeepsInv ==
  ASSUME IInv, Checkpoints
  PROVE  IInv'
BY CheckpointKeepsTypes, CheckpointKeepsContents, CheckpointKeepsOrder DEF IInv

(* Deleting a file: what was newest in it is in the snapshot, or something *)
(* newer than the snapshot has gone.                                       *)
LEMMA RemoveFrame ==
  ASSUME IInv, NEW f \in listed, RemoveFrozen(f)
  PROVE  /\ UNCHANGED <<open, size, rotations, at, ticket, built, memory, snap, io_errors,
                        restarts, doubt, muddled, crossed>>
         /\ at["checkpoint"] = "cleaning" /\ f \in Files
         /\ log' = {r \in log : r.file # f} /\ listed' = listed \ {f}
         /\ name' = [name EXCEPT ![f] = Unlinked]
         /\ gone' \in 0..MaxClock /\ gone <= gone'
         /\ \A r \in log : r.file = f => r.clock <= gone'
         /\ gone' = gone \/ \E r \in log : r.file = f /\ gone' = r.clock
         /\ Readable' = {r \in Readable : r.file # f}
<1> USE DEF IInv
<1>1. /\ UNCHANGED <<open, size, rotations, at, ticket, built, memory, snap, io_errors,
                     restarts, doubt, muddled, crossed>>
      /\ at["checkpoint"] = "cleaning" /\ f \in Files
      /\ log' = {r \in log : r.file # f} /\ listed' = listed \ {f}
      /\ name' = [name EXCEPT ![f] = Unlinked]
  BY DEF RemoveFrozen, EngineTypeOK
<1>2. /\ gone <= gone'
      /\ \A r \in log : r.file = f => r.clock <= gone'
      /\ gone' = gone \/ \E r \in log : r.file = f /\ gone' = r.clock
  BY DEF RemoveFrozen, Newest
<1>3. gone' \in 0..MaxClock
  BY <1>2, RecordFields DEF EngineTypeOK
<1>4. Readable' = {r \in Readable : r.file # f}
  <2>1. \A r \in log : r.file \in Files /\ r.file # f => name'[r.file] = name[r.file]
    BY <1>1 DEF EngineTypeOK
  <2>2. \A g \in Files : g # f => (g \in Pending' <=> g \in Pending)
    BY <1>1 DEF EngineTypeOK, Pending
  <2>3. \A r \in log : r.file \in Files
    BY RecordFields
  <2> QED BY <1>1, <2>2, <2>3 DEF Readable
<1> QED BY <1>1, <1>2, <1>3, <1>4

LEMMA RemoveKeepsTypes ==
  ASSUME IInv, NEW f \in listed, RemoveFrozen(f)
  PROVE  EngineTypeOK' /\ LogKept' /\ FilesAreFresh' /\ IdsAgree' /\ StoresAreNamed'
<1> USE DEF IInv
<1>1. log' \subseteq log /\ IsFiniteSet(log')
  BY RemoveFrame, FS_Subset DEF LogKept
<1>2. name' \in [Files -> 0..Active]
      /\ \A g \in Files : g # f => name'[g] = name[g]
      /\ name'[f] = Unlinked
  BY RemoveFrame, EngineAssumption DEF EngineTypeOK, Unlinked, Active
<1>3. EngineTypeOK'
  BY <1>1, <1>2, RemoveFrame DEF EngineTypeOK, memory
<1>4. gone' <= clock /\ UNCHANGED clock
  BY RemoveFrame DEF LogKept, memory
<1>5. \A r \in log' : name'[r.file] # Unlinked
  BY <1>1, <1>2, RemoveFrame, RecordFields DEF LogKept
<1>6. LogKept'
  BY <1>1, <1>4, <1>5, RemoveFrame DEF LogKept
<1>7. FilesAreFresh'
  BY <1>1, <1>2, RemoveFrame DEF FilesAreFresh
<1>8. IdsAgree' /\ StoresAreNamed'
  BY <1>1, RemoveFrame DEF IdsAgree, IdsNameOneIri, StoresAreNamed, memory
<1> QED BY <1>3, <1>6, <1>7, <1>8

LEMMA RemoveKeepsContents ==
  ASSUME IInv, NEW f \in listed, RemoveFrozen(f)
  PROVE  LogHoldsStore' /\ SnapshotHoldsRest' /\ NextSnapshotHoldsRest'
<1> USE DEF IInv
<1>1. /\ UNCHANGED <<snap, built, at, iri_to_id, muddled>>
      /\ Readable' = {r \in Readable : r.file # f}
      /\ \A i \in Iris : Expected(i)' = Expected(i)
      /\ at["checkpoint"] = "cleaning"
  BY RemoveFrame DEF Expected, memory
<1>2. /\ gone \in Nat /\ gone' \in Nat /\ gone <= gone' /\ snap.clock \in Nat
      /\ \A r \in Readable : r \in log /\ r.clock \in Nat
      /\ \A r \in Readable : r.file = f => r.clock <= gone'
  BY RemoveFrame, RecordFields DEF Readable, EngineTypeOK, Snapshots
<1>3. LogHoldsStore'
  <2> SUFFICES ASSUME NEW i \in Iris, NEW r \in Readable', iri_to_id[i] = r.id,
                      IsLast(r)', gone' < r.clock, muddled < r.clock
               PROVE  r.val \in Expected(i)
    BY <1>1 DEF LogHoldsStore
  <2>1. r \in Readable /\ gone < r.clock
    BY <1>1, <1>2
  <2>2. IsLast(r)
    <3> SUFFICES ASSUME NEW q \in Readable, q.id = r.id PROVE q.clock <= r.clock
      BY DEF IsLast
    <3>1. CASE q.file # f
      BY <1>1, <3>1 DEF IsLast
    <3>2. CASE q.file = f
      BY <1>2, <2>1, <3>2
    <3> QED BY <3>1, <3>2
  <2> QED BY <2>1, <2>2 DEF LogHoldsStore
<1>4. ASSUME NEW d, gone' <= snap.clock,
             \A r \in Readable' : r.id = d => r.clock <= snap.clock
      PROVE  Covers(snap.clock, d)
  <2>1. gone' <= snap.clock
    BY <1>4
  <2>2. ASSUME NEW r \in Readable, r.id = d PROVE r.clock <= snap.clock
    <3>1. CASE r.file = f
      BY <1>2, <2>1, <3>1
    <3>2. CASE r.file # f
      BY <1>1, <1>4, <2>2, <3>2
    <3> QED BY <3>1, <3>2
  <2> QED BY <1>2, <2>1, <2>2 DEF Covers
<1>5. StandsFor(snap)
  BY <1>1 DEF NextSnapshotHoldsRest
<1>6. StandsFor(snap)'
  <2> SUFFICES ASSUME NEW i \in Iris, iri_to_id[i] # 0, gone' <= snap.clock,
                      \A r \in Readable' : r.id = iri_to_id[i] => r.clock <= snap.clock
               PROVE  snap.store[iri_to_id[i]] \in Expected(i)
    BY <1>1 DEF StandsFor, Covers
  <2>1. Covers(snap.clock, iri_to_id[i])
    BY <1>4
  <2> QED BY <1>5, <2>1 DEF StandsFor
<1>7. NextSnapshotHoldsRest'
  BY <1>1, <1>6 DEF NextSnapshotHoldsRest
<1>8. SnapshotHoldsRest'
  <2> SUFFICES ASSUME NEW i \in Iris, iri_to_id[i] # 0, gone' <= snap.clock,
                      \A r \in Readable' : r.id # iri_to_id[i]
               PROVE  snap.store[iri_to_id[i]] \in Expected(i)
    BY <1>1 DEF SnapshotHoldsRest
  <2>1. Covers(snap.clock, iri_to_id[i])
    BY <1>1, <1>2 DEF Covers
  <2> QED BY <1>5, <2>1 DEF StandsFor
<1> QED BY <1>3, <1>7, <1>8

LEMMA RemoveKeepsOrder ==
  ASSUME IInv, NEW f \in listed, RemoveFrozen(f)
  PROVE  Orderly'
<1> USE DEF IInv
<1> SUFFICES ASSUME ~crossed' PROVE OneRotates' /\ NamesInOrder' /\ CheckpointCovers'
  BY DEF Orderly
<1>1. /\ UNCHANGED <<open, rotations, at, ticket, built, snap>>
      /\ at["checkpoint"] = "cleaning" /\ f \in Files
      /\ log' = {r \in log : r.file # f} /\ listed' = listed \ {f}
      /\ name' = [name EXCEPT ![f] = Unlinked]
      /\ gone' = gone \/ \E r \in log : r.file = f /\ gone' = r.clock
  BY RemoveFrame
<1>2. OneRotates /\ NamesInOrder /\ CheckpointCovers
  BY RemoveFrame DEF Orderly
<1>3. /\ listed \subseteq FrozenFiles /\ HasFrozen(snap) /\ name[open] = Active
  BY <1>1, <1>2 DEF CheckpointCovers
<1>4. name[f] # Active /\ f # open
  BY <1>3 DEF FrozenFiles
<1>5. /\ name \in [Files -> 0..Active] /\ open \in Files /\ rotations \in Nat
      /\ Active # Unlinked
  BY EngineAssumption DEF EngineTypeOK, Files, Active, Unlinked
<1>6. /\ \A g \in Files : g # f => name'[g] = name[g]
      /\ name'[f] = 0 /\ name'[open] = name[open]
      /\ \A r \in log' : r \in log /\ name'[r.file] = name[r.file]
  BY <1>1, <1>4, <1>5, RecordFields DEF Unlinked
<1>7. \A p \in Rotators : at[p] \notin {"begun", "renamed", "created"}
  BY <1>1, <1>2 DEF OneRotates, Rotators
<1>8. NamesInOrder'
  BY <1>1, <1>2, <1>5, <1>6, <1>7 DEF NamesInOrder, Unlinked
<1>9. gone' <= snap.clock
  BY <1>1, <1>3, <1>4 DEF HasFrozen
<1>10. CheckpointCovers'
  BY <1>1, <1>2, <1>3, <1>6, <1>9 DEF CheckpointCovers, HasFrozen, FrozenFiles
<1> QED BY <1>1, <1>2, <1>8, <1>10 DEF OneRotates

LEMMA RemoveKeepsInv ==
  ASSUME IInv, NEW f \in listed, RemoveFrozen(f)
  PROVE  IInv'
BY RemoveKeepsTypes, RemoveKeepsContents, RemoveKeepsOrder DEF IInv
----------------------------------------------------------------------------
(* Restarts.                                                               *)

(* A restart keeps the names of the files with records, and has an active  *)
(* file that is open.                                                      *)
LEMMA RestartFiles ==
  ASSUME IInv, Restart
  PROVE  /\ open' \in Files /\ open' <= rotations' /\ rotations' \in Files
         /\ rotations <= rotations'
         /\ name' \in [Files -> 0..Active] /\ name'[open'] = Active
         /\ \A g \in Files : g # open' => name'[g] = name[g]
         /\ \A g \in Files : name'[g] # Unlinked => g <= rotations'
         /\ \A r \in log : r.file \in Files /\ name'[r.file] = name[r.file]
         /\ \A g \in Files : g # open' /\ name[g] = Active => name[open'] = Active
<1> USE DEF IInv
<1>1. /\ name \in [Files -> 0..Active] /\ rotations \in Nat /\ rotations <= MaxRotations
      /\ MaxRotations \in Nat /\ Active \in 0..Active
  BY EngineAssumption DEF EngineTypeOK, Files, Active
<1>2. \A r \in log : r.file \in Files /\ r.file \in Nat /\ r.file <= rotations
  BY RecordFields DEF LogKept, FilesAreFresh, Files
<1>3. CASE (\E f \in Files : name[f] = Active /\ open' = f) /\ UNCHANGED <<name, rotations>>
  <2>1. Active # Unlinked
    BY <1>1, EngineAssumption DEF Active, Unlinked
  <2> QED BY <1>1, <1>2, <1>3, <2>1 DEF FilesAreFresh, EngineTypeOK
<1>4. CASE /\ \A f \in Files : name[f] # Active
           /\ rotations < MaxRotations
           /\ rotations' = rotations + 1
           /\ name' = [name EXCEPT ![rotations + 1] = Active]
           /\ open' = rotations + 1
  <2>1. rotations + 1 \in Files
    BY <1>1, <1>4 DEF Files
  <2>2. \A g \in Files : g \in Nat
    BY <1>1 DEF Files
  <2>3. \A g \in Files : name'[g] # Unlinked => g <= rotations'
    BY <1>1, <1>4, <2>2 DEF FilesAreFresh
  <2>4. \A r \in log : name'[r.file] = name[r.file]
    BY <1>1, <1>2, <1>4
  <2> QED BY <1>1, <1>2, <1>4, <2>1, <2>3, <2>4
<1> QED BY <1>3, <1>4 DEF Restart, OpenActive

LEMMA RestartFrame ==
  ASSUME IInv, Restart
  PROVE  /\ log' = Readable /\ Readable' = Readable /\ Readable \subseteq log
         /\ iri_to_id' = RecoveredIds /\ store' = RecoveredStore
         /\ at' = [p \in Rotators |-> "idle"] /\ ticket' = [p \in Rotators |-> 0]
         /\ doubt' = [i \in Iris |-> {}]
         /\ built' = EmptySnapshot /\ listed' = {} /\ io_errors' = 0
         /\ restarts' = restarts + 1
         /\ gone' = 0 /\ muddled' = IF Disordered THEN clock' ELSE 0
         /\ UNCHANGED <<snap, crossed>>
         /\ clock' \in 0..MaxClock /\ snap.clock <= clock'
         /\ \A r \in Readable : r.clock <= clock'
<1> USE DEF IInv
<1>1. /\ log' = Readable /\ Readable \subseteq log
      /\ iri_to_id' = RecoveredIds /\ store' = RecoveredStore
      /\ at' = [p \in Rotators |-> "idle"] /\ ticket' = [p \in Rotators |-> 0]
      /\ doubt' = [i \in Iris |-> {}]
      /\ built' = EmptySnapshot /\ listed' = {} /\ io_errors' = 0
      /\ restarts' = restarts + 1
      /\ gone' = 0 /\ muddled' = IF Disordered THEN clock' ELSE 0
      /\ UNCHANGED <<snap, crossed>>
  BY DEF Restart, Healed, Readable
<1>2. /\ clock' \in 0..MaxClock /\ snap.clock <= clock'
      /\ \A r \in Readable : r.clock <= clock'
  <2>1. clock' \in RecoveredClocks /\ \A x \in RecoveredClocks : x <= clock'
    BY DEF Restart, Newest
  <2>2. RecoveredClocks \subseteq 0..MaxClock
    BY <1>1, RecordFields DEF RecoveredClocks, EngineTypeOK, Snapshots
  <2> QED BY <2>1, <2>2 DEF RecoveredClocks
<1>3. Readable' = Readable
  <2>1. \A r \in Readable : r.file \in Pending' /\ ~r.torn
    BY <1>1, RestartFiles DEF LogKept, Pending, Readable
  <2> QED BY <1>1, <2>1 DEF Readable
<1> QED BY <1>1, <1>2, <1>3

LEMMA RestartKeepsTypes ==
  ASSUME IInv, Restart
  PROVE  EngineTypeOK' /\ LogKept' /\ FilesAreFresh'
<1> USE DEF IInv
<1>1. next_id' \in 1..(MaxId + 1)
  <2>1. /\ next_id' \in {1} \cup {RecoveredIds[i] + 1 : i \in Iris}
    BY DEF Restart, FreshIds
  <2> QED BY <2>1, RecoveredTypes, EngineAssumption
<1>2. EmptySnapshot \in Snapshots /\ EmptySnapshot.clock = 0
  BY EngineAssumption DEF EmptySnapshot, Snapshots, Ids, Contents
<1>3. IsFiniteSet(log')
  BY RestartFrame, FS_Subset DEF LogKept
<1>4. size' \in Nat
  <2>1. IsFiniteSet({r \in log : r.file = open'})
    BY FS_Subset DEF LogKept
  <2> QED BY <2>1, FS_CardinalityType DEF Restart
<1>5. /\ at' \in [Rotators -> Steps] /\ ticket' \in [Rotators -> Files]
      /\ io_errors' \in 0..MaxIoErrors /\ log' \subseteq Records
      /\ gone' \in 0..MaxClock /\ muddled' \in 0..MaxClock
  BY RestartFrame, EngineAssumption DEF EngineTypeOK, Steps, Files
<1>6. EngineTypeOK'
  BY <1>1, <1>2, <1>4, <1>5, RestartFrame, RestartFiles, RecoveredTypes DEF EngineTypeOK
<1>7. /\ built'.clock <= clock' /\ gone' <= clock' /\ muddled' <= clock'
  BY <1>2, RestartFrame
<1>8. LogKept'
  BY <1>3, <1>7, RestartFrame, RestartFiles DEF LogKept
<1>9. \A p \in Rotators : at'[p] \notin Turning
  BY RestartFrame DEF Turning
<1>10. FilesAreFresh'
  BY <1>9, RestartFiles DEF FilesAreFresh
<1> QED BY <1>6, <1>8, <1>10

LEMMA RestartKeepsOrder ==
  ASSUME IInv, Restart
  PROVE  Orderly'
<1> USE DEF IInv
<1> SUFFICES ASSUME ~crossed' PROVE OneRotates' /\ NamesInOrder' /\ CheckpointCovers'
  BY DEF Orderly
<1>1. NamesInOrder
  BY RestartFrame DEF Orderly
<1>2. \A p \in Rotators : at'[p] = "idle"
  BY RestartFrame
<1>3. OneRotates' /\ CheckpointCovers'
  <2>1. gone' <= snap'.clock
    BY RestartFrame DEF EngineTypeOK, Snapshots
  <2> QED BY <1>2, <2>1 DEF OneRotates, CheckpointCovers, Rotators
<1>4. /\ Active \in Nat /\ Active # Unlinked /\ rotations \in Nat
      /\ \A g \in Files : name[g] \in 0..Active
      /\ rotations' \in Nat /\ rotations <= rotations'
  <2>1. Active \in Nat /\ Active # Unlinked
    BY EngineAssumption DEF Active, Unlinked
  <2>2. rotations \in Nat /\ rotations' \in Nat /\ rotations <= rotations'
    BY RestartFiles, EngineAssumption DEF EngineTypeOK, Files
  <2>3. \A g \in Files : name[g] \in 0..Active
    BY DEF EngineTypeOK
  <2> QED BY <2>1, <2>2, <2>3
<1>5. \A g \in Files : name'[g] # Active => name'[g] <= rotations'
  BY <1>1, <1>4, RestartFiles DEF NamesInOrder
<1>6. \A f, g \in Files : name'[f] = Active /\ name'[g] = Active => f = g
  BY <1>1, RestartFiles DEF NamesInOrder
<1>7. \A r \in log' : name'[r.file] <= name'[open']
  BY <1>4, RestartFiles, RestartFrame
<1>8. \A r, q \in log' : r.clock < q.clock => name'[r.file] <= name'[q.file]
  BY <1>1, RestartFiles, RestartFrame DEF NamesInOrder
<1>9. NamesInOrder'
  BY <1>2, <1>4, <1>5, <1>6, <1>7, <1>8, RestartFiles DEF NamesInOrder
<1> QED BY <1>3, <1>9

(* After a restart memory is what the files give, and nothing is in doubt. *)
LEMMA RestartKeepsContents ==
  ASSUME IInv, Restart
  PROVE  /\ IdsAgree' /\ StoresAreNamed'
         /\ LogHoldsStore' /\ SnapshotHoldsRest' /\ NextSnapshotHoldsRest'
<1> USE DEF IInv
<1>1. IdsAgree'
  <2>1. IdsNameOneIri'
    BY RestartFrame, RecoveredIdsAgree DEF IdsAgree, IdsNameOneIri
  <2>2. \A i \in Iris : snap.iri_to_id[i] \in {0, RecoveredIds[i]}
    BY RecoveredIdsAgree DEF IdsAgree
  <2>3. ASSUME NEW r \in Readable, r.iri # NoIri PROVE RecoveredIds[r.iri] = r.id
    <3>1. r \in log /\ r.iri \in Iris /\ r \in Naming(r.iri)
      BY <2>3, RestartFrame, RecordFields DEF Naming
    <3>2. RecoveredIds[r.iri] = iri_to_id[r.iri]
      BY <3>1, RecoveredIdsAgree
    <3> QED BY <2>3, <3>1, <3>2 DEF IdsAgree
  <2>4. \A i \in Iris : built'.iri_to_id[i] \in {0, RecoveredIds[i]}
    BY RestartFrame DEF EmptySnapshot
  <2>5. \A i \in Iris : RecoveredIds[i] < next_id'
    BY DEF Restart, FreshIds
  <2> QED BY <2>1, <2>2, <2>3, <2>4, <2>5, RestartFrame DEF IdsAgree
<1>2. StoresAreNamed'
  <2>1. ASSUME NEW d \in Ids, RecoveredStore[d] # Nothing
        PROVE  \E i \in Iris : RecoveredIds[i] = d
    <3>1. CASE \E r \in Readable : r.id = d /\ RecoveredStore[d] = r.val
      <4>1. PICK r \in Readable : r.id = d /\ r.val # Nothing
        BY <2>1, <3>1
      <4>2. r \in log /\ r.iri # NoIri /\ r.iri \in Iris /\ r \in Naming(r.iri)
        BY <4>1, RestartFrame, RecordFields DEF IdsAgree, Naming
      <4>3. RecoveredIds[r.iri] = iri_to_id[r.iri]
        BY <4>2, RecoveredIdsAgree
      <4> QED BY <4>1, <4>2, <4>3 DEF IdsAgree
    <3>2. CASE RecoveredStore[d] = snap.store[d]
      <4>1. PICK i \in Iris : snap.iri_to_id[i] = d
        BY <2>1, <3>2 DEF StoresAreNamed
      <4>2. d # 0
        BY DEF Ids
      <4>3. RecoveredIds[i] = iri_to_id[i] /\ iri_to_id[i] = d
        BY <4>1, <4>2, RecoveredIdsAgree DEF IdsAgree
      <4> QED BY <4>3
    <3> QED BY <3>1, <3>2, RecoveredFromFiles
  <2> QED BY <2>1, RestartFrame DEF StoresAreNamed, EmptySnapshot
<1>3. LogHoldsStore'
  <2> SUFFICES ASSUME NEW i \in Iris, NEW r \in Readable, RecoveredIds[i] = r.id,
                      IsLast(r), muddled' < r.clock
               PROVE  r.val = RecoveredStore[r.id]
    BY RestartFrame DEF LogHoldsStore, IsLast, Expected
  <2>1. r.clock \in Nat /\ r.clock <= clock' /\ clock' \in Nat
    BY RestartFrame, RecordFields
  <2>2. ~Disordered
    BY <2>1, RestartFrame
  <2> QED BY <2>2, LastDecides
<1>4. SnapshotHoldsRest'
  <2> SUFFICES ASSUME NEW i \in Iris, RecoveredIds[i] # 0,
                      \A r \in Readable : r.id # RecoveredIds[i]
               PROVE  snap.store[RecoveredIds[i]] = RecoveredStore[RecoveredIds[i]]
    BY RestartFrame DEF SnapshotHoldsRest, Expected
  <2>1. RecoveredIds[i] \in Ids
    BY RecoveredTypes, EngineAssumption DEF Ids
  <2> QED BY <2>1, RecoveredFromFiles
<1>5. NextSnapshotHoldsRest'
  BY RestartFrame DEF NextSnapshotHoldsRest, Rotators
<1> QED BY <1>1, <1>2, <1>3, <1>4, <1>5

LEMMA RestartKeepsInv == IInv /\ Restart => IInv'
BY RestartKeepsTypes, RestartKeepsOrder, RestartKeepsContents DEF IInv
----------------------------------------------------------------------------
(* The invariant and what follows from it.                                 *)

LEMMA InitGivesInv == Init => IInv
<1> SUFFICES ASSUME Init PROVE IInv
  OBVIOUS
<1> USE EngineAssumption DEF Init
<1>1. /\ EmptySnapshot \in Snapshots /\ EmptySnapshot.iri_to_id \in [Iris -> 0..MaxId]
      /\ EmptySnapshot.store \in [Ids -> Contents] /\ EmptySnapshot.clock = 0
  BY DEF EmptySnapshot, Snapshots, Ids, Contents
<1>2. 0 \in Files /\ Active \in 0..Active /\ Active # 0 /\ Unlinked = 0
  BY DEF Files, Active, Unlinked
<1>3. EngineTypeOK
  <2>1. name \in [Files -> 0..Active] /\ open \in Files /\ rotations \in Files
    BY <1>2
  <2>2. at \in [Rotators -> Steps] /\ ticket \in [Rotators -> Files]
    BY <1>2 DEF Steps
  <2>3. next_id \in 1..(MaxId + 1) /\ clock \in 0..MaxClock /\ io_errors \in 0..MaxIoErrors
        /\ gone \in 0..MaxClock /\ muddled \in 0..MaxClock /\ size \in Nat /\ restarts \in Nat
    OBVIOUS
  <2> QED BY <1>1, <2>1, <2>2, <2>3 DEF EngineTypeOK
<1>4. LogKept
  BY <1>1, FS_EmptySet DEF LogKept
<1>5. FilesAreFresh
  BY <1>2 DEF FilesAreFresh, Turning
<1>6. IdsAgree /\ StoresAreNamed
  BY DEF IdsAgree, IdsNameOneIri, StoresAreNamed, EmptySnapshot
<1>7. Readable = {}
  BY DEF Readable
<1>8. LogHoldsStore
  BY <1>7 DEF LogHoldsStore
<1>9. SnapshotHoldsRest /\ NextSnapshotHoldsRest
  BY DEF SnapshotHoldsRest, NextSnapshotHoldsRest, Rotators, EmptySnapshot
<1>10. Orderly
  BY <1>1, <1>2 DEF Orderly, OneRotates, NamesInOrder, CheckpointCovers, Rotators
<1> QED BY <1>3, <1>4, <1>5, <1>6, <1>8, <1>9, <1>10 DEF IInv

LEMMA NextKeepsInv == IInv /\ [Next]_vars => IInv'
<1> SUFFICES ASSUME IInv, [Next]_vars PROVE IInv'
  OBVIOUS
<1>1. ASSUME NEW i \in Iris, NEW v \in Values, Put(i, v) PROVE IInv'
  BY <1>1, WriteKeepsInv DEF Put, Contents
<1>2. ASSUME NEW i \in Iris, Delete(i) PROVE IInv'
  BY <1>2, DeleteIsAWrite, WriteKeepsInv DEF Contents
<1>3. ASSUME NEW p \in Rotators, Rotates(p) PROVE IInv'
  BY <1>3, RotationKeepsInv
<1>4. CASE Checkpoints
  BY <1>4, CheckpointKeepsInv
<1>5. ASSUME NEW f \in listed, RemoveFrozen(f) PROVE IInv'
  BY <1>5, RemoveKeepsInv
<1>6. CASE Restart
  BY <1>6, RestartKeepsInv
<1>7. CASE UNCHANGED vars
  <2>1. /\ UNCHANGED <<log, name, open, size, rotations, at, ticket, built, listed, snap,
                       iri_to_id, next_id, clock, store, io_errors, restarts, doubt, gone,
                       muddled, crossed>>
        /\ Readable' = Readable
    BY <1>7 DEF vars, files, phases, memory, history, Readable, Pending
  <2>2. EngineTypeOK' /\ LogKept' /\ FilesAreFresh' /\ IdsAgree' /\ StoresAreNamed'
    BY <2>1 DEF IInv, EngineTypeOK, LogKept, FilesAreFresh, IdsAgree, IdsNameOneIri,
                StoresAreNamed
  <2>3. LogHoldsStore' /\ SnapshotHoldsRest' /\ NextSnapshotHoldsRest'
    BY <2>1 DEF IInv, LogHoldsStore, IsLast, Expected, SnapshotHoldsRest,
                NextSnapshotHoldsRest, StandsFor, Covers
  <2>4. Orderly'
    BY <2>1 DEF IInv, Orderly, OneRotates, NamesInOrder, CheckpointCovers, HasFrozen,
                FrozenFiles
  <2> QED BY <2>2, <2>3, <2>4 DEF IInv
<1> QED BY <1>1, <1>2, <1>3, <1>4, <1>5, <1>6, <1>7 DEF Next, Rotates, Checkpoints

LEMMA SpecGivesInv == Spec => []IInv
BY InitGivesInv, NextKeepsInv, PTL DEF Spec

(* The engine's files, memory and histories always have their types.       *)
THEOREM EngineTypeCorrect == Spec => []EngineTypeOK
BY SpecGivesInv, PTL DEF IInv

(* No identifier is ever given to two IRIs, whatever is refused, lost or   *)
(* recovered.                                                              *)
THEOREM EngineIdsNameOneIri == Spec => []IdsNameOneIri
<1>1. IInv => IdsNameOneIri
  BY DEF IInv, IdsAgree
<1> QED BY <1>1, SpecGivesInv, PTL

(* A restart gives back what readers see or what is in doubt, in every     *)
(* state in which the log files are not torn apart: whatever rotations,    *)
(* checkpoints and failed writes have left half done.                      *)
THEOREM EngineCrashSafe == Spec => []CrashSafe
BY SpecGivesInv, InvGivesCrashSafe, PTL

(* Until an append and a checkpoint rotate the log at once, nothing is     *)
(* deleted that is newer than the snapshot, and the log is replayed in the *)
(* order it was written (rotate, checkpoint, cleanup_frozen, open).        *)
THEOREM EngineOnlyCrossingExposes == Spec => []OnlyCrossingExposes
BY SpecGivesInv, InvGivesOrder, PTL
----------------------------------------------------------------------------
(* The engine implements the contract.                                     *)

Views == [i \in Iris |-> View(i)]

(* Until rotations cross, only old records that are left behind expose.    *)
OldIsLeft == \E r \in log : r.clock <= gone \/ r.clock <= muddled

LEMMA ExposedByOld == IInv => (~crossed => (Exposed <=> OldIsLeft))
BY InvGivesOrder DEF OnlyCrossingExposes, Exposed, Gap, Muddled, OldIsLeft

LEMMA ExposedByOldNext == IInv' => (~crossed' => (Exposed' <=> OldIsLeft'))
BY ExposedByOld, PTL

(* Steps that add new records at most, and delete none, expose nothing.    *)
LEMMA SteadySteps ==
  ASSUME IInv, IInv', UNCHANGED crossed,
         ~crossed => UNCHANGED <<gone, muddled>>,
         \A r \in log : r \in log',
         \A r \in log' : r \in log \/ r.clock = clock + 1
  PROVE  Contract!Steady
<1>1. CASE crossed
  <2>1. Exposed' \in BOOLEAN
    BY DEF Exposed, Gap, Lost, Disordered, Muddled
  <2> QED BY <1>1, <2>1 DEF Contract!Steady
<1>2. CASE ~crossed
  <2>1. /\ Exposed <=> \E r \in log : r.clock <= gone \/ r.clock <= muddled
        /\ Exposed' <=> \E r \in log' : r.clock <= gone \/ r.clock <= muddled
    BY <1>2, ExposedByOld, ExposedByOldNext DEF OldIsLeft
  <2>2. gone < clock + 1 /\ muddled < clock + 1
    BY DEF IInv, EngineTypeOK, LogKept
  <2>3. \A r \in log' : r.clock <= gone \/ r.clock <= muddled => r \in log
    BY <2>2 DEF IInv, EngineTypeOK
  <2>4. Exposed' <=> Exposed
    BY <2>1, <2>3
  <2>5. Exposed' = Exposed
    BY <2>4 DEF Exposed, Gap, Lost, Disordered, Muddled
  <2> QED BY <2>5 DEF Contract!Steady
<1> QED BY <1>1, <1>2

(* A write changes what its own reader gets, or nothing.                   *)
LEMMA WriteViews ==
  ASSUME IInv, NEW i \in Iris, NEW v \in Contents, Register(i), Append(i, v)
  PROVE  /\ store' = [store EXCEPT ![IdOf(i)] = v] => Views' = [Views EXCEPT ![i] = v]
         /\ store' = store => Views' = Views
<1> USE DEF IInv
<1>1. /\ IdOf(i) \in Ids /\ \A j \in Iris : j # i => iri_to_id[j] # IdOf(i)
      /\ Lookup(iri_to_id, store, i) = store[IdOf(i)]
  BY WriteId
<1>2. /\ iri_to_id' = [iri_to_id EXCEPT ![i] = IdOf(i)]
      /\ iri_to_id \in [Iris -> 0..MaxId] /\ store \in [Ids -> Contents]
  BY DEF Register, EngineTypeOK
<1>3. IdOf(i) # 0 /\ MaxId \in Nat
  BY <1>1, EngineAssumption DEF Ids
<1>4. View(i)' = store'[IdOf(i)]
  BY <1>2, <1>3 DEF View, Lookup
<1>5. View(i) = store[IdOf(i)]
  BY <1>1 DEF View
<1>6. ASSUME NEW j \in Iris, j # i,
             store' = store \/ store' = [store EXCEPT ![IdOf(i)] = v]
      PROVE  View(j)' = View(j)
  <2>1. iri_to_id'[j] = iri_to_id[j] /\ iri_to_id[j] # IdOf(i)
    BY <1>1, <1>2, <1>6
  <2>2. iri_to_id[j] # 0 => iri_to_id[j] \in Ids
    BY <1>2, <1>3 DEF Ids
  <2>3. iri_to_id[j] # 0 => store'[iri_to_id[j]] = store[iri_to_id[j]]
    BY <1>1, <1>2, <1>6, <2>1, <2>2
  <2> QED BY <2>1, <2>3 DEF View, Lookup
<1>7. ASSUME store' = [store EXCEPT ![IdOf(i)] = v]
      PROVE  Views' = [Views EXCEPT ![i] = v]
  <2>1. View(i)' = v
    BY <1>1, <1>2, <1>4, <1>7
  <2> QED BY <1>6, <1>7, <2>1 DEF Views
<1>8. ASSUME store' = store PROVE Views' = Views
  <2>1. View(i)' = View(i)
    BY <1>4, <1>5, <1>8
  <2> QED BY <1>6, <1>8, <2>1 DEF Views
<1> QED BY <1>7, <1>8

LEMMA WriteKeepsContract ==
  ASSUME IInv, NEW i \in Iris, NEW v \in Contents, Register(i), Append(i, v)
  PROVE  Contract!Next
<1>1. doubt \in [Iris -> SUBSET Contents] /\ v \in Contract!Contents
  BY DEF IInv, EngineTypeOK, Contents, Contract!Contents
<1>2. Contract!Steady
  <2>1. UNCHANGED <<crossed, muddled>>
    BY WriteFrame
  <2>2. ~crossed => gone' = gone
    BY WriteEffect DEF IInv, Orderly, NamesInOrder
  <2>3. \A r \in log : r \in log'
    BY WriteAdds
  <2>4. \A r \in log' : r \in log \/ r.clock = clock + 1
    BY WriteAdds
  <2> QED BY <2>1, <2>2, <2>3, <2>4, WriteKeepsInv, SteadySteps
<1>3. CASE Logged(i, v)
  <2>1. /\ store' = [store EXCEPT ![IdOf(i)] = v]
        /\ doubt' = [doubt EXCEPT ![i] =
             IF Damaged(open) THEN @ \cup {Views[i]} ELSE {}]
        /\ log' = log \/ log' = log \cup {Record(i, v)}
    BY <1>3 DEF Logged, Write, Views, View
  <2>2. Views' = [Views EXCEPT ![i] = v]
    BY <2>1, WriteViews
  <2>3. Damaged(open)' <=> Damaged(open)
    <3>1. Record(i, v).torn = FALSE /\ open' = open
      BY WriteFrame DEF Record
    <3> QED BY <2>1, <3>1 DEF Damaged
  <2>4. (~Damaged(open))' = ~Damaged(open)
    BY <2>3
  <2>5. Contract!Acknowledge(i, v)
    BY <1>2, <2>1, <2>2, <2>4 DEF Contract!Acknowledge, Views
  <2> QED BY <1>1, <2>5 DEF Contract!Next
<1>4. CASE WriteFails(i, v) \/ SyncFails(i, v) \/ Refused
  <2>1. store' = store /\ doubt' \in {doubt, [doubt EXCEPT ![i] = @ \cup {v}]}
    BY <1>4 DEF WriteFails, SyncFails, Refused
  <2>2. Views' = Views
    BY <2>1, WriteViews
  <2>3. (~Damaged(open))' \in BOOLEAN
    OBVIOUS
  <2>4. Contract!Refuse(i, v)
    BY <1>2, <2>1, <2>2, <2>3 DEF Contract!Refuse, Views
  <2> QED BY <1>1, <2>4 DEF Contract!Next
<1> QED BY <1>3, <1>4 DEF Append

(* A rotation shows as a sound file, or as the beginning of a crossing.    *)
LEMMA RotationKeepsContract ==
  ASSUME IInv, NEW p \in Rotators, Rotates(p)
  PROVE  [Contract!Next]_(Contract!vars)
<1> USE DEF IInv
<1>1. UNCHANGED <<log, iri_to_id, store, doubt, snap, gone, muddled>>
  BY RotationFrame DEF memory
<1>2. Views' = Views
  BY <1>1 DEF Views, View
<1>3. CASE BeginRotation(p)
  <2>1. UNCHANGED <<name, open>> /\ (crossed' = crossed \/ crossed' = TRUE)
    BY <1>3 DEF BeginRotation, EngineTypeOK
  <2>2. Exposed' = Exposed /\ (~Damaged(open))' = ~Damaged(open)
    BY <1>1, <2>1 DEF Exposed, Gap, Lost, Disordered, Muddled, Damaged
  <2>3. CASE crossed' = crossed
    BY <1>1, <1>2, <2>2, <2>3 DEF Contract!vars, Views
  <2>4. CASE crossed' = TRUE
    BY <1>1, <1>2, <2>2, <2>4 DEF Contract!Cross, Contract!Next, Views
  <2> QED BY <2>1, <2>3, <2>4
<1>4. CASE ~BeginRotation(p)
  <2>1. UNCHANGED crossed
    BY <1>4 DEF Rotates, RenameActive, CreateActive, SwitchFile, ResetSize, history
  <2>2. Contract!Steady
    BY <1>1, <2>1, RotationKeepsInv, SteadySteps
  <2>3. (~Damaged(open))' = ~Damaged(open) \/ (~Damaged(open))' = TRUE
    <3>1. CASE open' = open
      BY <1>1, <3>1 DEF Damaged
    <3>2. CASE open' # open
      <4>1. SwitchFile(p)
        BY <1>4, <3>2 DEF Rotates, RenameActive, CreateActive, ResetSize
      <4>2. open' = ticket[p] /\ at[p] \in Turning
        BY <4>1 DEF SwitchFile, Turning
      <4>3. \A r \in log : r.file # open'
        BY <4>2 DEF FilesAreFresh
      <4> QED BY <1>1, <4>3 DEF Damaged
    <3> QED BY <3>1, <3>2
  <2>4. Contract!Renew
    BY <1>1, <1>2, <2>2, <2>3 DEF Contract!Renew, Views
  <2> QED BY <2>4 DEF Contract!Next
<1> QED BY <1>3, <1>4

(* No phase of a checkpoint shows.                                         *)
LEMMA CheckpointKeepsContract ==
  ASSUME IInv, Checkpoints
  PROVE  Contract!Next
<1>1. UNCHANGED <<log, open, iri_to_id, store, doubt, gone, muddled, crossed>>
  BY CheckpointFrame DEF files, memory, history
<1>2. Views' = Views
  BY <1>1 DEF Views, View
<1>3. Contract!Steady
  BY <1>1, CheckpointKeepsInv, SteadySteps
<1>4. (~Damaged(open))' = ~Damaged(open)
  BY <1>1 DEF Damaged
<1>5. Contract!Renew
  BY <1>1, <1>2, <1>3, <1>4 DEF Contract!Renew, Views
<1> QED BY <1>5 DEF Contract!Next

LEMMA RemoveKeepsContract ==
  ASSUME IInv, NEW f \in listed, RemoveFrozen(f)
  PROVE  Contract!Next
<1>1. /\ UNCHANGED <<iri_to_id, store, doubt, open, crossed>>
      /\ log' = {r \in log : r.file # f}
  BY RemoveFrame DEF memory
<1>2. Views' = Views
  BY <1>1 DEF Views, View
<1>3. (~Damaged(open))' = ~Damaged(open) \/ (~Damaged(open))' = TRUE
  BY <1>1 DEF Damaged
<1>4. Exposed' \in BOOLEAN
  BY DEF Exposed, Gap, Lost, Disordered, Muddled
<1>5. Contract!Prune
  BY <1>1, <1>2, <1>3, <1>4 DEF Contract!Prune, Views
<1> QED BY <1>5 DEF Contract!Next

LEMMA RestartKeepsContract ==
  ASSUME IInv, Restart
  PROVE  Contract!Next
<1> USE DEF IInv
<1>1. /\ log' = Readable /\ iri_to_id' = RecoveredIds /\ store' = RecoveredStore
      /\ doubt' = [i \in Iris |-> {}] /\ UNCHANGED crossed
      /\ gone' = 0 /\ muddled' = IF Disordered THEN clock' ELSE 0
  BY RestartFrame
<1>2. \A i \in Iris : View(i)' = RecoveredView(i)
  BY <1>1 DEF View, RecoveredView, Lookup
<1>3. \A i \in Iris : RecoveredView(i) \in Contract!Contents
  <2>1. \A i \in Iris : RecoveredIds[i] # 0 => RecoveredIds[i] \in Ids
    BY RecoveredTypes, EngineAssumption DEF Ids
  <2> QED BY <2>1, RecoveredTypes DEF RecoveredView, Lookup, Contents, Contract!Contents
<1>4. ~Exposed => \A i \in Iris : RecoveredView(i) \in {Views[i]} \cup doubt[i]
  BY InvGivesCrashSafe DEF CrashSafe, Views
<1>5. ~Damaged(open)'
  BY <1>1 DEF Damaged, Readable
<1>6. ~crossed => ~Exposed'
  <2> SUFFICES ASSUME ~crossed PROVE ~Exposed'
    OBVIOUS
  <2>1. ~Disordered
    BY InvGivesOrder DEF OnlyCrossingExposes
  <2>2. Exposed' <=> \E r \in log' : r.clock <= gone' \/ r.clock <= muddled'
    BY <1>1, RestartKeepsInv, ExposedByOldNext DEF OldIsLeft
  <2>3. \A r \in log' : r.clock \in 1..MaxClock
    BY <1>1, RestartFrame, RecordFields
  <2> QED BY <1>1, <2>1, <2>2, <2>3
<1>7. Exposed' = FALSE \/ (crossed /\ Exposed' \in BOOLEAN)
  BY <1>6 DEF Exposed, Gap, Lost, Disordered, Muddled
<1>8. Contract!Restart
  BY <1>1, <1>2, <1>3, <1>4, <1>5, <1>7 DEF Contract!Restart, Views
<1> QED BY <1>8 DEF Contract!Next

LEMMA NextKeepsContract == IInv /\ [Next]_vars => [Contract!Next]_(Contract!vars)
<1> SUFFICES ASSUME IInv, [Next]_vars PROVE [Contract!Next]_(Contract!vars)
  OBVIOUS
<1>1. ASSUME NEW i \in Iris, NEW v \in Values, Put(i, v) PROVE Contract!Next
  BY <1>1, WriteKeepsContract DEF Put, Contents
<1>2. ASSUME NEW i \in Iris, Delete(i) PROVE Contract!Next
  BY <1>2, DeleteIsAWrite, WriteKeepsContract DEF Contents
<1>3. ASSUME NEW p \in Rotators, Rotates(p) PROVE [Contract!Next]_(Contract!vars)
  BY <1>3, RotationKeepsContract
<1>4. CASE Checkpoints
  BY <1>4, CheckpointKeepsContract
<1>5. ASSUME NEW f \in listed, RemoveFrozen(f) PROVE Contract!Next
  BY <1>5, RemoveKeepsContract
<1>6. CASE Restart
  BY <1>6, RestartKeepsContract
<1>7. CASE UNCHANGED vars
  BY <1>7 DEF Contract!vars, vars, files, phases, memory, history, View, Damaged,
              Exposed, Gap, Lost, Disordered, Muddled
<1> QED BY <1>1, <1>2, <1>3, <1>4, <1>5, <1>6, <1>7 DEF Next, Rotates, Checkpoints

LEMMA InitKeepsContract == Init => Contract!Init
<1> SUFFICES ASSUME Init PROVE Contract!Init
  OBVIOUS
<1>1. \A i \in Iris : View(i) = Nothing
  BY DEF Init, View, Lookup, EmptySnapshot
<1>2. ~Damaged(open) /\ ~Exposed
  BY DEF Init, Damaged, Exposed, Gap, Lost, Disordered, Muddled, EmptySnapshot
<1> QED BY <1>1, <1>2 DEF Init, Contract!Init

(* The engine keeps the contract of its callers: a write acknowledged on a *)
(* sound log is what a restart brings back, a refused one changes nothing  *)
(* before a restart, no checkpoint shows; and only the deletion of log     *)
(* files exposes it, until rotations cross (HyperspaceEngineImpl insert,   *)
(* upsert, delete, checkpoint and recover).                                *)
THEOREM EngineKeepsWrites == Spec => KeepsWrites
<1>1. Init => Contract!Init
  BY InitKeepsContract
<1>2. IInv /\ [Next]_vars => [Contract!Next]_(Contract!vars)
  BY NextKeepsContract
<1> QED BY <1>1, <1>2, SpecGivesInv, PTL DEF Spec, KeepsWrites, Contract!Spec
=============================================================================
