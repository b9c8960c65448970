------------------------- MODULE RunningSlotsProofs --------------------------
(***************************************************************************)
(* The ledger of running slots is exact and within its limits for every    *)
(* set of ids, scopes and tenants and every three limits.                  *)
(*                                                                         *)
(* SlotsInv is inductive: CapsHold alone is not, because the guard of an   *)
(* admission compares the counters, so what they count must be known; and  *)
(* CountersMatch alone leaves open what saturating_sub does at zero.       *)
(***************************************************************************)
EXTENDS RunningSlots, FiniteSetTheorems, TLAPS

SlotsInv == SlotsTypeOK /\ CountersMatch /\ CapsHold

(* One more holder: the three groups it joins grow by it, no other does.   *)
LEMMA AdmitGroups ==
  ASSUME SlotLimits, SlotsTypeOK,
         NEW s \in Scopes, NEW i \in Ids, i \notin Holders,
         admitted' = [admitted EXCEPT ![i] = s]
  PROVE  /\ Holders' = Holders \cup {i}
         /\ \A t \in Tenants : InTenant(t)' =
              IF t = TenantOf[s] THEN InTenant(t) \cup {i} ELSE InTenant(t)
         /\ \A r \in Scopes : InScope(r)' =
              IF r = s THEN InScope(r) \cup {i} ELSE InScope(r)
         /\ \A t \in Tenants : i \notin InTenant(t)
         /\ \A r \in Scopes : i \notin InScope(r)
  BY DEF SlotLimits, SlotsTypeOK, Holders, InTenant, InScope

(* One holder less.                                                        *)
LEMMA ReleaseGroups ==
  ASSUME SlotLimits, SlotsTypeOK,
         NEW i \in Ids, i \in Holders,
         admitted' = [admitted EXCEPT ![i] = NotAdmitted]
  PROVE  /\ Holders' = Holders \ {i}
         /\ \A t \in Tenants : InTenant(t)' =
              IF t = TenantOf[admitted[i]] THEN InTenant(t) \ {i} ELSE InTenant(t)
         /\ \A r \in Scopes : InScope(r)' =
              IF r = admitted[i] THEN InScope(r) \ {i} ELSE InScope(r)
         /\ admitted[i] \in Scopes
         /\ i \in InTenant(TenantOf[admitted[i]])
         /\ i \in InScope(admitted[i])
  BY DEF SlotLimits, SlotsTypeOK, Holders, InTenant, InScope

(* Every group is a set of ids, so it has a size.                          *)
LEMMA GroupsFinite ==
  ASSUME SlotLimits
  PROVE  /\ IsFiniteSet(Holders)
         /\ \A t : IsFiniteSet(InTenant(t))
         /\ \A r : IsFiniteSet(InScope(r))
  <1>1. \A S \in SUBSET Ids : IsFiniteSet(S)
    BY FS_Subset DEF SlotLimits
  <1> QED
    BY <1>1 DEF Holders, InTenant, InScope

(* A group that takes in a newcomer is one larger, one that loses a        *)
(* member is not empty and one smaller.                                    *)
LEMMA GroupSizes ==
  ASSUME NEW S, IsFiniteSet(S), NEW x
  PROVE  /\ Cardinality(S) \in Nat
         /\ x \notin S => Cardinality(S \cup {x}) = Cardinality(S) + 1
         /\ x \in S => /\ Cardinality(S) > 0
                       /\ Cardinality(S \ {x}) = Cardinality(S) - 1
  <1>1. Cardinality(S) \in Nat
    BY FS_CardinalityType
  <1>2. x \in S => Cardinality(S) # 0
    BY FS_EmptySet
  <1>3. x \notin S => Cardinality(S \cup {x}) = Cardinality(S) + 1
    BY FS_AddElement
  <1>4. x \in S => Cardinality(S \ {x}) = Cardinality(S) - 1
    BY FS_RemoveElement
  <1> QED
    BY <1>1, <1>2, <1>3, <1>4

(* An empty ledger satisfies the invariant.                                *)
LEMMA SlotsInitially ==
  ASSUME SlotLimits, Init
  PROVE  SlotsInv
  <1>1. SlotsTypeOK
    BY DEF Init, SlotsTypeOK
  <1>2. /\ Holders = {}
        /\ \A t \in Tenants : InTenant(t) = {}
        /\ \A r \in Scopes : InScope(r) = {}
    BY DEF SlotLimits, Init, Holders, InTenant, InScope
  <1>3. CountersMatch
    BY <1>2, FS_EmptySet DEF Init, CountersMatch
  <1>4. CapsHold
    BY <1>2, FS_EmptySet DEF SlotLimits, CapsHold
  <1> QED
    BY <1>1, <1>3, <1>4 DEF SlotsInv

(* try_admit keeps the invariant: the caps were checked under the lock.    *)
LEMMA AdmitKeepsInv ==
  ASSUME SlotLimits, SlotsInv, NEW s \in Scopes, NEW i \in Ids, Admit(s, i)
  PROVE  SlotsInv'
  <1>1. CASE i \in Holders
    BY <1>1 DEF Admit, slotVars, SlotsInv, SlotsTypeOK, CountersMatch, CapsHold,
                Holders, InTenant, InScope
  <1>2. CASE i \notin Holders
    <2>1. /\ CanAcquire(s)
          /\ admitted' = [admitted EXCEPT ![i] = s]
          /\ global' = global + 1
          /\ perTenant' = [perTenant EXCEPT ![TenantOf[s]] = @ + 1]
          /\ perScope' = [perScope EXCEPT ![s] = @ + 1]
      BY <1>2 DEF Admit
    <2>2. TenantOf[s] \in Tenants
      BY DEF SlotLimits
    <2>3. SlotsTypeOK'
      BY <2>1, <2>2 DEF SlotsInv, SlotsTypeOK
    <2>4. /\ Holders' = Holders \cup {i}
          /\ \A t \in Tenants : InTenant(t)' =
               IF t = TenantOf[s] THEN InTenant(t) \cup {i} ELSE InTenant(t)
          /\ \A r \in Scopes : InScope(r)' =
               IF r = s THEN InScope(r) \cup {i} ELSE InScope(r)
          /\ \A t \in Tenants : i \notin InTenant(t)
          /\ \A r \in Scopes : i \notin InScope(r)
      BY <1>2, <2>1, AdmitGroups DEF SlotsInv
    <2>5. /\ Cardinality(Holders') = Cardinality(Holders) + 1
          /\ \A t \in Tenants : Cardinality(InTenant(t)') =
               IF t = TenantOf[s] THEN Cardinality(InTenant(t)) + 1
                                  ELSE Cardinality(InTenant(t))
          /\ \A r \in Scopes : Cardinality(InScope(r)') =
               IF r = s THEN Cardinality(InScope(r)) + 1 ELSE Cardinality(InScope(r))
      BY <1>2, <2>4, GroupsFinite, GroupSizes
    <2>6. CountersMatch'
      BY <2>1, <2>2, <2>5 DEF SlotsInv, SlotsTypeOK, CountersMatch
    <2>7. CapsHold'
      <3>1. /\ Cardinality(Holders) < MaxGlobal
            /\ Cardinality(InTenant(TenantOf[s])) < MaxPerTenant
            /\ Cardinality(InScope(s)) < MaxPerScope
        BY <2>1, <2>2 DEF CanAcquire, SlotsInv, CountersMatch
      <3>2. /\ Cardinality(Holders) \in Nat
            /\ \A t \in Tenants : Cardinality(InTenant(t)) \in Nat
            /\ \A r \in Scopes : Cardinality(InScope(r)) \in Nat
        BY GroupsFinite, GroupSizes
      <3> QED
        BY <2>5, <3>1, <3>2 DEF SlotLimits, SlotsInv, CapsHold
    <2> QED
      BY <2>3, <2>6, <2>7 DEF SlotsInv
  <1> QED
    BY <1>1, <1>2

(* release keeps the invariant: it is keyed by the id that was admitted.   *)
LEMMA ReleaseKeepsInv ==
  ASSUME SlotLimits, SlotsInv, NEW i \in Ids, Release(i)
  PROVE  SlotsInv'
  <1>1. CASE i \notin Holders
    BY <1>1 DEF Release, slotVars, SlotsInv, SlotsTypeOK, CountersMatch, CapsHold,
                Holders, InTenant, InScope
  <1>2. CASE i \in Holders
    <2> DEFINE s == admitted[i]
    <2>1. /\ admitted' = [admitted EXCEPT ![i] = NotAdmitted]
          /\ global' = Less(global)
          /\ perTenant' = [perTenant EXCEPT ![TenantOf[s]] = Less(@)]
          /\ perScope' = [perScope EXCEPT ![s] = Less(@)]
      BY <1>2 DEF Release
    <2>2. /\ Holders' = Holders \ {i}
          /\ \A t \in Tenants : InTenant(t)' =
               IF t = TenantOf[s] THEN InTenant(t) \ {i} ELSE InTenant(t)
          /\ \A r \in Scopes : InScope(r)' =
               IF r = s THEN InScope(r) \ {i} ELSE InScope(r)
          /\ s \in Scopes
          /\ i \in InTenant(TenantOf[s])
          /\ i \in InScope(s)
      BY <1>2, <2>1, ReleaseGroups DEF SlotsInv
    <2>3. TenantOf[s] \in Tenants
      BY <2>2 DEF SlotLimits
    <2>4. \A n \in Nat : Less(n) \in Nat /\ (n > 0 => Less(n) = n - 1)
      BY DEF Less
    <2> HIDE DEF s
    <2>5. SlotsTypeOK'
      BY <2>1, <2>2, <2>3, <2>4 DEF SlotsInv, SlotsTypeOK
    <2>6. /\ Cardinality(Holders) > 0
          /\ Cardinality(Holders') = Cardinality(Holders) - 1
      BY <1>2, <2>2, GroupsFinite, GroupSizes
    <2>7. /\ Cardinality(InTenant(TenantOf[s])) > 0
          /\ \A t \in Tenants : Cardinality(InTenant(t)') =
               IF t = TenantOf[s] THEN Cardinality(InTenant(t)) - 1
                                  ELSE Cardinality(InTenant(t))
      BY <2>2, GroupsFinite, GroupSizes
    <2>8. /\ Cardinality(InScope(s)) > 0
          /\ \A r \in Scopes : Cardinality(InScope(r)') =
               IF r = s THEN Cardinality(InScope(r)) - 1 ELSE Cardinality(InScope(r))
      BY <2>2, GroupsFinite, GroupSizes
    <2>9. CountersMatch'
      <3>1. global' = Cardinality(Holders')
        BY <2>1, <2>4, <2>6 DEF SlotsInv, SlotsTypeOK, CountersMatch
      <3>2. \A t \in Tenants : perTenant'[t] = Cardinality(InTenant(t)')
        BY <2>1, <2>3, <2>4, <2>7 DEF SlotsInv, SlotsTypeOK, CountersMatch
      <3>3. \A r \in Scopes : perScope'[r] = Cardinality(InScope(r)')
        BY <2>1, <2>2, <2>4, <2>8 DEF SlotsInv, SlotsTypeOK, CountersMatch
      <3> QED
        BY <3>1, <3>2, <3>3 DEF CountersMatch
    <2>10. CapsHold'
      <3>1. /\ Cardinality(Holders) \in Nat
            /\ \A t \in Tenants : Cardinality(InTenant(t)) \in Nat
            /\ \A r \in Scopes : Cardinality(InScope(r)) \in Nat
        BY GroupsFinite, GroupSizes
      <3> QED
        BY <2>6, <2>7, <2>8, <3>1 DEF SlotLimits, SlotsInv, CapsHold
    <2> QED
      BY <2>5, <2>9, <2>10 DEF SlotsInv
  <1> QED
    BY <1>1, <1>2

(* The inductive invariant of the ledger.                                  *)
THEOREM SlotsInvariant ==
  ASSUME SlotLimits
  PROVE  Spec => []SlotsInv
  <1>1. SlotsInv /\ [Next]_slotVars => SlotsInv'
    <2> SUFFICES ASSUME SlotsInv, [Next]_slotVars PROVE SlotsInv'
      OBVIOUS
    <2>1. ASSUME NEW i \in Ids, NEW s \in Scopes, Admit(s, i) PROVE SlotsInv'
      BY <2>1, AdmitKeepsInv
    <2>2. ASSUME NEW i \in Ids, Release(i) PROVE SlotsInv'
      BY <2>2, ReleaseKeepsInv
    <2>3. CASE UNCHANGED slotVars
      BY <2>3 DEF slotVars, SlotsInv, SlotsTypeOK, CountersMatch, CapsHold,
                  Holders, InTenant, InScope
    <2> QED
      BY <2>1, <2>2, <2>3 DEF Next
  <1> QED
    BY <1>1, SlotsInitially, PTL DEF Spec

(* The ledger keeps its shape: the counters never leave the naturals.      *)
THEOREM SlotsTypeCorrect ==
  ASSUME SlotLimits
  PROVE  Spec => []SlotsTypeOK
  BY SlotsInvariant, PTL DEF SlotsInv

(* FifoRunningSlots: a release is matched with its admission one to one,   *)
(* so the counters are the admissions.                                     *)
THEOREM SlotsAreCounted ==
  ASSUME SlotLimits
  PROVE  Spec => []CountersMatch
  BY SlotsInvariant, PTL DEF SlotsInv

(* InvocationRunningLimits: the three limits hold at all times.            *)
THEOREM SlotsWithinCaps ==
  ASSUME SlotLimits
  PROVE  Spec => []CapsHold
  BY SlotsInvariant, PTL DEF SlotsInv
=============================================================================
