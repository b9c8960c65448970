---------------------------- MODULE RunningSlots -----------------------------
(***************************************************************************)
(* The ledger of running slots, FifoRunningSlots                           *)
(* (src/api/http/invocations_enforcement.rs): three counters, one global,  *)
(* one per tenant, one per scope, and the map from each admitted id to the *)
(* scope it was admitted under.  Both operations run under one mutex, so   *)
(* each is one step.  A map entry that reads as zero is a missing entry.   *)
(***************************************************************************)
EXTENDS Naturals, FiniteSets

CONSTANTS
  Ids,          \* invocation ids
  Scopes,       \* (tenant_id, project_id) pairs
  Tenants,      \* tenant ids
  TenantOf,     \* TenantOf[s]: the tenant of scope s
  NotAdmitted,  \* marks an id that holds no slot
  MaxGlobal, MaxPerTenant, MaxPerScope  \* InvocationRunningLimits

(* from_vars replaces a limit that is not a positive integer by its        *)
(* default, so every limit is at least one.  A formula and not an ASSUME:  *)
(* the theorems about the ledger take it as their hypothesis, so that they *)
(* can be used of the instance of the ledger inside the execution bridge.  *)
SlotLimits ==
  /\ MaxGlobal \in Nat \ {0} /\ MaxPerTenant \in Nat \ {0} /\ MaxPerScope \in Nat \ {0}
  /\ TenantOf \in [Scopes -> Tenants]
  /\ NotAdmitted \notin Scopes
  /\ IsFiniteSet(Ids)

VARIABLES admitted, global, perTenant, perScope

slotVars == <<admitted, global, perTenant, perScope>>

Holders      == {i \in Ids : admitted[i] # NotAdmitted}
InScope(s)   == {i \in Ids : admitted[i] = s}
InTenant(t)  == {i \in Holders : TenantOf[admitted[i]] = t}

(* A ledger without the per-tenant limit.                                  *)
Bug_ForgetsTenantCap(s) == global < MaxGlobal /\ perScope[s] < MaxPerScope

(* try_acquire: all three caps must allow one more.                        *)
CanAcquire(s) ==
  /\ global < MaxGlobal
  /\ perTenant[TenantOf[s]] < MaxPerTenant
  /\ perScope[s] < MaxPerScope

(* An admission remembered by its tenant alone.                            *)
Bug_RemembersTenant(s, i) ==
  /\ i \notin Holders /\ CanAcquire(s)
  /\ admitted' = [admitted EXCEPT ![i] = TenantOf[s]]
  /\ global' = global + 1
  /\ perTenant' = [perTenant EXCEPT ![TenantOf[s]] = @ + 1]
  /\ perScope' = [perScope EXCEPT ![s] = @ + 1]

(* try_admit answering true: the id already holds a slot, or takes one.    *)
Admit(s, i) ==
  IF i \in Holders
    THEN UNCHANGED slotVars
    ELSE /\ CanAcquire(s)
         /\ admitted' = [admitted EXCEPT ![i] = s]
         /\ global' = global + 1
         /\ perTenant' = [perTenant EXCEPT ![TenantOf[s]] = @ + 1]
         /\ perScope' = [perScope EXCEPT ![s] = @ + 1]

(* try_admit answering false.                                              *)
Refused(s, i) == i \notin Holders /\ ~CanAcquire(s)

(* usize::saturating_sub(1)                                                *)
Less(n) == IF n = 0 THEN 0 ELSE n - 1

(* A release that does not check that the id still holds a slot.           *)
Bug_ReleaseTwice(i) ==
  /\ admitted' = [admitted EXCEPT ![i] = NotAdmitted]
  /\ global' = Less(global)
  /\ IF i \in Holders
       THEN LET s == admitted[i] IN
            /\ perTenant' = [perTenant EXCEPT ![TenantOf[s]] = Less(@)]
            /\ perScope' = [perScope EXCEPT ![s] = Less(@)]
       ELSE UNCHANGED <<perTenant, perScope>>

(* release: keyed on the admission, so a second release changes nothing.   *)
Release(i) ==
  IF i \notin Holders
    THEN UNCHANGED slotVars
    ELSE LET s == admitted[i] IN
         /\ admitted' = [admitted EXCEPT ![i] = NotAdmitted]
         /\ global' = Less(global)
         /\ perTenant' = [perTenant EXCEPT ![TenantOf[s]] = Less(@)]
         /\ perScope' = [perScope EXCEPT ![s] = Less(@)]

Init ==
  /\ admitted = [i \in Ids |-> NotAdmitted]
  /\ global = 0
  /\ perTenant = [t \in Tenants |-> 0]
  /\ perScope = [s \in Scopes |-> 0]

Next == \E i \in Ids : (\E s \in Scopes : Admit(s, i)) \/ Release(i)

Spec == Init /\ [][Next]_slotVars

-----------------------------------------------------------------------------
SlotsTypeOK ==
  /\ admitted \in [Ids -> Scopes \cup {NotAdmitted}]
  /\ global \in Nat
  /\ perTenant \in [Tenants -> Nat]
  /\ perScope \in [Scopes -> Nat]

(* The counters are the admissions: no admission, release, repeated        *)
(* release or refusal lets a counter drift from what it counts.            *)
CountersMatch ==
  /\ global = Cardinality(Holders)
  /\ \A t \in Tenants : perTenant[t] = Cardinality(InTenant(t))
  /\ \A s \in Scopes : perScope[s] = Cardinality(InScope(s))

(* No more ids hold slots than any of the three limits allows.             *)
CapsHold ==
  /\ Cardinality(Holders) <= MaxGlobal
  /\ \A t \in Tenants : Cardinality(InTenant(t)) <= MaxPerTenant
  /\ \A s \in Scopes : Cardinality(InScope(s)) <= MaxPerScope
=============================================================================
