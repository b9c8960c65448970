------------------------- MODULE InvocationContract --------------------------
(***************************************************************************)
(* What the invocations API promises its callers, with no file, no memory, *)
(* no lock and no clock:                                                   *)
(*   - an accepted invocation runs along the lifecycle graph and reaches   *)
(*     at most one outcome, which stands until the invocation is retired;  *)
(*   - while a key is held, every retry of the request under that key      *)
(*     means the invocation the key was first accepted for;                *)
(*   - a held key never names an invocation that is already retired;       *)
(*   - a restart ends every unfinished invocation, all of them at once.    *)
(* InvocationStore implements this contract with what it keeps on disk.    *)
(***************************************************************************)
EXTENDS InvocationLifecycle

CONSTANTS Ids,      \* invocation ids
          Slots     \* idempotency slots: (tenant, project, actor, key)

VARIABLES phase,    \* phase[i]: where invocation i is in its life
          holders   \* holders[k]: the invocations slot k currently names

vars == <<phase, holders>>

Phases == States \cup {"absent", "retired"}

Init == /\ phase = [i \in Ids |-> "absent"]
        /\ holders = [k \in Slots |-> {}]

(* A request is accepted, under at most one slot, if nobody holds it.      *)
Accept(i, K) ==
  /\ phase[i] = "absent"
  /\ \A k \in K : holders[k] = {}
  /\ phase' = [phase EXCEPT ![i] = "queued"]
  /\ holders' = [k \in Slots |-> IF k \in K THEN {i} ELSE holders[k]]

Advance(i, t) ==
  /\ \/ Permits(phase[i], t)
     \/ phase[i] = "queued" /\ t = "failed"
  /\ phase' = [phase EXCEPT ![i] = t]
  /\ UNCHANGED holders

(* A restart: no unfinished invocation survives it.                        *)
Interrupt ==
  /\ phase' = [i \in Ids |-> IF phase[i] \in Active THEN "failed" ELSE phase[i]]
  /\ UNCHANGED holders

(* Time passes: keys lapse, then finished invocations that no key names    *)
(* any more may be retired.                                                *)
Elapse(R, K) ==
  /\ holders' = [k \in Slots |-> IF k \in K THEN {} ELSE holders[k]]
  /\ \A i \in R : /\ phase[i] \in Terminal
                  /\ \A k \in Slots : i \notin holders'[k]
  /\ phase' = [i \in Ids |-> IF i \in R THEN "retired" ELSE phase[i]]

Next ==
  \/ \E i \in Ids : Accept(i, {})
  \/ \E i \in Ids, k \in Slots : Accept(i, {k})
  \/ \E i \in Ids, t \in States : Advance(i, t)
  \/ Interrupt
  \/ \E R \in SUBSET Ids, K \in SUBSET Slots : Elapse(R, K)

Spec == Init /\ [][Next]_vars
=============================================================================
