-------------------------- MODULE ExecutionContract --------------------------
(***************************************************************************)
(* What the execution bridge promises of the invocations it was handed,    *)
(* with no store, no ledger, no token, no notifier and no watcher:         *)
(*   - they are admitted in the order of their creation within a scope,    *)
(*     and never more than the three limits allow;                         *)
(*   - one is started only with a slot, once, and never after it was       *)
(*     withdrawn (cancelled, timed out or failed before its start);        *)
(*   - a slot is given back only when the executor under it is gone;       *)
(*   - what is over stays so, and a crash ends everything at once.         *)
(* InvocationBridge implements this contract with its tasks.               *)
(***************************************************************************)
EXTENDS Naturals, FiniteSets

CONSTANTS Ids, Scopes, Tenants, TenantOf, MaxGlobal, MaxPerTenant, MaxPerScope,
          None      \* "no scope"

VARIABLES stage,    \* stage[i]: where invocation i is
          home      \* home[i]: the scope it is executed for

vars == <<stage, home>>

(* In the queue of its scope, with or without a claim to run; with a slot, *)
(* to be run, running, or not to be run (any more).                        *)
Queue  == {"queue", "withdrawn"}
Slot   == {"slot", "running", "spent"}
Stages == Queue \cup Slot \cup {"none", "over"}

Held        == {i \in Ids : stage[i] \in Slot}
HeldBy(s)   == {i \in Held : home[i] = s}
HeldFrom(t) == {i \in Held : TenantOf[home[i]] = t}

(* All three limits allow one more.                                        *)
Room(s) ==
  /\ Cardinality(Held) < MaxGlobal
  /\ Cardinality(HeldFrom(TenantOf[s])) < MaxPerTenant
  /\ Cardinality(HeldBy(s)) < MaxPerScope

(* Nobody of its scope was there before i and still waits.                 *)
IsNext(i) == \A j \in Ids : j < i /\ home[j] = home[i] => stage[j] # "queue"

Become(i, next) == stage' = [stage EXCEPT ![i] = next] /\ UNCHANGED home

Init == stage = [i \in Ids |-> "none"] /\ home = [i \in Ids |-> None]

Accept(i, s) ==
  /\ stage[i] = "none" /\ \A j \in Ids : stage[j] # "none" => j < i
  /\ stage' = [stage EXCEPT ![i] = "queue"]
  /\ home' = [home EXCEPT ![i] = s]

(* Its record is finished before it was started.                           *)
Withdraw(i) == \/ stage[i] = "queue" /\ Become(i, "withdrawn")
               \/ stage[i] = "slot" /\ Become(i, "spent")

(* One that was withdrawn after it was chosen takes a slot, and keeps no   *)
(* claim to run.                                                           *)
Grant(i) ==
  /\ \/ stage[i] = "queue" /\ Become(i, "slot")
     \/ stage[i] = "withdrawn" /\ Become(i, "spent")
  /\ Room(home[i]) /\ IsNext(i)

Start(i) == stage[i] = "slot" /\ Become(i, "running")

Return(i) == stage[i] = "running" /\ Become(i, "spent")

(* It leaves the queue, or gives its slot back.                            *)
Leave(i) ==
  /\ stage[i] \in Queue \/ stage[i] \in {"slot", "spent"}
  /\ Become(i, "over")

(* A request whose record reached the file in the crash is over too.       *)
Crash ==
  /\ home' = [i \in Ids |-> None]
  /\ \E lost \in SUBSET Ids :
       /\ \A i, j \in lost : i = j
       /\ stage' = [i \in Ids |-> IF stage[i] = "none" /\ i \notin lost THEN "none" ELSE "over"]

Next ==
  \/ \E i \in Ids : (\E s \in Scopes : Accept(i, s)) \/ Withdraw(i) \/ Grant(i)
                    \/ Start(i) \/ Return(i) \/ Leave(i)
  \/ Crash

Spec == Init /\ [][Next]_vars
=============================================================================
