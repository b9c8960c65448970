------------------------- MODULE InvocationLifecycle -------------------------
(***************************************************************************)
(* The lifecycle graph of an invocation: the states a record can be in,    *)
(* the edges the store accepts, and the state a cancel request aims at.    *)
(* Constant operators only; the store, the API and the execution bridge    *)
(* all read the graph from here, as the code reads it from                 *)
(* InvocationState (src/api/http/invocations_store.rs).                    *)
(***************************************************************************)

Active   == {"queued", "running", "cancel_requested"}
Terminal == {"succeeded", "failed", "cancelled"}
States   == Active \cup Terminal

(* The codes that unlock queued -> failed: the run never started.          *)
PreExecutionCodes ==
  {"deadline_exceeded", "projection_context_missing", "task_init_failed",
   "input_digest_mismatch", "input_ref_fetch_failed"}

(* InvocationState::permits, as the set of targets of each state.          *)
Successors(s) ==
  CASE s = "queued"           -> {"running", "cancelled"}
    [] s = "running"          -> {"succeeded", "failed", "cancel_requested"}
    [] s = "cancel_requested" -> {"cancelled", "succeeded", "failed"}
    [] OTHER                  -> {}

Permits(s, t) == t \in Successors(s)

(* InvocationState::permits_with: the unconditional edges, plus            *)
(* queued -> failed when the patch names a pre-execution failure.          *)
PermitsWith(s, t, code) ==
  \/ Permits(s, t)
  \/ s = "queued" /\ t = "failed" /\ code \in PreExecutionCodes

(* InvocationState::cancel_target; "none" when the outcome stands.         *)
CancelTarget(s) ==
  CASE s \in {"queued", "cancelled"}         -> "cancelled"
    [] s \in {"running", "cancel_requested"} -> "cancel_requested"
    [] OTHER                                 -> "none"
=============================================================================
