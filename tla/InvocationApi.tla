---------------------------- MODULE InvocationApi ----------------------------
(***************************************************************************)
(* The create and cancel handlers of the invocations API                   *)
(* (src/api/http/invocations.rs), several calls at a time, over the store. *)
(* Each await or lock acquisition of a handler is a step of its own, so    *)
(* other calls, the execution bridge, the clock and a crash come between   *)
(* a handler's reads and its writes.                                       *)
(*                                                                         *)
(* create: look up the key, reserve it in this process, validate, then the *)
(* atomic create.  The reservation is dropped when the handler returns, or *)
(* when the connection closes and the handler's future is dropped.         *)
(* cancel: read the record, pick the target from its state, then write;    *)
(* one second attempt when the state changed in between.                   *)
(***************************************************************************)
EXTENDS InvocationStore

CONSTANTS
  Calls,        \* concurrent handler calls
  MaxAttempts   \* attempts of the cancel loop (2 in the code)

ASSUME ApiConfig == MaxAttempts \in Nat /\ MaxAttempts >= 2

VARIABLES
  reserved,     \* in_flight: slots whose create is in this process
  call          \* call[c]: what call c is doing

apiVars == <<storeVars, reserved, call>>

Idle == [at |-> "idle", scope |-> None, key |-> None, print |-> None, id |-> None,
         expected |-> 0, target |-> "none", attempts |-> 0, answer |-> "none"]

Slot(c) == <<call[c].scope, call[c].key>>

CreateSteps == {"look_up", "reserve", "validate", "create"}
CancelSteps == {"read", "write"}

(* A call holds its reservation from the insert to the drop of the guard.  *)
Holding(c) == call[c].key # None /\ call[c].at \in {"validate", "create", "created"}

Goto(c, step) == call' = [call EXCEPT ![c].at = step]

(* Returns from a handler that holds no reservation.                       *)
Answer(c, what) ==
  call' = [call EXCEPT ![c] = [Idle EXCEPT !.at = "answered", !.answer = what,
                                           !.id = call[c].id]]

(* An answer that forgets the reservation.                                 *)
Bug_ReleaseKeepsSlot(c) == UNCHANGED reserved

(* Returns from a create; dropping the guard removes the slot.             *)
Release(c) == reserved' = IF Holding(c) THEN reserved \ {Slot(c)} ELSE reserved

-----------------------------------------------------------------------------
(* POST /v1/invocations.  Without a key there is nothing to look up.       *)

Bug_LooksUpNoKey(c, s, k, p) ==
  /\ up /\ call[c].at = "idle"
  /\ call' = [call EXCEPT ![c] = [Idle EXCEPT !.scope = s, !.key = k, !.print = p,
                                    !.at = "look_up"]]
  /\ UNCHANGED <<storeVars, reserved>>

ReceiveCreate(c, s, k, p) ==
  /\ up /\ call[c].at = "idle"
  /\ call' = [call EXCEPT ![c] = [Idle EXCEPT !.scope = s, !.key = k, !.print = p,
                                    !.at = IF k = None THEN "validate" ELSE "look_up"]]
  /\ UNCHANGED <<storeVars, reserved>>

(* find_idempotent_for_claims: a read, under the read lock.                *)
LookUpKey(c) ==
  /\ call[c].at = "look_up"
  /\ LET found == Bound(call[c].scope, call[c].key)
     IN  IF found = {} THEN Goto(c, "reserve")
         ELSE IF \E i \in found : mem[i].print = call[c].print THEN Answer(c, "replayed")
         ELSE Answer(c, "conflict")
  /\ UNCHANGED <<storeVars, reserved>>

ReserveKey(c) ==
  /\ call[c].at = "reserve"
  /\ IF Slot(c) \in reserved
       THEN Answer(c, "in_progress") /\ UNCHANGED reserved
       ELSE Goto(c, "validate") /\ reserved' = reserved \cup {Slot(c)}
  /\ UNCHANGED storeVars

(* Body, input_ref, agent and execution-switch checks: pass or refuse.     *)
Validate(c) ==
  /\ call[c].at = "validate"
  /\ \/ Goto(c, "create") /\ UNCHANGED reserved
     \/ Answer(c, "rejected") /\ Release(c)
  /\ UNCHANGED storeVars

(* create_idempotent_for_claims, and the handler's three kinds of answer.  *)
(* A write that fails is an error answer with nothing written.             *)
CreateRecord(c, i) ==
  LET r == call[c] IN
  /\ r.at = "create"
  /\ \/ /\ Create(i, r.scope, r.key, r.print)
        /\ IF up' THEN /\ call' = [call EXCEPT ![c].at = "created", ![c].id = i]
                       /\ UNCHANGED reserved
                  ELSE call' = [d \in Calls |-> Idle] /\ reserved' = {}
     \/ /\ CreateOutcome(r.scope, r.key, r.print) # "created"
        /\ Answer(c, CreateOutcome(r.scope, r.key, r.print))
        /\ Release(c)
        /\ UNCHANGED storeVars
     \/ /\ CreateOutcome(r.scope, r.key, r.print) = "created"
        /\ Answer(c, "not_persisted") /\ Release(c)
        /\ UNCHANGED storeVars

(* Dispatch and response: no await between them and the create.            *)
FinishCreate(c) ==
  /\ call[c].at = "created"
  /\ Answer(c, "accepted") /\ Release(c)
  /\ UNCHANGED storeVars

-----------------------------------------------------------------------------
(* POST /v1/invocations/:id/cancel, by the creator or a DA.                *)

ReceiveCancel(c, i, expected) ==
  /\ up /\ call[c].at = "idle"
  /\ call' = [call EXCEPT ![c] = [Idle EXCEPT !.at = "read", !.id = i,
                                              !.expected = expected]]
  /\ UNCHANGED <<storeVars, reserved>>

ReadForCancel(c) ==
  LET r == mem[call[c].id] IN
  /\ call[c].at = "read"
  /\ IF ~Stored(r) THEN Answer(c, "not_found")
     ELSE IF CancelTarget(r.state) = "none" THEN Answer(c, "illegal_transition")
     ELSE call' = [call EXCEPT ![c].at = "write", ![c].target = CancelTarget(r.state),
                               ![c].attempts = @ + 1]
  /\ UNCHANGED <<storeVars, reserved>>

(* A handler that compares If-Match with what it read, not under the lock. *)
Bug_IfMatchNotWritten(c) == 0

(* The revision the write is conditional on, on both attempts.             *)
IfMatch(c) == call[c].expected

Bug_NoSecondAttempt(outcome, attempts) == FALSE

MayRetry(outcome, attempts) == outcome = "illegal_transition" /\ attempts < MaxAttempts

WriteCancel(c) ==
  LET r       == call[c]
      outcome == TransitionOutcome(r.id, IfMatch(c), r.target, "none")
  IN
  /\ r.at = "write"
  /\ IF outcome = "changed"
       THEN \/ /\ Transition(r.id, IfMatch(c), r.target, "none")
               /\ IF up' THEN Answer(c, r.target) /\ UNCHANGED reserved
                         ELSE call' = [d \in Calls |-> Idle] /\ reserved' = {}
            \/ Answer(c, "not_persisted") /\ UNCHANGED <<storeVars, reserved>>
       ELSE /\ IF outcome = "unchanged" THEN Answer(c, r.target)
               ELSE IF MayRetry(outcome, r.attempts) THEN Goto(c, "read")
               ELSE Answer(c, outcome)
            /\ UNCHANGED <<storeVars, reserved>>

-----------------------------------------------------------------------------
(* The connection closes while a create is waiting: the future is dropped, *)
(* and the reservation with it.                                            *)
Disconnect(c) ==
  /\ call[c].at \in CreateSteps
  /\ call' = [call EXCEPT ![c] = Idle]
  /\ Release(c)
  /\ UNCHANGED storeVars

Return(c) ==
  /\ call[c].at = "answered"
  /\ call' = [call EXCEPT ![c] = Idle]
  /\ UNCHANGED <<storeVars, reserved>>

(* What the execution bridge writes to the store (see InvocationBridge).   *)
Drive(i) ==
  /\ \/ Transition(i, 0, "running", "none")
     \/ Transition(i, 0, "succeeded", "none")
     \/ mem[i].state = "cancel_requested" /\ Transition(i, 0, "cancelled", "none")
     \/ \E code \in Codes : Transition(i, 0, "failed", code)
  /\ IF up' THEN UNCHANGED <<reserved, call>>
            ELSE reserved' = {} /\ call' = [d \in Calls |-> Idle]

ProcessCrash ==
  /\ Crash
  /\ reserved' = {}
  /\ call' = [c \in Calls |-> Idle]

Restart == Open /\ UNCHANGED <<reserved, call>>
Clock   == Tick /\ UNCHANGED <<reserved, call>>

ApiInit ==
  /\ StoreInit
  /\ reserved = {}
  /\ call = [c \in Calls |-> Idle]

ApiNext ==
  \/ \E c \in Calls :
       \/ \E s \in Scopes : \/ ReceiveCreate(c, s, None, None)
                            \/ \E k \in Keys, p \in Prints : ReceiveCreate(c, s, k, p)
       \/ LookUpKey(c) \/ ReserveKey(c) \/ Validate(c) \/ FinishCreate(c)
       \/ \E i \in Ids : CreateRecord(c, i)
       \/ \E i \in issued : \E e \in {0, published[i].rev, published[i].rev + 1} : ReceiveCancel(c, i, e)
       \/ ReadForCancel(c) \/ WriteCancel(c)
       \/ Disconnect(c) \/ Return(c)
  \/ \E i \in Ids : Drive(i)
  \/ ProcessCrash \/ Restart \/ Clock

ApiSpec == ApiInit /\ [][ApiNext]_apiVars

-----------------------------------------------------------------------------
(* Properties.                                                             *)

(* The shape of the calls and the reservations, on top of the store's.     *)
ApiTypeOK ==
  /\ StoreTypeOK
  /\ reserved \in SUBSET (Scopes \X Keys)
  /\ call \in [Calls ->
       [at : {"idle", "created", "answered"} \cup CreateSteps \cup CancelSteps,
        scope : Scopes \cup {None}, key : Keys \cup {None}, print : Prints \cup {None},
        id : Ids \cup {None}, expected : Nat,
        target : {"none", "cancelled", "cancel_requested"}, attempts : 0..MaxAttempts,
        answer : {"none", "accepted", "replayed", "conflict", "in_progress", "rejected",
                  "too_many_active", "store_full", "not_persisted", "not_found",
                  "revision_conflict", "illegal_transition", "cancelled",
                  "cancel_requested"}]]

(* A reserved slot belongs to exactly one call in progress: neither an     *)
(* error answer, nor a closed connection, nor a crash leaks it, so a key   *)
(* never answers idempotency_key_in_progress for ever.                     *)
ReservationsAreHeld ==
  /\ reserved = {Slot(c) : c \in {d \in Calls : Holding(d)}}
  /\ \A c, d \in Calls : Holding(c) /\ Holding(d) /\ Slot(c) = Slot(d) => c = d

(* The two attempts of the cancel loop are enough: a cancel is refused as  *)
(* an illegal transition only for an invocation that is already finished,  *)
(* never for one that goes on running.                                     *)
RefusedOnlyWhenFinished ==
  \A c \in Calls :
    call[c].answer = "illegal_transition" /\ up =>
      IsTerminal(published[call[c].id])

(* A conditional cancel moves the invocation only from the very revision   *)
(* its caller named, whatever happens between the read and the write, and  *)
(* on the second attempt too (a caller may name a revision yet to come).   *)
ConditionalCancelIsExact ==
  [][\A c \in Calls :
       LET r == call[c] IN
       r.at \in CancelSteps /\ r.expected # 0 /\ mem'[r.id].rev # mem[r.id].rev
         /\ call'[c].at = "answered" /\ call'[c].answer \in {"cancelled", "cancel_requested"}
       => mem[r.id].rev = r.expected]_apiVars

(* cancel_target: a cancel of an invocation whose cancel is requested is   *)
(* "an idempotent no-op"; only the end of the execution leaves             *)
(* cancel_requested, and "the real outcome is recorded instead of being    *)
(* discarded" (docs/29 section 7).                                         *)
RepeatedCancelIsNoOp ==
  [][\A c \in Calls :
       LET i == call[c].id IN
       call[c].at = "write" /\ call'[c].at = "answered"
         /\ mem[i].state = "cancel_requested"
       => mem'[i].state = "cancel_requested"]_apiVars
=============================================================================
