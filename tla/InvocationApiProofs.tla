------------------------- MODULE InvocationApiProofs -------------------------
(***************************************************************************)
(* The create and cancel handlers for any number of concurrent calls,      *)
(* invocations, scopes and keys.  The handlers are one more client of the  *)
(* store, so its theorems hold beneath them.  On top of it, three          *)
(* invariants: CallsInv (what a call at each step carries), from which the *)
(* types and the exactness of the reservations follow, and RefusalInv,     *)
(* which remembers of each cancel call what its reads have shown: that the *)
(* invocation had left `queued` is what makes the second attempt enough.   *)
(***************************************************************************)
EXTENDS InvocationApi, InvocationContractProofs

-----------------------------------------------------------------------------
(* Types.                                                                  *)

Answers == {"none", "accepted", "replayed", "conflict", "in_progress", "rejected",
            "too_many_active", "store_full", "not_persisted", "not_found",
            "revision_conflict", "illegal_transition", "cancelled", "cancel_requested"}

CallType ==
  [at : {"idle", "created", "answered"} \cup CreateSteps \cup CancelSteps,
   scope : Scopes \cup {None}, key : Keys \cup {None}, print : Prints \cup {None},
   id : Ids \cup {None}, expected : Nat,
   target : {"none", "cancelled", "cancel_requested"}, attempts : 0..MaxAttempts,
   answer : Answers]

(* What a call carries at each step: a create its scope and a key with a   *)
(* fingerprint or neither, a cancel its invocation, its target and an      *)
(* attempt it has left.                                                    *)
Carries(r) ==
  /\ r.at \in CreateSteps \cup {"created"} =>
       /\ r.scope \in Scopes
       /\ \/ r.key = None /\ r.print = None
          \/ r.key \in Keys /\ r.print \in Prints
  /\ r.at \in {"look_up", "reserve"} => r.key \in Keys
  /\ r.at \in CancelSteps => r.id \in Ids
  /\ r.at = "read" => r.attempts < MaxAttempts
  /\ r.at = "write" => r.target \in {"cancelled", "cancel_requested"} /\ r.attempts >= 1

CallsInv == call \in [Calls -> CallType] /\ \A c \in Calls : Carries(call[c])

(* A call that has not begun, or has been forgotten in a crash.            *)
LEMMA IdleCall ==
  /\ Idle \in CallType /\ Carries(Idle)
  /\ Idle.at = "idle" /\ Idle.key = None /\ Idle.id = None /\ Idle.attempts = 0
  /\ Idle.answer = "none"
  BY ApiConfig DEF Idle, CallType, Carries, CreateSteps, CancelSteps, Answers

(* Answer.                                                                 *)
LEMMA AnswerKeeps ==
  ASSUME CallsInv, NEW c \in Calls, NEW what \in Answers, Answer(c, what)
  PROVE  CallsInv'
  <1> DEFINE new == [Idle EXCEPT !.at = "answered", !.answer = what, !.id = call[c].id]
  <1>0. call[c].id \in Ids \cup {None} /\ 0 \in 0..MaxAttempts
    BY ApiConfig DEF CallsInv, CallType
  <1>1. new.at = "answered"
    BY IdleCall DEF CallType
  <1>2. new \in CallType
    BY <1>0, IdleCall DEF CallType
  <1>3. Carries(new)
    BY <1>1 DEF Carries, CreateSteps, CancelSteps
  <1> HIDE DEF new
  <1>4. call' = [call EXCEPT ![c] = new]
    BY DEF Answer, new
  <1> QED
    BY <1>2, <1>3, <1>4 DEF CallsInv

(* Goto, where what the call carries fits the next step too.               *)
LEMMA GotoKeeps ==
  ASSUME CallsInv, NEW c \in Calls, NEW step, Goto(c, step),
         step \in CreateSteps \cup CancelSteps \cup {"created"},
         Carries([call[c] EXCEPT !.at = step])
  PROVE  CallsInv'
  BY DEF CallsInv, CallType, Goto

(* Every answer of an atomic create.                                       *)
LEMMA Outcomes ==
  /\ \A s, k, p : CreateOutcome(s, k, p) # "created" => CreateOutcome(s, k, p) \in Answers
  /\ \A i, e, t, code : LET o == TransitionOutcome(i, e, t, code) IN
       o \notin {"changed", "unchanged"} => o \in Answers
  BY DEF CreateOutcome, TransitionOutcome, Answers

(* Every step of a handler keeps what its call carries: a create keeps its *)
(* scope, key and fingerprint up to the write, a cancel reads again only   *)
(* with an attempt left, and a crash forgets all calls.                    *)
LEMMA CallsStep ==
  ASSUME StoreTypeOK, CallsInv, [ApiNext]_apiVars
  PROVE  CallsInv'
  <1>0. call' = call => CallsInv'
    BY DEF CallsInv
  <1>00. call' = [d \in Calls |-> Idle] => CallsInv'
    BY IdleCall DEF CallsInv
  <1>1. ASSUME NEW c \in Calls, NEW new \in CallType, Carries(new),
               call' = [call EXCEPT ![c] = new]
        PROVE  CallsInv'
    BY <1>1 DEF CallsInv
  <1>2. ASSUME NEW c \in Calls, NEW s \in Scopes, NEW k, NEW p,
               (k = None /\ p = None) \/ (k \in Keys /\ p \in Prints), ReceiveCreate(c, s, k, p)
        PROVE  CallsInv'
    <2> DEFINE new == [Idle EXCEPT !.scope = s, !.key = k, !.print = p,
                                   !.at = IF k = None THEN "validate" ELSE "look_up"]
    <2>1. /\ new.at = IF k = None THEN "validate" ELSE "look_up"
          /\ new.scope = s /\ new.key = k /\ new.print = p
      BY IdleCall DEF CallType
    <2>2. k \in Keys \cup {None} /\ p \in Prints \cup {None}
      BY <1>2
    <2>3. new \in CallType
      BY <2>2, IdleCall DEF CallType, CreateSteps
    <2>4. Carries(new)
      BY <1>2, <2>1, NoneIsNoValue DEF Carries, CreateSteps, CancelSteps
    <2> QED
      BY <1>1, <1>2, <2>3, <2>4 DEF ReceiveCreate
  <1>3. ASSUME NEW c \in Calls, LookUpKey(c) PROVE CallsInv'
    <2>1. CASE Goto(c, "reserve")
      <3>1. Carries([call[c] EXCEPT !.at = "reserve"])
        BY <1>3 DEF LookUpKey, CallsInv, CallType, Carries, CreateSteps, CancelSteps
      <3> QED
        BY <2>1, <3>1, GotoKeeps DEF CreateSteps
    <2>2. CASE Answer(c, "replayed") \/ Answer(c, "conflict")
      BY <2>2, AnswerKeeps DEF Answers
    <2> QED
      BY <1>3, <2>1, <2>2 DEF LookUpKey
  <1>4. ASSUME NEW c \in Calls, ReserveKey(c) PROVE CallsInv'
    <2>1. CASE Goto(c, "validate")
      <3>1. Carries([call[c] EXCEPT !.at = "validate"])
        BY <1>4 DEF ReserveKey, CallsInv, CallType, Carries, CreateSteps, CancelSteps
      <3> QED
        BY <2>1, <3>1, GotoKeeps DEF CreateSteps
    <2>2. CASE Answer(c, "in_progress")
      BY <2>2, AnswerKeeps DEF Answers
    <2> QED
      BY <1>4, <2>1, <2>2 DEF ReserveKey
  <1>5. ASSUME NEW c \in Calls, Validate(c) PROVE CallsInv'
    <2>1. CASE Goto(c, "create")
      <3>1. Carries([call[c] EXCEPT !.at = "create"])
        BY <1>5 DEF Validate, CallsInv, CallType, Carries, CreateSteps, CancelSteps
      <3> QED
        BY <2>1, <3>1, GotoKeeps DEF CreateSteps
    <2>2. CASE Answer(c, "rejected")
      BY <2>2, AnswerKeeps DEF Answers
    <2> QED
      BY <1>5, <2>1, <2>2 DEF Validate
  <1>6. ASSUME NEW c \in Calls, NEW i \in Ids, CreateRecord(c, i) PROVE CallsInv'
    <2>1. CASE call' = [call EXCEPT ![c].at = "created", ![c].id = i]
      <3> DEFINE new == [call[c] EXCEPT !.at = "created", !.id = i]
      <3>1. new \in CallType /\ Carries(new)
        BY <1>6 DEF CreateRecord, CallsInv, CallType, Carries, CreateSteps, CancelSteps
      <3>2. call' = [call EXCEPT ![c] = new]
        BY <2>1 DEF CallsInv, CallType
      <3> QED
        BY <1>1, <3>1, <3>2
    <2>2. ASSUME NEW what \in Answers, Answer(c, what) PROVE CallsInv'
      BY <2>2, AnswerKeeps
    <2> QED
      BY <1>00, <1>6, <2>1, <2>2, Outcomes DEF CreateRecord, Answers
  <1>7. ASSUME NEW c \in Calls, FinishCreate(c) PROVE CallsInv'
    BY <1>7, AnswerKeeps DEF FinishCreate, Answers
  <1>8. ASSUME NEW c \in Calls, NEW i \in issued, NEW e \in Nat, ReceiveCancel(c, i, e)
        PROVE  CallsInv'
    <2> DEFINE new == [Idle EXCEPT !.at = "read", !.id = i, !.expected = e]
    <2>1. i \in Ids /\ 0 < MaxAttempts
      BY ApiConfig DEF StoreTypeOK
    <2>2. new.at = "read" /\ new.id = i /\ new.attempts = 0
      BY IdleCall DEF CallType
    <2>3. new \in CallType
      BY <2>1, IdleCall DEF CallType, CancelSteps
    <2>4. Carries(new)
      BY <2>1, <2>2 DEF Carries, CreateSteps, CancelSteps
    <2> QED
      BY <1>1, <1>8, <2>3, <2>4 DEF ReceiveCancel
  <1>9. ASSUME NEW c \in Calls, ReadForCancel(c) PROVE CallsInv'
    <2>1. CASE Answer(c, "not_found") \/ Answer(c, "illegal_transition")
      BY <2>1, AnswerKeeps DEF Answers
    <2>2. CASE /\ call' = [call EXCEPT ![c].at = "write",
                             ![c].target = CancelTarget(mem[call[c].id].state),
                             ![c].attempts = @ + 1]
               /\ CancelTarget(mem[call[c].id].state) # "none"
      <3> DEFINE t == CancelTarget(mem[call[c].id].state)
                 new == [call[c] EXCEPT !.at = "write", !.target = t, !.attempts = @ + 1]
      <3>1. t \in {"cancelled", "cancel_requested"}
        BY <2>2 DEF CancelTarget
      <3>2. call[c] \in CallType /\ call[c].at = "read" /\ call[c].attempts < MaxAttempts
            /\ call[c].id \in Ids
        BY <1>9 DEF ReadForCancel, CallsInv, Carries, CancelSteps
      <3>3. call[c].attempts + 1 \in 0..MaxAttempts /\ call[c].attempts + 1 >= 1
        BY <3>2, ApiConfig DEF CallType
      <3>4. new \in CallType
        BY <3>1, <3>2, <3>3 DEF CallType, CancelSteps
      <3>5. new.at = "write" /\ new.target = t /\ new.attempts = call[c].attempts + 1
            /\ new.id = call[c].id
        BY <3>2 DEF CallType
      <3>6. Carries(new)
        BY <3>1, <3>2, <3>3, <3>5 DEF Carries, CreateSteps, CancelSteps
      <3>7. call' = [call EXCEPT ![c] = new]
        BY <2>2, <3>2 DEF CallsInv, CallType
      <3> QED
        BY <1>1, <3>4, <3>6, <3>7
    <2> QED
      BY <1>9, <2>1, <2>2 DEF ReadForCancel
  <1>10. ASSUME NEW c \in Calls, WriteCancel(c) PROVE CallsInv'
    <2>1. call[c].target \in Answers /\ call[c].at = "write" /\ call[c].id \in Ids
      BY <1>10 DEF WriteCancel, CallsInv, Carries, CancelSteps, Answers
    <2>2. ASSUME Goto(c, "read"), call[c].attempts < MaxAttempts PROVE CallsInv'
      <3>1. Carries([call[c] EXCEPT !.at = "read"])
        BY <2>1, <2>2 DEF CallsInv, CallType, Carries, CreateSteps, CancelSteps
      <3> QED
        BY <2>2, <3>1, GotoKeeps DEF CancelSteps
    <2>3. ASSUME NEW what \in Answers, Answer(c, what) PROVE CallsInv'
      BY <2>3, AnswerKeeps
    <2> QED
      BY <1>00, <1>10, <2>1, <2>2, <2>3, Outcomes DEF WriteCancel, MayRetry, Answers
  <1>11. ASSUME NEW c \in Calls, Disconnect(c) \/ Return(c) PROVE CallsInv'
    BY <1>1, <1>11, IdleCall DEF Disconnect, Return
  <1>12. ASSUME NEW i \in Ids, Drive(i) PROVE CallsInv'
    BY <1>0, <1>00, <1>12 DEF Drive
  <1>13. CASE ProcessCrash \/ Restart \/ Clock \/ UNCHANGED apiVars
    BY <1>0, <1>00, <1>13 DEF ProcessCrash, Restart, Clock, apiVars
  <1>14. \A i \in issued : {0, published[i].rev, published[i].rev + 1} \subseteq Nat
    BY DEF StoreTypeOK, Record
  <1> QED
    BY <1>2, <1>3, <1>4, <1>5, <1>6, <1>7, <1>8, <1>9, <1>10, <1>11, <1>12, <1>13, <1>14
    DEF ApiNext

(* No call is in progress.                                                 *)
LEMMA CallsInitially == ApiInit => BasicInv /\ CallsInv
  BY BasicInitially, IdleCall DEF ApiInit, CallsInv

-----------------------------------------------------------------------------
(* The handlers are a client of the store.                                 *)

(* Whatever a handler, the clock, a crash or the bridge does to the store  *)
(* is a step of the store: a conditional cancel is written with no         *)
(* revision or with the very one memory holds.                             *)
LEMMA ApiWrites ==
  ASSUME StoreTypeOK, CallsInv, ApiNext
  PROVE  StoreNext \/ UNCHANGED storeVars
  <1>1. ASSUME NEW c \in Calls, NEW i \in Ids, CreateRecord(c, i)
        PROVE  StoreNext \/ UNCHANGED storeVars
    <2>1. /\ call[c].scope \in Scopes
          /\ \/ call[c].key = None /\ call[c].print = None
             \/ call[c].key \in Keys /\ call[c].print \in Prints
      BY <1>1 DEF CreateRecord, CallsInv, Carries, CreateSteps
    <2>2. CASE Create(i, call[c].scope, call[c].key, call[c].print)
      BY <2>1, <2>2 DEF StoreNext, CreateAny
    <2> QED
      BY <1>1, <2>2 DEF CreateRecord
  <1>2. ASSUME NEW c \in Calls, WriteCancel(c)
        PROVE  StoreNext \/ UNCHANGED storeVars
    <2>1. /\ call[c].id \in Ids /\ call[c].target \in {"cancelled", "cancel_requested"}
          /\ call[c].target \in States /\ call[c].target # "failed"
      BY <1>2 DEF WriteCancel, CallsInv, Carries, CancelSteps, States, Active, Terminal
    <2>2. CASE Transition(call[c].id, call[c].expected, call[c].target, "none")
      <3>1. call[c].expected \in {0, mem[call[c].id].rev}
        BY <2>2 DEF Transition, TransitionOutcome
      <3> QED
        BY <2>1, <2>2, <3>1 DEF StoreNext, TransitionAny
    <2> QED
      BY <1>2, <2>2 DEF WriteCancel, IfMatch
  <1>3. ASSUME NEW i \in Ids, Drive(i)
        PROVE  StoreNext \/ UNCHANGED storeVars
    <2>1. {"running", "succeeded", "cancelled", "failed"} \subseteq States
      BY DEF States, Active, Terminal
    <2> QED
      BY <1>3, <2>1 DEF Drive, StoreNext, TransitionAny
  <1>4. ASSUME NEW c \in Calls,
               \/ \E s \in Scopes, k \in Keys \cup {None}, p \in Prints \cup {None} :
                    ReceiveCreate(c, s, k, p)
               \/ LookUpKey(c) \/ ReserveKey(c) \/ Validate(c) \/ FinishCreate(c)
               \/ \E i \in issued, e \in Nat : ReceiveCancel(c, i, e)
               \/ ReadForCancel(c) \/ Disconnect(c) \/ Return(c)
        PROVE  UNCHANGED storeVars
    BY <1>4 DEF ReceiveCreate, LookUpKey, ReserveKey, Validate, FinishCreate, ReceiveCancel,
                ReadForCancel, Disconnect, Return
  <1>5. CASE ProcessCrash \/ Restart \/ Clock
    BY <1>5 DEF ProcessCrash, Restart, Clock, StoreNext
  <1>6. \A i \in issued : {0, published[i].rev, published[i].rev + 1} \subseteq Nat
    BY DEF StoreTypeOK, Record
  <1> QED
    BY <1>1, <1>2, <1>3, <1>4, <1>5, <1>6 DEF ApiNext

(* The calls of the two handlers carry what their next step needs.         *)
THEOREM ApiCalls == ApiSpec => [](BasicInv /\ CallsInv)
  <1>1. BasicInv /\ CallsInv /\ [ApiNext]_apiVars => BasicInv' /\ CallsInv'
    <2> SUFFICES ASSUME BasicInv, CallsInv, [ApiNext]_apiVars PROVE BasicInv' /\ CallsInv'
      OBVIOUS
    <2>1. StoreTypeOK
      BY DEF BasicInv
    <2>2. [StoreNext]_storeVars
      BY <2>1, ApiWrites DEF apiVars
    <2> QED
      BY <2>1, <2>2, BasicStep, CallsStep
  <1> QED
    BY <1>1, CallsInitially, PTL DEF ApiSpec

(* The handlers drive the records only through the operations of the       *)
(* store, so every theorem about the store holds beneath them.             *)
THEOREM ApiIsStoreClient == ApiSpec => StoreSpec
  <1>1. BasicInv /\ CallsInv /\ [ApiNext]_apiVars => [StoreNext]_storeVars
    BY ApiWrites DEF BasicInv, apiVars
  <1>2. ApiInit => StoreInit
    BY DEF ApiInit
  <1> QED
    BY <1>1, <1>2, ApiCalls, PTL DEF ApiSpec, StoreSpec

(* However their steps interleave, the create and cancel handlers keep the *)
(* store's contract: no call accepts twice, revives what was retired, or   *)
(* moves an invocation against its lifecycle.                              *)
THEOREM ApiKeepsContract == ApiSpec => KeepsContract
  BY ApiIsStoreClient, StoreKeepsContract, PTL

(* However many creates race, with lost connections and crashes between    *)
(* their steps, one live Idempotency-Key in one scope never shows two      *)
(* invocations.                                                            *)
THEOREM ApiKeepsKeysApart == ApiSpec => []OneInvocationPerLiveKey
  BY ApiIsStoreClient, StoreKeepsKeysApart, PTL

-----------------------------------------------------------------------------
(* Reservations.                                                           *)

(* A call that changes without touching what it has reserved.              *)
LEMMA SameReservation ==
  ASSUME ReservationsAreHeld, NEW c \in Calls, reserved' = reserved,
         \A d \in Calls \ {c} : call'[d] = call[d],
         Holding(c)' <=> Holding(c), Holding(c) => Slot(c)' = Slot(c)
  PROVE  ReservationsAreHeld'
  <1>1. \A d \in Calls \ {c} : (Holding(d)' <=> Holding(d)) /\ Slot(d)' = Slot(d)
    BY DEF Holding, Slot
  <1>2. {Slot(d)' : d \in {e \in Calls : Holding(e)'}} = {Slot(d) : d \in {e \in Calls : Holding(e)}}
    BY <1>1
  <1> QED
    BY <1>1, <1>2 DEF ReservationsAreHeld

(* ReserveKey takes a slot that nobody holds.                              *)
LEMMA TakesReservation ==
  ASSUME ReservationsAreHeld, NEW c \in Calls, ~Holding(c), Holding(c)',
         \A d \in Calls \ {c} : call'[d] = call[d],
         Slot(c)' \notin reserved, reserved' = reserved \cup {Slot(c)'}
  PROVE  ReservationsAreHeld'
  <1>1. \A d \in Calls \ {c} : (Holding(d)' <=> Holding(d)) /\ Slot(d)' = Slot(d)
    BY DEF Holding, Slot
  <1>2. {Slot(d)' : d \in {e \in Calls : Holding(e)'}}
          = {Slot(d) : d \in {e \in Calls : Holding(e)}} \cup {Slot(c)'}
    BY <1>1
  <1>3. \A d \in Calls : Holding(d) => Slot(d) # Slot(c)'
    BY DEF ReservationsAreHeld
  <1> QED
    BY <1>1, <1>2, <1>3 DEF ReservationsAreHeld

(* The drop of the guard gives back the caller's slot and no other.        *)
LEMMA DropsReservation ==
  ASSUME ReservationsAreHeld, NEW c \in Calls, ~Holding(c)', Release(c),
         \A d \in Calls \ {c} : call'[d] = call[d]
  PROVE  ReservationsAreHeld'
  <1>1. \A d \in Calls \ {c} : (Holding(d)' <=> Holding(d)) /\ Slot(d)' = Slot(d)
    BY DEF Holding, Slot
  <1>2. {Slot(d)' : d \in {e \in Calls : Holding(e)'}}
          = {Slot(d) : d \in {e \in Calls \ {c} : Holding(e)}}
    BY <1>1
  <1>3. reserved' = {Slot(d) : d \in {e \in Calls \ {c} : Holding(e)}}
    BY DEF ReservationsAreHeld, Release
  <1> QED
    BY <1>1, <1>2, <1>3 DEF ReservationsAreHeld

(* What Answer and Goto leave of the other calls, and of this one.         *)
LEMMA AnswerFrame ==
  ASSUME CallsInv, NEW c \in Calls, NEW what, Answer(c, what)
  PROVE  ~Holding(c)' /\ \A d \in Calls \ {c} : call'[d] = call[d]
  BY DEF CallsInv, Answer, Idle, Holding

(* Goto moves one call and keeps what it carries.                          *)
LEMMA GotoFrame ==
  ASSUME CallsInv, NEW c \in Calls, NEW step, Goto(c, step)
  PROVE  /\ \A d \in Calls \ {c} : call'[d] = call[d]
         /\ call'[c].at = step /\ call'[c].key = call[c].key /\ Slot(c)' = Slot(c)
  BY DEF CallsInv, CallType, Goto, Slot

(* Every return of the create handler drops its reservation and no other,  *)
(* a closed connection and a crash included.                               *)
LEMMA ReservationsStep ==
  ASSUME CallsInv, ReservationsAreHeld, [ApiNext]_apiVars
  PROVE  ReservationsAreHeld'
  <1>0. UNCHANGED <<reserved, call>> => ReservationsAreHeld'
    BY DEF ReservationsAreHeld, Holding, Slot
  <1>00. reserved' = {} /\ call' = [d \in Calls |-> Idle] => ReservationsAreHeld'
    BY DEF ReservationsAreHeld, Holding, Idle
  <1>01. ASSUME NEW c \in Calls, NEW what, Answer(c, what), Release(c) PROVE ReservationsAreHeld'
    BY <1>01, AnswerFrame, DropsReservation
  <1>02. ASSUME NEW c \in Calls, NEW what, Answer(c, what), reserved' = reserved, ~Holding(c)
         PROVE  ReservationsAreHeld'
    BY <1>02, AnswerFrame, SameReservation
  <1>1. ASSUME NEW c \in Calls, NEW s, NEW k, NEW p, NEW at,
               call' = [call EXCEPT ![c] = [Idle EXCEPT !.scope = s, !.key = k, !.print = p, !.at = at]],
               call[c].at = "idle", reserved' = reserved,
               k = None \/ at = "look_up"
        PROVE  ReservationsAreHeld'
    <2>1. ~Holding(c) /\ ~Holding(c)' /\ \A d \in Calls \ {c} : call'[d] = call[d]
      BY <1>1 DEF CallsInv, Idle, Holding
    <2> QED
      BY <1>1, <2>1, SameReservation
  <1>2. ASSUME NEW c \in Calls, NEW s, NEW k, NEW p, ReceiveCreate(c, s, k, p)
        PROVE  ReservationsAreHeld'
    BY <1>1, <1>2 DEF ReceiveCreate
  <1>3. ASSUME NEW c \in Calls, LookUpKey(c) PROVE ReservationsAreHeld'
    <2>1. ~Holding(c) /\ reserved' = reserved
      BY <1>3 DEF LookUpKey, Holding
    <2>2. CASE Goto(c, "reserve")
      <3>1. ~Holding(c)'
        BY <2>2, GotoFrame DEF Holding
      <3> QED
        BY <2>1, <2>2, <3>1, GotoFrame, SameReservation
    <2> QED
      BY <1>02, <1>3, <2>1, <2>2 DEF LookUpKey
  <1>4. ASSUME NEW c \in Calls, ReserveKey(c) PROVE ReservationsAreHeld'
    <2>1. ~Holding(c) /\ call[c].key # None
      BY <1>4, NoneIsNoValue DEF ReserveKey, CallsInv, Carries, Holding
    <2>2. CASE Slot(c) \notin reserved /\ Goto(c, "validate") /\ reserved' = reserved \cup {Slot(c)}
      <3>1. Holding(c)' /\ Slot(c)' = Slot(c)
        BY <2>1, <2>2, GotoFrame DEF Holding
      <3> QED
        BY <2>1, <2>2, <3>1, GotoFrame, TakesReservation
    <2> QED
      BY <1>02, <1>4, <2>1, <2>2 DEF ReserveKey
  <1>5. ASSUME NEW c \in Calls, Validate(c) PROVE ReservationsAreHeld'
    <2>1. CASE Goto(c, "create") /\ UNCHANGED reserved
      <3>1. Holding(c)' <=> Holding(c)
        BY <1>5, <2>1, GotoFrame DEF Validate, Holding
      <3> QED
        BY <2>1, <3>1, GotoFrame, SameReservation
    <2> QED
      BY <1>01, <1>5, <2>1 DEF Validate
  <1>6. ASSUME NEW c \in Calls, NEW i \in Ids, CreateRecord(c, i) PROVE ReservationsAreHeld'
    <2>1. CASE call' = [call EXCEPT ![c].at = "created", ![c].id = i] /\ UNCHANGED reserved
      <3>1. /\ \A d \in Calls \ {c} : call'[d] = call[d]
            /\ call'[c].at = "created" /\ call'[c].key = call[c].key
            /\ call'[c].scope = call[c].scope
        BY <2>1 DEF CallsInv, CallType
      <3>2. (Holding(c)' <=> Holding(c)) /\ Slot(c)' = Slot(c)
        BY <1>6, <3>1 DEF CreateRecord, Holding, Slot
      <3> QED
        BY <2>1, <3>1, <3>2, SameReservation
    <2> QED
      BY <1>00, <1>01, <1>6, <2>1 DEF CreateRecord
  <1>7. ASSUME NEW c \in Calls, FinishCreate(c) PROVE ReservationsAreHeld'
    BY <1>01, <1>7 DEF FinishCreate
  <1>8. ASSUME NEW c \in Calls, NEW i, NEW e, ReceiveCancel(c, i, e) PROVE ReservationsAreHeld'
    <2>1. ~Holding(c) /\ ~Holding(c)' /\ \A d \in Calls \ {c} : call'[d] = call[d]
      BY <1>8 DEF ReceiveCancel, CallsInv, Idle, Holding
    <2> QED
      BY <1>8, <2>1, SameReservation DEF ReceiveCancel
  <1>9. ASSUME NEW c \in Calls, ReadForCancel(c) PROVE ReservationsAreHeld'
    <2>1. ~Holding(c) /\ reserved' = reserved
      BY <1>9 DEF ReadForCancel, Holding
    <2>2. CASE call' = [call EXCEPT ![c].at = "write",
                          ![c].target = CancelTarget(mem[call[c].id].state),
                          ![c].attempts = @ + 1]
      <3>1. ~Holding(c)' /\ \A d \in Calls \ {c} : call'[d] = call[d]
        BY <2>2 DEF CallsInv, CallType, Holding
      <3> QED
        BY <2>1, <3>1, SameReservation
    <2> QED
      BY <1>02, <1>9, <2>1, <2>2 DEF ReadForCancel
  <1>10. ASSUME NEW c \in Calls, WriteCancel(c) PROVE ReservationsAreHeld'
    <2>1. ~Holding(c)
      BY <1>10 DEF WriteCancel, Holding
    <2>2. CASE Goto(c, "read") /\ reserved' = reserved
      <3>1. ~Holding(c)'
        BY <2>2, GotoFrame DEF Holding
      <3> QED
        BY <2>1, <2>2, <3>1, GotoFrame, SameReservation
    <2> QED
      BY <1>00, <1>02, <1>10, <2>1, <2>2 DEF WriteCancel
  <1>11. ASSUME NEW c \in Calls, Disconnect(c) PROVE ReservationsAreHeld'
    <2>1. ~Holding(c)' /\ \A d \in Calls \ {c} : call'[d] = call[d]
      BY <1>11 DEF Disconnect, CallsInv, Idle, Holding
    <2> QED
      BY <1>11, <2>1, DropsReservation DEF Disconnect
  <1>12. ASSUME NEW c \in Calls, Return(c) PROVE ReservationsAreHeld'
    <2>1. ~Holding(c) /\ ~Holding(c)' /\ \A d \in Calls \ {c} : call'[d] = call[d]
      BY <1>12 DEF Return, CallsInv, Idle, Holding
    <2> QED
      BY <1>12, <2>1, SameReservation DEF Return
  <1>13. ASSUME NEW i \in Ids, Drive(i) PROVE ReservationsAreHeld'
    BY <1>0, <1>00, <1>13 DEF Drive
  <1>14. CASE ProcessCrash \/ Restart \/ Clock \/ UNCHANGED apiVars
    BY <1>0, <1>00, <1>14 DEF ProcessCrash, Restart, Clock, apiVars
  <1> QED
    BY <1>2, <1>3, <1>4, <1>5, <1>6, <1>7, <1>8, <1>9, <1>10, <1>11, <1>12, <1>13, <1>14
    DEF ApiNext

(* Nothing is reserved at the start.                                       *)
LEMMA ReservationsInitially == ApiInit => ReservationsAreHeld
  BY DEF ApiInit, ReservationsAreHeld, Holding, Idle

(* in_flight holds exactly the slots of the creates between their insert   *)
(* and the drop of their guard, each for one call: no key answers          *)
(* idempotency_key_in_progress for ever.                                   *)
THEOREM ApiReservations == ApiSpec => []ReservationsAreHeld
  <1>1. CallsInv /\ ReservationsAreHeld /\ [ApiNext]_apiVars => ReservationsAreHeld'
    BY ReservationsStep
  <1> QED
    BY <1>1, ReservationsInitially, ApiCalls, PTL DEF ApiSpec

(* Store, reservations and calls have their types: ApiTypeOK for every     *)
(* value of the constants.                                                 *)
THEOREM ApiTypeCorrect == ApiSpec => []ApiTypeOK
  <1>1. BasicInv /\ CallsInv /\ ReservationsAreHeld => ApiTypeOK
    <2> SUFFICES ASSUME BasicInv, CallsInv, ReservationsAreHeld PROVE ApiTypeOK
      OBVIOUS
    <2>1. ASSUME NEW c \in Calls, Holding(c) PROVE Slot(c) \in Scopes \X Keys
      BY <2>1 DEF Holding, Slot, CallsInv, Carries, CreateSteps
    <2>2. reserved \in SUBSET (Scopes \X Keys)
      BY <2>1 DEF ReservationsAreHeld
    <2> QED
      BY <2>2 DEF ApiTypeOK, BasicInv, CallsInv, CallType, Answers
  <1> QED
    BY <1>1, ApiCalls, ApiReservations, PTL

-----------------------------------------------------------------------------
(* What one call does.                                                     *)

(* A call changes by a step of its own, or is forgotten.                   *)
LEMMA CallMoves ==
  ASSUME StoreTypeOK, CallsInv, [ApiNext]_apiVars, NEW c \in Calls
  PROVE  \/ call'[c] = call[c] \/ call'[c] = Idle
         \/ \E s \in Scopes, k \in Keys \cup {None}, p \in Prints \cup {None} :
              ReceiveCreate(c, s, k, p)
         \/ LookUpKey(c) \/ ReserveKey(c) \/ Validate(c)
         \/ \E i \in Ids : CreateRecord(c, i)
         \/ FinishCreate(c)
         \/ \E i \in Ids, e \in Nat : ReceiveCancel(c, i, e)
         \/ ReadForCancel(c) \/ WriteCancel(c)
  <1>1. ASSUME NEW d \in Calls, d # c,
               \/ \E s, k, p : ReceiveCreate(d, s, k, p)
               \/ LookUpKey(d) \/ ReserveKey(d) \/ Validate(d) \/ FinishCreate(d)
               \/ \E i, e : ReceiveCancel(d, i, e)
               \/ ReadForCancel(d) \/ Disconnect(d) \/ Return(d)
        PROVE  call'[c] = call[c]
    BY <1>1 DEF ReceiveCreate, LookUpKey, ReserveKey, Validate, FinishCreate, ReceiveCancel,
                ReadForCancel, Disconnect, Return, Answer, Goto, CallsInv
  <1>2. ASSUME NEW d \in Calls, d # c, WriteCancel(d) \/ \E i : CreateRecord(d, i)
        PROVE  call'[c] = call[c] \/ call'[c] = Idle
    BY <1>2 DEF WriteCancel, CreateRecord, Answer, Goto, CallsInv
  <1>3. Disconnect(c) \/ Return(c) => call'[c] = Idle
    BY DEF Disconnect, Return, CallsInv
  <1>4. ASSUME NEW i, Drive(i) PROVE call'[c] = call[c] \/ call'[c] = Idle
    BY <1>4 DEF Drive
  <1>5. CASE ProcessCrash \/ Restart \/ Clock \/ UNCHANGED apiVars
    BY <1>5 DEF ProcessCrash, Restart, Clock, apiVars
  <1>6. \A i \in issued : i \in Ids /\ {0, published[i].rev, published[i].rev + 1} \subseteq Nat
    BY DEF StoreTypeOK, Record
  <1> QED
    BY <1>1, <1>2, <1>3, <1>4, <1>5, <1>6 DEF ApiNext

(* A cancel with If-Match moves the invocation only from the very revision *)
(* its caller named, on the second attempt too, because the comparison is  *)
(* made under the write lock.                                              *)
THEOREM ApiConditionalCancels == ApiSpec => ConditionalCancelIsExact
  <1> DEFINE Exact(c) ==
        LET r == call[c] IN
        r.at \in CancelSteps /\ r.expected # 0 /\ mem'[r.id].rev # mem[r.id].rev
          /\ call'[c].at = "answered" /\ call'[c].answer \in {"cancelled", "cancel_requested"}
        => mem[r.id].rev = r.expected
  <1>1. ASSUME StoreTypeOK, CallsInv, [ApiNext]_apiVars, NEW c \in Calls PROVE Exact(c)
    <2>1. CASE call'[c] = call[c] \/ call'[c] = Idle
      BY <2>1 DEF CancelSteps, Idle
    <2>2. CASE WriteCancel(c)
      <3>1. ASSUME Transition(call[c].id, call[c].expected, call[c].target, "none"),
                   call[c].expected # 0
            PROVE  mem[call[c].id].rev = call[c].expected
        BY <3>1 DEF Transition, TransitionOutcome
      <3>2. \/ UNCHANGED storeVars
            \/ Transition(call[c].id, call[c].expected, call[c].target, "none")
        BY <2>2 DEF WriteCancel, IfMatch
      <3> QED
        BY <3>1, <3>2 DEF storeVars
    <2>3. CASE ReadForCancel(c)
      BY <2>3 DEF ReadForCancel, storeVars
    <2>4. CASE call[c].at \notin CancelSteps
      BY <2>4
    <2> QED
      BY <1>1, <2>1, <2>2, <2>3, <2>4, CallMoves
      DEF ReceiveCreate, LookUpKey, ReserveKey, Validate, CreateRecord, FinishCreate,
          ReceiveCancel, CancelSteps
  <1>2. BasicInv /\ CallsInv /\ [ApiNext]_apiVars => [\A c \in Calls : Exact(c)]_apiVars
    BY <1>1 DEF BasicInv
  <1> QED
    BY <1>2, ApiCalls, PTL DEF ApiSpec, ConditionalCancelIsExact

-----------------------------------------------------------------------------
(* Two attempts are enough.                                                *)

StoreInv == BasicInv /\ HistoryInv /\ ShownInv

(* The invocation was shown after it had left queued.                      *)
LeftQueue(i) == Stored(published[i]) /\ published[i].state # "queued"

(* What a cancel call knows from what it has read.                         *)
Knows(r) ==
  /\ r.at # "answered" => r.answer = "none"
  /\ r.at = "read" /\ r.attempts >= 1 => LeftQueue(r.id)
  /\ r.at = "write" /\ r.target = "cancel_requested" => LeftQueue(r.id)
  /\ r.at = "write" /\ r.target = "cancelled" /\ r.attempts >= 2
       => published[r.id].state = "cancelled"
  /\ r.answer = "illegal_transition" => r.id \in Ids /\ IsTerminal(published[r.id])

RefusalInv == \A c \in Calls : Knows(call[c])

(* What was shown does not go back.                                        *)
LEMMA ShownStands ==
  ASSUME StoreInv, [StoreNext]_storeVars, NEW i \in Ids
  PROVE  /\ LeftQueue(i) => LeftQueue(i)'
         /\ IsTerminal(published[i]) => published'[i].state = published[i].state
  <1>1. ShownContinues /\ ShownStays
    BY HistoryStep, ShownStep DEF StoreInv
  <1>2. IsTerminal(published[i]) => Stored(published[i])
    BY DEF IsTerminal, Terminal, Stored
  <1> QED
    BY <1>1, <1>2 DEF ShownContinues, ShownStays, LeftQueue, Continues

(* What memory holds is what was shown last.                               *)
LEMMA MemoryIsShown ==
  ASSUME StoreInv, NEW i \in Ids, Stored(mem[i])
  PROVE  published[i] = mem[i]
  <1>1. up
    BY DEF StoreInv, BasicInv, NoRecords, Absent, Stored
  <1> QED
    BY <1>1 DEF StoreInv, ShownInv

(* A call that stays where it is knows what it knew.                       *)
LEMMA KnowsStill ==
  ASSUME StoreInv, CallsInv, [StoreNext]_storeVars, NEW c \in Calls, Knows(call[c]),
         call'[c] = call[c]
  PROVE  Knows(call[c])'
  <1>1. call[c].at \in CancelSteps => call[c].id \in Ids
    BY DEF CallsInv, Carries
  <1>2. "cancelled" \in Terminal
    BY DEF Terminal
  <1> QED
    BY <1>1, <1>2, ShownStands DEF Knows, IsTerminal, CancelSteps

(* An answer other than illegal_transition says nothing.                   *)
LEMMA OtherAnswer ==
  ASSUME CallsInv, NEW c \in Calls, NEW what, Answer(c, what), what # "illegal_transition"
  PROVE  Knows(call[c])'
  BY DEF CallsInv, Answer, Idle, Knows

(* A call on its way to create, or forgotten, has nothing to know.         *)
LEMMA NothingToKnow ==
  ASSUME NEW c \in Calls, call'[c].at \notin CancelSteps, call'[c].answer = "none"
  PROVE  Knows(call[c])'
  BY DEF Knows, CancelSteps

(* The read of the cancel loop.                                            *)
LEMMA ReadKnows ==
  ASSUME StoreInv, CallsInv, NEW c \in Calls, Knows(call[c]), ReadForCancel(c)
  PROVE  Knows(call[c])'
  <1> DEFINE i == call[c].id
  <1>1. i \in Ids /\ UNCHANGED storeVars /\ call[c] \in CallType
    BY DEF ReadForCancel, CallsInv, Carries, CancelSteps
  <1>2. CASE Answer(c, "not_found")
    BY <1>2, OtherAnswer
  <1>3. CASE Stored(mem[i]) /\ CancelTarget(mem[i].state) = "none" /\ Answer(c, "illegal_transition")
    <2>1. mem[i].state \in RecordState
      BY <1>1 DEF StoreInv, BasicInv, StoreTypeOK, Record
    <2>2. IsTerminal(mem[i])
      BY <1>3, <2>1 DEF CancelTarget, RecordState, States, Active, Terminal, IsTerminal, Stored
    <2>3. IsTerminal(published'[i])
      BY <1>1, <1>3, <2>2, MemoryIsShown DEF storeVars
    <2>4. call'[c].id = i /\ call'[c].at = "answered"
      BY <1>3 DEF CallsInv, Answer, Idle
    <2> QED
      BY <1>1, <2>3, <2>4 DEF Knows
  <1>4. CASE /\ Stored(mem[i]) /\ CancelTarget(mem[i].state) # "none"
             /\ call' = [call EXCEPT ![c].at = "write", ![c].target = CancelTarget(mem[i].state),
                                     ![c].attempts = @ + 1]
    <2>1. /\ call'[c].at = "write" /\ call'[c].target = CancelTarget(mem[i].state)
          /\ call'[c].attempts = call[c].attempts + 1 /\ call'[c].id = i
          /\ call'[c].answer = call[c].answer
      BY <1>1, <1>4 DEF CallsInv, CallType
    <2>2. published'[i] = mem[i] /\ published[i] = mem[i]
      BY <1>1, <1>4, MemoryIsShown DEF storeVars
    <2>3. call[c].at = "read" /\ call[c].answer = "none" /\ call[c].attempts \in Nat
      BY <1>1, ApiConfig DEF ReadForCancel, Knows, CallType
    <2>4. call'[c].attempts >= 2 => mem[i].state # "queued"
      BY <2>1, <2>2, <2>3 DEF Knows, LeftQueue
    <2>5. CancelTarget(mem[i].state) = "cancel_requested" => mem[i].state # "queued"
      BY DEF CancelTarget
    <2>6. CancelTarget(mem[i].state) = "cancelled" /\ mem[i].state # "queued"
            => mem[i].state = "cancelled"
      BY DEF CancelTarget
    <2> QED
      BY <1>4, <2>1, <2>2, <2>3, <2>4, <2>5, <2>6 DEF Knows, LeftQueue
  <1> QED
    BY <1>2, <1>3, <1>4 DEF ReadForCancel

(* The write of the cancel loop.                                           *)
LEMMA WriteKnows ==
  ASSUME StoreInv, CallsInv, NEW c \in Calls, Knows(call[c]), WriteCancel(c)
  PROVE  Knows(call[c])'
  <1> DEFINE i == call[c].id
             t == call[c].target
             outcome == TransitionOutcome(i, IfMatch(c), t, "none")
  <1>1. /\ i \in Ids /\ t \in {"cancelled", "cancel_requested"} /\ call[c].attempts >= 1
        /\ call[c].at = "write" /\ call[c].answer = "none" /\ call[c] \in CallType
    BY DEF WriteCancel, CallsInv, Carries, CancelSteps, Knows
  <1>2. outcome = "illegal_transition" =>
          Stored(mem[i]) /\ mem[i].state # t /\ ~PermitsWith(mem[i].state, t, "none")
    BY DEF TransitionOutcome
  <1>3. outcome = "illegal_transition" => mem[i].state # "queued" /\ published[i] = mem[i]
    BY <1>1, <1>2, MemoryIsShown DEF PermitsWith, Permits, Successors, Knows, LeftQueue
  <1>4. CASE Goto(c, "read") /\ outcome = "illegal_transition" /\ UNCHANGED storeVars
    <2>1. /\ call'[c].at = "read" /\ call'[c].id = i /\ call'[c].answer = "none"
      BY <1>1, <1>4 DEF CallsInv, CallType, Goto
    <2>2. Stored(published'[i]) /\ published'[i].state # "queued"
      BY <1>2, <1>3, <1>4 DEF storeVars
    <2> QED
      BY <2>1, <2>2 DEF Knows, LeftQueue
  <1>5. CASE /\ Answer(c, outcome) /\ UNCHANGED storeVars /\ outcome = "illegal_transition"
             /\ ~MayRetry(outcome, call[c].attempts)
    <2>1. call[c].attempts >= 2
      BY <1>1, <1>5, ApiConfig DEF MayRetry, CallType
    <2>2. t = "cancel_requested"
      BY <1>1, <1>2, <1>3, <1>5, <2>1 DEF Knows
    <2>3. mem[i].state \in RecordState
      BY <1>1 DEF StoreInv, BasicInv, StoreTypeOK, Record
    <2>4. IsTerminal(mem[i])
      BY <1>2, <1>3, <1>5, <2>2, <2>3
      DEF PermitsWith, Permits, Successors, RecordState, States, Active, IsTerminal, Stored
    <2>5. call'[c].id = i /\ call'[c].at = "answered"
      BY <1>5 DEF CallsInv, Answer, Idle
    <2>6. published'[i] = mem[i]
      BY <1>3, <1>5 DEF storeVars
    <2> QED
      BY <1>1, <2>4, <2>5, <2>6 DEF Knows
  <1>6. CASE call' = [d \in Calls |-> Idle]
    BY <1>6, NothingToKnow DEF Idle, CancelSteps
  <1>7. ASSUME NEW what, Answer(c, what), what # "illegal_transition" PROVE Knows(call[c])'
    BY <1>7, OtherAnswer
  <1> QED
    BY <1>1, <1>4, <1>5, <1>6, <1>7 DEF WriteCancel, MayRetry

(* What a cancel call has read stays true while it waits for the write     *)
(* lock: every step keeps RefusalInv.                                      *)
LEMMA RefusalStep ==
  ASSUME StoreInv, CallsInv, RefusalInv, [ApiNext]_apiVars
  PROVE  RefusalInv'
  <1> SUFFICES ASSUME NEW c \in Calls PROVE Knows(call[c])'
    BY DEF RefusalInv
  <1>0. Knows(call[c]) /\ StoreTypeOK /\ [StoreNext]_storeVars
    BY ApiWrites DEF RefusalInv, StoreInv, BasicInv, apiVars
  <1>1. CASE call'[c] = call[c]
    BY <1>0, <1>1, KnowsStill
  <1>2. CASE call'[c] = Idle
    BY <1>2, NothingToKnow DEF Idle, CancelSteps
  <1>3. ASSUME NEW what, Answer(c, what), what # "illegal_transition" PROVE Knows(call[c])'
    BY <1>3, OtherAnswer
  <1>4. ASSUME NEW step, Goto(c, step), step \notin CancelSteps, call[c].at # "answered"
        PROVE  Knows(call[c])'
    <2>1. call'[c].at = step /\ call'[c].answer = call[c].answer
      BY <1>4 DEF CallsInv, CallType, Goto
    <2> QED
      BY <1>0, <1>4, <2>1, NothingToKnow DEF Knows
  <1>5. ASSUME NEW s, NEW k, NEW p, ReceiveCreate(c, s, k, p) PROVE Knows(call[c])'
    BY <1>5, NothingToKnow DEF ReceiveCreate, CallsInv, Idle, CancelSteps
  <1>6. CASE LookUpKey(c) \/ ReserveKey(c) \/ Validate(c) \/ FinishCreate(c)
    BY <1>3, <1>4, <1>6 DEF LookUpKey, ReserveKey, Validate, FinishCreate, CancelSteps
  <1>7. ASSUME NEW i \in Ids, CreateRecord(c, i) PROVE Knows(call[c])'
    <2>1. CASE call' = [call EXCEPT ![c].at = "created", ![c].id = i]
      <3>1. call'[c].at = "created" /\ call'[c].answer = call[c].answer
        BY <2>1 DEF CallsInv, CallType
      <3> QED
        BY <1>0, <1>7, <3>1, NothingToKnow DEF CreateRecord, Knows, CancelSteps
    <2>2. CASE call' = [d \in Calls |-> Idle]
      BY <2>2, NothingToKnow DEF Idle, CancelSteps
    <2>3. CreateOutcome(call[c].scope, call[c].key, call[c].print) # "illegal_transition"
      BY DEF CreateOutcome
    <2> QED
      BY <1>3, <1>7, <2>1, <2>2, <2>3 DEF CreateRecord
  <1>8. ASSUME NEW i, NEW e, ReceiveCancel(c, i, e) PROVE Knows(call[c])'
    BY <1>8 DEF ReceiveCancel, CallsInv, Idle, Knows
  <1> QED
    BY <1>0, <1>1, <1>2, <1>5, <1>6, <1>7, <1>8, CallMoves, ReadKnows, WriteKnows

(* No cancel call has read anything.                                       *)
LEMMA RefusalInitially == ApiInit => RefusalInv
  BY DEF ApiInit, RefusalInv, Knows, Idle

(* The store beneath the handlers keeps its history and its numbering.     *)
THEOREM ApiStore == ApiSpec => []StoreInv
  BY ApiIsStoreClient, StoreInvariant, StoreHistory, StoreNumbers, PTL DEF StoreInv

(* Two attempts of the cancel loop are enough: a cancel answers            *)
(* illegal_transition only for an invocation that is finished, never for   *)
(* one that went on to run between its read and its write.                 *)
THEOREM ApiRefusesOnlyFinished == ApiSpec => []RefusedOnlyWhenFinished
  <1>1. StoreInv /\ CallsInv /\ RefusalInv /\ [ApiNext]_apiVars => RefusalInv'
    BY RefusalStep
  <1>2. RefusalInv => RefusedOnlyWhenFinished
    BY DEF RefusalInv, Knows, RefusedOnlyWhenFinished
  <1> QED
    BY <1>1, <1>2, RefusalInitially, ApiCalls, ApiStore, PTL DEF ApiSpec
=============================================================================
