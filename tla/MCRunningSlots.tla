--------------------------- MODULE MCRunningSlots ----------------------------
(* Six invocations over three scopes, two of them of one tenant: each of   *)
(* the three limits is the one that refuses in some state.                 *)
EXTENDS RunningSlots, TLC

CONSTANTS s1, s2, s3, t1, t2

MCTenantOf == s1 :> t1 @@ s2 :> t1 @@ s3 :> t2

(* The hypothesis of the theorems about the ledger holds here.             *)
ASSUME MCSlotLimits == SlotLimits
=============================================================================
