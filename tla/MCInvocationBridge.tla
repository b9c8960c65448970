------------------------- MODULE MCInvocationBridge --------------------------
(* Instances of InvocationBridge for TLC: two or three invocations of one  *)
(* scope or of two scopes of one tenant.                                   *)
EXTENDS InvocationBridge

TwoIds   == 1..2
ThreeIds == 1..3

MCTenants  == {"t"}
MCTenantOf == [s \in Scopes |-> "t"]
=============================================================================
