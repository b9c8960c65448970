---------------------------- MODULE VectorContract ----------------------------
(***************************************************************************)
(* What the vector engine promises its callers, with no log, no snapshot   *)
(* and no file:                                                            *)
(*   - an acknowledged write is what every reader sees and what every      *)
(*     restart brings back, if the log was sound when it was acknowledged; *)
(*   - a refused write changes nothing until a restart, which may bring it *)
(*     back: its record may have reached the file;                         *)
(*   - what is not in doubt is brought back unchanged, unless a restart    *)
(*     hits the engine while it is fragile;                                *)
(*   - only the deletion of log files makes it fragile, as long as no two  *)
(*     rotations of the log have crossed; from then on any step may.       *)
(* HyperspaceEngine implements this contract and says when it is unsound,  *)
(* when it is fragile and what a crossing is.                              *)
(***************************************************************************)
CONSTANTS Iris,     \* what a vector is stored under
          Values,   \* vector with its payload
          Nothing   \* no vector

VARIABLES view,     \* view[i]: what a reader gets for i
          doubt,    \* doubt[i]: what else a restart may bring back for i
          sound,    \* the log takes records that can be read back
          fragile,  \* a restart now may bring back anything
          crossed   \* two rotations of the log have crossed

vars == <<view, doubt, sound, fragile, crossed>>

Contents == Values \cup {Nothing}

Init ==
  /\ view = [i \in Iris |-> Nothing]
  /\ doubt = [i \in Iris |-> {}]
  /\ sound = TRUE
  /\ fragile = FALSE
  /\ crossed = FALSE

(* A step that deletes nothing.                                            *)
Steady ==
  /\ fragile' = fragile \/ (crossed /\ fragile' \in BOOLEAN)
  /\ UNCHANGED crossed

(* A write is acknowledged. Behind unreadable bytes the old content may    *)
(* come back, so it stays in doubt.                                        *)
Acknowledge(i, v) ==
  /\ view' = [view EXCEPT ![i] = v]
  /\ doubt' = [doubt EXCEPT ![i] = IF sound THEN {} ELSE @ \cup {view[i]}]
  /\ UNCHANGED sound
  /\ Steady

(* A write is refused: it may have reached the file, or damaged it.        *)
Refuse(i, v) ==
  /\ doubt' \in {doubt, [doubt EXCEPT ![i] = @ \cup {v}]}
  /\ sound' \in BOOLEAN
  /\ UNCHANGED view
  /\ Steady

(* The log is continued in a new file.                                     *)
Renew ==
  /\ sound' \in {sound, TRUE}
  /\ UNCHANGED <<view, doubt>>
  /\ Steady

(* A second rotation begins while one is under way.                        *)
Cross ==
  /\ crossed' = TRUE
  /\ UNCHANGED <<view, doubt, sound, fragile>>

(* A snapshot replaces log files and they are being deleted.               *)
Prune ==
  /\ sound' \in {sound, TRUE}
  /\ fragile' \in BOOLEAN
  /\ UNCHANGED <<view, doubt, crossed>>

Restart ==
  /\ view' \in [Iris -> Contents]
  /\ ~fragile => \A i \in Iris : view'[i] \in {view[i]} \cup doubt[i]
  /\ doubt' = [i \in Iris |-> {}]
  /\ sound' = TRUE
  /\ fragile' = FALSE \/ (crossed /\ fragile' \in BOOLEAN)
  /\ UNCHANGED crossed

Next ==
  \/ \E i \in Iris, v \in Contents : Acknowledge(i, v)
  \/ \E i \in Iris, v \in Contents : Refuse(i, v)
  \/ Renew
  \/ Cross
  \/ Prune
  \/ Restart

Spec == Init /\ [][Next]_vars
=============================================================================
