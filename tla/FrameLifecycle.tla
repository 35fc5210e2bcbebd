---------------------------- MODULE FrameLifecycle ----------------------------
(***************************************************************************)
(* What a stage of the camera pipeline promises about frames: a frame is   *)
(* accepted at most once, and every accepted frame is completed exactly    *)
(* once (by a final result or an error), possibly together with other      *)
(* frames, as when a flush fails the whole queue in one call. Completion   *)
(* order is not promised.                                                  *)
(***************************************************************************)
CONSTANT Frames

VARIABLES
  admitted,   \* frames the stage accepted
  completed   \* accepted frames it has finished

lifecycle_vars == <<admitted, completed>>

Init ==
  /\ admitted = {}
  /\ completed = {}

Admit ==
  \E f \in Frames \ admitted :
    /\ admitted' = admitted \cup {f}
    /\ UNCHANGED completed

Complete ==
  \E done \in SUBSET (admitted \ completed) :
    /\ done # {}
    /\ completed' = completed \cup done
    /\ UNCHANGED admitted

Next == Admit \/ Complete

Spec == Init /\ [][Next]_lifecycle_vars /\ WF_lifecycle_vars(Complete)
====
