------------------------ MODULE MC_RealtimeProcessBlock ------------------------
(***************************************************************************)
(* Model-checking instance of RealtimeProcessBlock. The number of frames   *)
(* and the failure flags are given in each cfg.                            *)
(***************************************************************************)
EXTENDS RealtimeProcessBlock
====
