--------------------------- MODULE MCComputeQueue ---------------------------
(* TLC instances of ComputeQueue. *)
EXTENDS ComputeQueue

AllOps == {"train", "admin", "stop", "drain"}
ServingOps == {"train", "admin", "drain"}
TrainOps == {"train", "drain"}
=============================================================================
