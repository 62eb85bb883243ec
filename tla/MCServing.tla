------------------------------ MODULE MCServing ------------------------------
(* TLC instances of Serving. *)
EXTENDS Serving

ServingOps == {"train", "admin", "drain"}
TrainOps == {"train", "drain"}

\* Stream clients and chat requests do not touch each other's state: the safety
\* run takes them one kind at a time.
OneKindOfClient ==
    \/ \A s \in Streams : stream[s] = "off"
    \/ \A r \in Readers : chat[r].at = "idle"
=============================================================================
