---------------------------- MODULE OrderedCommit ----------------------------
(***************************************************************************)
(* What the compute queue promises about training: the tokens handed out   *)
(* are resolved one at a time and in the order they were handed out, until *)
(* the queue is closed and resolves whatever is left together.             *)
(***************************************************************************)
EXTENDS Integers

CONSTANT Token

VARIABLES
    issued,  \* tokens handed out for training
    open,    \* the issued tokens not resolved yet
    closed   \* no token is handed out any more

vars == <<issued, open, closed>>

Init ==
    /\ issued = {}
    /\ open = {}
    /\ closed = FALSE

HandOut(t) ==
    /\ ~closed
    /\ \A u \in issued : u < t
    /\ issued' = issued \cup {t}
    /\ open' = open \cup {t}
    /\ UNCHANGED closed

Resolve(t) ==
    /\ t \in open
    /\ \A u \in open : t <= u
    /\ open' = open \ {t}
    /\ UNCHANGED <<issued, closed>>

Close ==
    /\ closed' = TRUE
    /\ UNCHANGED <<issued, open>>

DropRest ==
    /\ closed' = TRUE
    /\ open' = {}
    /\ UNCHANGED issued

Next ==
    \/ \E t \in Token : HandOut(t) \/ Resolve(t)
    \/ Close
    \/ DropRest

Spec == Init /\ [][Next]_vars
=============================================================================
