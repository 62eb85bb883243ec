------------------------------ MODULE RecordLog ------------------------------
(***************************************************************************)
(* What the trajectory log promises about records: what is kept is kept    *)
(* for good, and an append that returned has kept its record, unless a     *)
(* crash had torn the end of the log.  Then exactly this one record is     *)
(* lost, and the log is sound again.  If a crash broke a character off,    *)
(* nothing is kept any more.                                               *)
(***************************************************************************)
EXTENDS Naturals

CONSTANT Record   \* records, numbered in the order of their appends

VARIABLES
    kept,  \* the records every later reader of the whole log gets
    told,  \* the records whose append returned
    end    \* how the log ends: "whole", "torn" inside a line, or "cut" for
           \* good by a line that cannot be decoded

vars == <<kept, told, end>>

Init ==
    /\ kept = {}
    /\ told = {}
    /\ end = "whole"

\* Records come in order.
New(r) == \A q \in kept \cup told : q < r

Keep(r) ==
    /\ end = "whole"
    /\ New(r)
    /\ kept' = kept \cup {r}
    /\ UNCHANGED end

Lose(r) ==
    /\ end = "torn"
    /\ New(r)
    /\ end' = "whole"
    /\ UNCHANGED kept

Unread(r) ==
    /\ end = "cut"
    /\ New(r)
    /\ UNCHANGED <<kept, end>>

Append(r) ==
    /\ Keep(r) \/ Lose(r) \/ Unread(r)
    /\ told' = told \cup {r}

\* The writer dies: nothing of the record, a part of it or all of it is there.
Crash(r) ==
    /\ \/ Keep(r)
       \/ Lose(r)
       \/ end # "cut" /\ end' \in {"torn", "cut"} /\ UNCHANGED kept
    /\ UNCHANGED told

Next == \E r \in Record : Append(r) \/ Crash(r)

Spec == Init /\ [][Next]_vars
=============================================================================
