----------------------------- MODULE MCModelLock -----------------------------
(* TLC's instance of ModelLock: one chat is streamed, with and without the     *)
(* adapter; the other is of the base model in one go, or an evaluation of      *)
(* memorize.                                                                   *)
EXTENDS ModelLock, TLC

CONSTANTS c1, c2

ChatWishes ==
    (c1 :> {[kind |-> "stream", base |-> b] : b \in BOOLEAN}) @@
    (c2 :> {[kind |-> "oneshot", base |-> TRUE], [kind |-> "rank", base |-> FALSE]})
=============================================================================
