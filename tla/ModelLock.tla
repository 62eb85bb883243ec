------------------------------ MODULE ModelLock ------------------------------
(***************************************************************************)
(* Who works on the one live model, and in which mode.  Chats and the rank *)
(* evaluations of the memorize helper run on threads of their own          *)
(* (controller.py, engine/inference.py, memorize.py); the task handler     *)
(* runs on the event loop's thread (controller._handle_task, train.step).  *)
(* ModelState.mode_lock keeps them apart.  A chat that asks for the base   *)
(* model disables the adapter BEFORE it waits for the lock.                *)
(*                                                                         *)
(* The modes are those of Unsloth's for_inference and for_training and of  *)
(* model.eval(); PEFT's disable_adapter is modelled as the code relies on  *)
(* it: it switches the adapter off, and on again when it is left.          *)
(***************************************************************************)
EXTENDS Naturals, Sequences

CONSTANTS
    Chats,      \* slots of concurrent chat requests
    Wishes,     \* what each of them may ask for
    MaxChunks,  \* chunks a streamed generation yields at most
    Handler,    \* the task handler, on the event loop's thread
    Nobody      \* the owner of a free lock

Kinds == {"stream", "oneshot", "rank"}   \* rank: memorize's evaluation
Requests == [kind : Kinds, base : BOOLEAN]

ASSUME LockParties ==
    /\ Wishes \in [Chats -> SUBSET Requests]
    /\ \A c \in Chats : [kind |-> "rank", base |-> TRUE] \notin Wishes[c]
    /\ MaxChunks \in Nat
    /\ Handler # Nobody
    /\ Handler \notin Chats
    /\ Nobody \notin Chats

VARIABLES
    lock,       \* ModelState.mode_lock: who holds it
    mode,       \* the mode of the live model
    adapterOn,  \* the LoRA adapter takes part in a forward pass
    at,         \* how far the handler is; it holds the event loop unless idle
    pc,         \* how far the thread of each chat is
    ask,        \* what the chat asked for
    sent,       \* chunks its generation has yielded
    wire,       \* what its thread has put for the event loop, in order
    raised,     \* its thread met an exception
    err,        \* ERR has its entry "exc"
    got,        \* chunks the client was sent
    end,        \* how the answer ended
    moved       \* what changed the weights under its running generation

chatVars == <<pc, ask, sent, wire, raised, err, got, end, moved>>
lockVars == <<lock, mode, adapterOn, at, chatVars>>

Done == 0   \* the DONE object; chunks are numbered from 1

\* The event loop runs coroutines only between two tasks.
LoopFree == at = "idle"

LockInit ==
    /\ lock = Nobody
    /\ mode = "infer"
    /\ adapterOn = TRUE
    /\ at = "idle"
    /\ pc = [c \in Chats |-> "idle"]
    /\ ask = [c \in Chats |-> [kind |-> "stream", base |-> FALSE]]
    /\ sent = [c \in Chats |-> 0]
    /\ wire = [c \in Chats |-> <<>>]
    /\ raised = [c \in Chats |-> FALSE]
    /\ err = [c \in Chats |-> FALSE]
    /\ got = [c \in Chats |-> <<>>]
    /\ end = [c \in Chats |-> "never"]
    /\ moved = [c \in Chats |-> {}]

-----------------------------------------------------------------------------
\* The thread of a chat.

ChatCalled(c) ==
    /\ LoopFree
    /\ pc[c] = "idle" /\ end[c] # "open"
    /\ \E w \in Wishes[c] : ask' = [ask EXCEPT ![c] = w]
    /\ pc' = [pc EXCEPT ![c] = "called"]
    /\ sent' = [sent EXCEPT ![c] = 0]
    /\ wire' = [wire EXCEPT ![c] = <<>>]
    /\ raised' = [raised EXCEPT ![c] = FALSE]
    /\ err' = [err EXCEPT ![c] = FALSE]
    /\ got' = [got EXCEPT ![c] = <<>>]
    /\ end' = [end EXCEPT ![c] = "open"]
    /\ UNCHANGED <<lock, mode, adapterOn, at, moved>>

\* `with model.disable_adapter()`: the lock is not held yet.
EnterContext(c) ==
    /\ pc[c] = "called"
    /\ pc' = [pc EXCEPT ![c] = "inside"]
    /\ adapterOn' = (adapterOn /\ ~ask[c].base)
    /\ UNCHANGED <<lock, mode, at, ask, sent, wire, raised, err, got, end, moved>>

\* The chat template or the tokenizer refuses the messages.
EarlyFailure(c) ==
    /\ pc[c] = "inside" /\ ask[c].kind # "rank"
    /\ pc' = [pc EXCEPT ![c] = "leaving"]
    /\ raised' = [raised EXCEPT ![c] = TRUE]
    /\ UNCHANGED <<lock, mode, adapterOn, at, ask, sent, wire, err, got, end, moved>>

TakeLock(c) ==
    /\ pc[c] = "inside" /\ lock = Nobody
    /\ lock' = c
    /\ mode' = IF ask[c].kind = "rank" THEN "eval" ELSE "infer"
    /\ pc' = [pc EXCEPT ![c] = "gen"]
    /\ UNCHANGED <<adapterOn, at, ask, sent, wire, raised, err, got, end, moved>>

\* run_coroutine_threadsafe(q.put(chunk)): the thread does not wait for the put.
Chunk(c) ==
    /\ pc[c] = "gen" /\ ask[c].kind = "stream" /\ sent[c] < MaxChunks
    /\ sent' = [sent EXCEPT ![c] = @ + 1]
    /\ wire' = [wire EXCEPT ![c] = Append(@, sent[c] + 1)]
    /\ UNCHANGED <<lock, mode, adapterOn, at, pc, ask, raised, err, got, end, moved>>

GenerationAwaitsPuts(c) ==   \* a thread that waited for its puts to be done
    /\ LoopFree
    /\ pc[c] = "gen"
    /\ lock' = Nobody
    /\ pc' = [pc EXCEPT ![c] = "leaving"]
    /\ moved' = [moved EXCEPT ![c] = {}]
    /\ UNCHANGED <<mode, adapterOn, at, ask, sent, wire, raised, err, got, end>>

GenerationEnds(c) ==
    /\ pc[c] = "gen"
    /\ lock' = Nobody
    /\ pc' = [pc EXCEPT ![c] = "leaving"]
    /\ moved' = [moved EXCEPT ![c] = {}]
    /\ UNCHANGED <<mode, adapterOn, at, ask, sent, wire, raised, err, got, end>>

\* model.generate raises.  In a streamed chat it does so in a second thread:
\* nobody ends the streamer, and the thread that reads it waits for ever.
GenerationRaises(c) ==
    /\ pc[c] = "gen"
    /\ raised' = [raised EXCEPT ![c] = TRUE]
    /\ moved' = [moved EXCEPT ![c] = {}]
    /\ \/ /\ ask[c].kind = "stream"
          /\ pc' = [pc EXCEPT ![c] = "stuck"]
          /\ lock' = lock
       \/ /\ ask[c].kind # "stream"
          /\ pc' = [pc EXCEPT ![c] = "leaving"]
          /\ lock' = Nobody
    /\ UNCHANGED <<mode, adapterOn, at, ask, sent, wire, err, got, end>>

LeaveContext(c) ==
    /\ pc[c] = "leaving"
    /\ pc' = [pc EXCEPT ![c] = "handing"]
    /\ adapterOn' = (adapterOn \/ ask[c].base)
    /\ UNCHANGED <<lock, mode, at, ask, sent, wire, raised, err, got, end, moved>>

HandOverAnyway(c) ==   \* the exception dies with the thread
    /\ pc[c] = "handing"
    /\ wire' = [wire EXCEPT ![c] = Append(@, Done)]
    /\ pc' = [pc EXCEPT ![c] = "idle"]
    /\ UNCHANGED <<lock, mode, adapterOn, at, ask, sent, raised, err, got, end, moved>>

HandOver(c) ==
    /\ pc[c] = "handing"
    /\ err' = [err EXCEPT ![c] = raised[c]]
    /\ wire' = [wire EXCEPT ![c] = Append(@, Done)]
    /\ pc' = [pc EXCEPT ![c] = "idle"]
    /\ UNCHANGED <<lock, mode, adapterOn, at, ask, sent, raised, got, end, moved>>

-----------------------------------------------------------------------------
\* The coroutine that answers the client, on the event loop.

\* Behind DONE the answer is logged with the adapter's fingerprint; that may
\* raise, and the answer ends as an error although its text is complete.
Deliver(c) ==
    /\ LoopFree
    /\ end[c] = "open" /\ wire[c] # <<>>
    /\ wire' = [wire EXCEPT ![c] = Tail(@)]
    /\ \/ /\ Head(wire[c]) # Done
          /\ got' = [got EXCEPT ![c] = Append(@, Head(wire[c]))]
          /\ end' = end
       \/ /\ Head(wire[c]) = Done
          /\ \E e \in IF err[c] THEN {"error"} ELSE {"stop", "error"} :
                end' = [end EXCEPT ![c] = e]
          /\ got' = got
    /\ UNCHANGED <<lock, mode, adapterOn, at, pc, ask, sent, raised, err, moved>>

\* The client goes away; the thread drains its generation all the same.
Abandon(c) ==
    /\ LoopFree
    /\ end[c] = "open"
    /\ end' = [end EXCEPT ![c] = "gone"]
    /\ UNCHANGED <<lock, mode, adapterOn, at, pc, ask, sent, wire, raised, err, got, moved>>

-----------------------------------------------------------------------------
\* The handler.

\* Chats whose forward passes are running.
Generating == {c \in Chats : pc[c] = "gen"}

Disturb(what) ==
    moved' = [c \in Chats |-> IF c \in Generating THEN moved[c] \cup {what} ELSE moved[c]]

HandlerTakes ==
    /\ at = "idle"
    /\ at' \in {"wants_train", "wants_rank", "rewriting"}
    /\ UNCHANGED <<lock, mode, adapterOn, chatVars>>

TrainLocks ==
    /\ at = "wants_train" /\ lock = Nobody
    /\ lock' = Handler
    /\ mode' = "train"
    /\ at' = "forward"
    /\ UNCHANGED <<adapterOn, chatVars>>

\* ccpd_v2 and ccd generate inside the step, then flip back to training.
SampleInside ==
    /\ at = "forward"
    /\ mode' = "infer"
    /\ at' = "sampling"
    /\ UNCHANGED <<lock, adapterOn, chatVars>>

SampleNoRestore ==   \* without the fix C-2 of ccpd.py:124
    /\ at = "sampling"
    /\ at' = "forward"
    /\ UNCHANGED <<lock, mode, adapterOn, chatVars>>

SampleRestore ==
    /\ at = "sampling"
    /\ mode' = "train"
    /\ at' = "forward"
    /\ UNCHANGED <<lock, adapterOn, chatVars>>

\* The reference pass of kto, ccd, ccpd_v2 and kl_anchor.
ReferenceBegins ==
    /\ at = "forward"
    /\ adapterOn' = FALSE
    /\ at' = "reference"
    /\ UNCHANGED <<lock, mode, chatVars>>

ReferenceEnds ==
    /\ at = "reference"
    /\ adapterOn' = TRUE
    /\ at' = "forward"
    /\ UNCHANGED <<lock, mode, chatVars>>

Update ==
    /\ at = "forward"
    /\ Disturb("train")
    /\ lock' = Nobody
    /\ at' = "idle"
    /\ UNCHANGED <<mode, adapterOn, pc, ask, sent, wire, raised, err, got, end>>

TrainRaisesDisabled ==   \* disable and enable without a context manager
    /\ at \in {"forward", "sampling", "reference"}
    /\ lock' = Nobody
    /\ at' = "idle"
    /\ UNCHANGED <<mode, adapterOn, chatVars>>

TrainRaises ==
    /\ at \in {"forward", "sampling", "reference"}
    /\ adapterOn' = (adapterOn \/ at = "reference")
    /\ lock' = Nobody
    /\ at' = "idle"
    /\ UNCHANGED <<mode, chatVars>>

RankLocks ==
    /\ at = "wants_rank" /\ lock = Nobody
    /\ lock' = Handler
    /\ mode' = "eval"
    /\ at' = "ranking"
    /\ UNCHANGED <<adapterOn, chatVars>>

RankEnds ==
    /\ at = "ranking"
    /\ lock' = Nobody
    /\ at' = "idle"
    /\ UNCHANGED <<mode, adapterOn, chatVars>>

\* merge, snapshot_load and reset_adapter: the weights change without the lock.
Rewrite ==
    /\ at = "rewriting"
    /\ Disturb("rewrite")
    /\ at' = "idle"
    /\ UNCHANGED <<lock, mode, adapterOn, pc, ask, sent, wire, raised, err, got, end>>

\* What fairness is assumed of; nothing forces a failure.
ThreadProgress(c) ==
    \/ EnterContext(c) \/ TakeLock(c) \/ Chunk(c)
    \/ GenerationEnds(c) \/ LeaveContext(c) \/ HandOver(c)

HandlerProgress == TrainLocks \/ RankLocks

HandlerStep ==
    \/ SampleInside \/ SampleRestore \/ ReferenceBegins \/ ReferenceEnds
    \/ Update \/ TrainRaises \/ RankEnds \/ Rewrite

LockNext ==
    \/ HandlerTakes
    \/ HandlerProgress
    \/ HandlerStep
    \/ \E c \in Chats :
         \/ ChatCalled(c) \/ EarlyFailure(c) \/ GenerationRaises(c)
         \/ ThreadProgress(c) \/ Deliver(c) \/ Abandon(c)

LockSpec == LockInit /\ [][LockNext]_lockVars

-----------------------------------------------------------------------------
Locked == {"forward", "sampling", "reference", "ranking"}
ModeOf(c) == IF ask[c].kind = "rank" THEN "eval" ELSE "infer"

LockType ==
    /\ lock \in Chats \cup {Handler, Nobody}
    /\ mode \in {"train", "infer", "eval"}
    /\ adapterOn \in BOOLEAN
    /\ at \in {"idle", "wants_train", "wants_rank", "rewriting"} \cup Locked
    /\ pc \in [Chats -> {"idle", "called", "inside", "gen", "stuck", "leaving", "handing"}]
    /\ ask \in [Chats -> Requests]
    /\ sent \in [Chats -> 0..MaxChunks]
    /\ wire \in [Chats -> Seq(0..MaxChunks)]
    /\ raised \in [Chats -> BOOLEAN]
    /\ err \in [Chats -> BOOLEAN]
    /\ got \in [Chats -> Seq(0..MaxChunks)]
    /\ end \in [Chats -> {"never", "open", "stop", "error", "gone"}]
    /\ moved \in [Chats -> SUBSET {"train", "rewrite"}]

\* Whoever computes on the model holds the lock and finds the model in the
\* mode it needs, whatever ran in between (state.py:151-157, train.py:142,
\* inference.py:60, 118, controller.py:291, memorize.py:81, ccpd.py:124); so
\* only the operations that take no lock, merge and snapshot_load, ever change
\* the weights under a generation (controller.py:269, 281).
WorkIsApart ==
    /\ \A c \in Chats :
         /\ pc[c] \in {"gen", "stuck"} => lock = c
         /\ pc[c] = "gen" => mode = ModeOf(c)
         /\ moved[c] \subseteq {"rewrite"}
    /\ at \in Locked => lock = Handler
    /\ at \in {"forward", "reference"} => mode = "train"
    /\ at = "sampling" => mode = "infer"
    /\ at = "ranking" => mode = "eval"

\* Chats that are between __enter__ and __exit__ of disable_adapter.
InContext(c) == ask[c].base /\ pc[c] \in {"inside", "gen", "stuck", "leaving"}

\* When nobody is inside disable_adapter the adapter is enabled: no exception,
\* early failure or overlap of two contexts leaves it off for later steps
\* (controller.py:353-361, 427-439, kto.py:105, ccd.py:130, kl.py:217).
AdapterComesBack ==
    at # "reference" /\ (\A c \in Chats : ~InContext(c)) => adapterOn

\* The client of a chat gets the chunks in order without a gap.  It is told how
\* the answer ended, be it "stop" or "error", only behind the last of them, when
\* its thread is gone; and "stop" only if the generation returned.  "error" may
\* also mean that the log behind it failed (controller.py:422-497,
\* server.py:303-427).
StreamEndsTruthfully ==
    \A c \in Chats :
        /\ got[c] = [i \in 1..Len(got[c]) |-> i]
        /\ end[c] \in {"stop", "error"} => Len(got[c]) = sent[c] /\ pc[c] = "idle"
        /\ end[c] = "stop" => ~raised[c]

\* A task that waits for mode_lock gets it, unless a streamed generation raised
\* and its reader waits for ever (inference.py:149-156).  The holder never
\* waits for the event loop that the handler blocks (controller.py:440), and
\* no new chat can start meanwhile, so the lock's lack of fairness does no harm.
LockComesFree ==
    at \in {"wants_train", "wants_rank"}
        ~> (at \notin {"wants_train", "wants_rank"} \/ \E c \in Chats : pc[c] = "stuck")

\* controller.py:423-426: "The context manager's __exit__ re-enables the adapter
\* after the generator drains, so concurrent training on the PEFT model is
\* unaffected": the policy's forward pass of a train step has the adapter.
TrainingUnaffected == at = "forward" => adapterOn
=============================================================================
