---------------------------- MODULE ComputeQueue ----------------------------
(***************************************************************************)
(* The compute queue with its commit cursor (trainfer/queue.py).           *)
(*                                                                         *)
(* Everything runs on one asyncio event loop, so an action is what one     *)
(* coroutine does between two suspension points.  A task is its token.     *)
(* Training enters through try_submit, which never suspends; merges,       *)
(* snapshots and evaluations ("admin" work) enter through submit, whose    *)
(* put suspends while the queue is full.  asyncio.Queue.put is modelled by *)
(* what it does: a suspended put is woken by a get, and when it runs again *)
(* it looks at the queue again and suspends again if a newcomer was faster.*)
(***************************************************************************)
EXTENDS Integers, Sequences, FiniteSets

CONSTANTS
    MaxDepth,   \* asyncio.Queue's maxsize; 0 is an unbounded queue
    MaxTokens,  \* bound on the tokens issued in one run
    Readers,    \* coroutines that call wait_for with a token
    Ops         \* what the program around the queue calls:
                \* a subset of {"train", "admin", "stop", "drain"}

ASSUME BoundsAssumption == MaxDepth \in Nat /\ MaxTokens \in Nat

Token == 0 .. MaxTokens - 1
NoTask == -1

VARIABLES
    nextToken,  \* _next_token
    completed,  \* _completed_token, the commit cursor
    pending,    \* the keys of _pending
    trains,     \* the tokens try_submit issued for training
    q,          \* the queue's contents, oldest first
    putters,    \* tokens whose put is suspended, longest wait first
    woken,      \* tokens whose put was woken and has not run yet
    accepting,  \* _accepting
    stopping,   \* _stop
    hardStop,   \* _hard_stop
    done,       \* tokens whose done event is set
    error,      \* QueueTask.error of each token
    applied,    \* tokens whose handler returned a result
    phase,      \* where the worker coroutine is
    current,    \* the task in its handler
    drain,      \* where graceful_drain is
    overrun,    \* the grace period ended before the worker did
    reader      \* wait_for calls

entryVars  == <<nextToken, trains, accepting>>
queueVars  == <<q, putters, woken>>
taskVars   == <<done, error, applied>>
workerVars == <<phase, current>>
drainVars  == <<stopping, hardStop, drain, overrun>>
vars == <<entryVars, completed, pending, queueVars, taskVars, workerVars,
          drainVars, reader>>

Init ==
    /\ nextToken = 0
    /\ completed = -1
    /\ pending = {}
    /\ trains = {}
    /\ q = <<>>
    /\ putters = <<>>
    /\ woken = <<>>
    /\ accepting = TRUE
    /\ stopping = FALSE
    /\ hardStop = FALSE
    /\ done = {}
    /\ error = [t \in Token |-> "none"]
    /\ applied = {}
    /\ phase = "new"
    /\ current = NoTask
    /\ drain = "none"
    /\ overrun = FALSE
    /\ reader = [r \in Readers |-> [state |-> "idle", token |-> NoTask]]

-----------------------------------------------------------------------------
(* Submitting. *)

Full == MaxDepth > 0 /\ Len(q) >= MaxDepth

AdmittedAlways == TRUE
Admitted == accepting

EnqueuedFirst(t) == <<t>> \o q
Enqueued(t) == Append(q, t)

\* The part of submit before its put: a token, and an entry in _pending.
Issue ==
    /\ Admitted
    /\ nextToken < MaxTokens
    /\ nextToken' = nextToken + 1
    /\ pending' = pending \cup {nextToken}
    /\ UNCHANGED <<accepting, completed, taskVars, workerVars, drainVars, reader>>

\* A full queue raises QueueFullError and a draining one ShuttingDownError:
\* neither changes anything.  Otherwise the put has room and does not suspend.
TrySubmit ==
    /\ "train" \in Ops
    /\ ~Full
    /\ Issue
    /\ trains' = trains \cup {nextToken}
    /\ q' = Enqueued(nextToken)
    /\ UNCHANGED <<putters, woken>>

Submit ==
    /\ "admin" \in Ops
    /\ Issue
    /\ \/ /\ ~Full
          /\ q' = Enqueued(nextToken)
          /\ UNCHANGED putters
       \/ /\ Full
          /\ putters' = Append(putters, nextToken)
          /\ UNCHANGED q
    /\ UNCHANGED <<trains, woken>>

\* A woken put runs again.  Nothing looks at _accepting a second time.
PutterResume ==
    /\ woken # <<>>
    /\ woken' = Tail(woken)
    /\ \/ /\ ~Full
          /\ q' = Enqueued(Head(woken))
          /\ UNCHANGED putters
       \/ /\ Full
          /\ putters' = Append(putters, Head(woken))
          /\ UNCHANGED q
    /\ UNCHANGED <<entryVars, completed, pending, taskVars, workerVars,
                   drainVars, reader>>

-----------------------------------------------------------------------------
(* The worker. *)

\* The top of _run's loop: leave, or ask the queue for a task.
LoopTop ==
    IF hardStop \/ (stopping /\ q = <<>>) THEN "exited" ELSE "getting"

WorkerStart ==
    /\ phase = "new"
    /\ drain = "none"
    /\ phase' = "scheduled"
    /\ UNCHANGED <<entryVars, completed, pending, queueVars, taskVars, current,
                   drainVars, reader>>

\* The first pass, and every pass after a get that timed out (0.1 s).
WorkerPoll ==
    /\ phase \in {"scheduled", "getting"}
    /\ phase' = LoopTop
    /\ UNCHANGED <<entryVars, completed, pending, queueVars, taskVars, current,
                   drainVars, reader>>

\* The get, which wakes the longest waiting put, up to the handler's call.
WorkerGet ==
    /\ phase = "getting"
    /\ q # <<>>
    /\ current' = Head(q)
    /\ q' = Tail(q)
    /\ phase' = "busy"
    /\ IF putters = <<>>
       THEN UNCHANGED <<putters, woken>>
       ELSE /\ putters' = Tail(putters)
            /\ woken' = Append(woken, Head(putters))
    /\ UNCHANGED <<entryVars, completed, pending, taskVars, drainVars, reader>>

CursorUnguarded(t) == t
Cursor(t) == IF t > completed THEN t ELSE completed

UncollectedBelowNext(cursor) == {}
Uncollected(cursor) == {t \in pending : t > cursor}

\* A task whose handler raised is put back.
WorkerRetries(ok) ==
    /\ phase = "busy"
    /\ IF ok
       THEN applied' = applied \cup {current} /\ UNCHANGED <<error, q>>
       ELSE /\ error' = [error EXCEPT ![current] = "failed"] /\ UNCHANGED applied
            /\ q' = Enqueued(current)
    /\ completed' = Cursor(current)
    /\ done' = done \cup {current}
    /\ pending' = Uncollected(completed')
    /\ phase' = LoopTop
    /\ current' = NoTask
    /\ UNCHANGED <<entryVars, putters, woken, drainVars, reader>>

\* The handler returns or raises, and the finally block runs with the next
\* pass of the loop, without a suspension: nobody else takes the condition's
\* lock across an await.
WorkerFinishes(ok) ==
    /\ phase = "busy"
    /\ IF ok
       THEN applied' = applied \cup {current} /\ UNCHANGED error
       ELSE error' = [error EXCEPT ![current] = "failed"] /\ UNCHANGED applied
    /\ completed' = Cursor(current)
    /\ done' = done \cup {current}
    /\ pending' = Uncollected(completed')
    /\ phase' = LoopTop
    /\ current' = NoTask
    /\ UNCHANGED <<entryVars, queueVars, drainVars, reader>>

-----------------------------------------------------------------------------
(* Stopping. *)

DroppedInQueue == {t \in pending \ done : \E i \in DOMAIN q : q[i] = t /\ i > 1}
Dropped == pending \ done

\* _reap_pending, without a suspension.
Reap ==
    /\ error' = [t \in Token |-> IF t \in Dropped THEN "dropped" ELSE error[t]]
    /\ \E top \in Dropped \cup {completed} :
          /\ \A t \in Dropped \cup {completed} : t <= top
          /\ completed' = top
    /\ done' = done \cup Dropped
    /\ pending' = Uncollected(completed')

\* stop: the worker leaves when the queue is empty; submits stay accepted.
Stop ==
    /\ "stop" \in Ops
    /\ stopping' = TRUE
    /\ UNCHANGED <<entryVars, completed, pending, queueVars, taskVars,
                   workerVars, hardStop, drain, overrun, reader>>

\* The worker graceful_drain finds: none, or one it can wait for.
NeverWaitsForWorker == TRUE
NoWorker == phase \in {"new", "exited"} \/ drain = "returned"

\* graceful_drain up to its first suspension, or the whole of it without a
\* worker to wait for.
DrainCall ==
    /\ "drain" \in Ops
    /\ drain \in {"none", "returned"}
    /\ accepting' = FALSE
    /\ stopping' = TRUE
    /\ \/ /\ NoWorker
          /\ Reap
          /\ drain' = "returned"
       \/ /\ ~NoWorker
          /\ drain' = "draining"
          /\ UNCHANGED <<error, completed, done, pending>>
    /\ UNCHANGED <<nextToken, trains, queueVars, applied, workerVars, hardStop,
                   overrun, reader>>

DeadlineBetweenTasks == drain = "draining" /\ phase # "busy"
DeadlineRanOut == drain = "draining"

DrainDeadline ==
    /\ DeadlineRanOut
    /\ hardStop' = TRUE
    /\ drain' = "grace"
    /\ UNCHANGED <<entryVars, completed, pending, queueVars, taskVars,
                   workerVars, stopping, overrun, reader>>

\* The worker task ended, within the deadline or within the grace period.
DrainJoin ==
    /\ drain \in {"draining", "grace"}
    /\ phase = "exited"
    /\ Reap
    /\ drain' = "returned"
    /\ UNCHANGED <<entryVars, queueVars, applied, workerVars, stopping,
                   hardStop, overrun, reader>>

\* hard_stop_grace_s ran out: the worker is left alone with its task.
GraceExpires ==
    /\ drain = "grace"
    /\ phase # "exited"
    /\ Reap
    /\ drain' = "returned"
    /\ overrun' = TRUE
    /\ UNCHANGED <<entryVars, queueVars, applied, workerVars, stopping,
                   hardStop, reader>>

-----------------------------------------------------------------------------
(* Waiting for a token. *)

\* What the lookup at the head of wait_for makes of a token.
Lookup(t) ==
    IF t \in pending THEN "waiting"
    ELSE IF t <= completed THEN "seen" ELSE "unknown"

WaitFor(r, t) ==
    /\ reader[r].state # "waiting"
    /\ reader' = [reader EXCEPT ![r] = [state |-> Lookup(t), token |-> t]]
    /\ UNCHANGED <<entryVars, completed, pending, queueVars, taskVars,
                   workerVars, drainVars>>

WokenWithoutDone(r) == reader[r].token < nextToken
WokenByDone(r) == reader[r].token \in done

WaitReturns(r) ==
    /\ reader[r].state = "waiting"
    /\ WokenByDone(r)
    /\ reader' = [reader EXCEPT ![r].state =
                     IF error[reader[r].token] = "none" THEN "ok" ELSE "raised"]
    /\ UNCHANGED <<entryVars, completed, pending, queueVars, taskVars,
                   workerVars, drainVars>>

\* The caller's timeout, which nothing obliges to come.
WaitTimesOut(r) ==
    /\ reader[r].state = "waiting"
    /\ reader' = [reader EXCEPT ![r].state = "timeout"]
    /\ UNCHANGED <<entryVars, completed, pending, queueVars, taskVars,
                   workerVars, drainVars>>

-----------------------------------------------------------------------------
ReaderStep(r) ==
    \/ \E t \in -1 .. MaxTokens : WaitFor(r, t)
    \/ WaitReturns(r)
    \/ WaitTimesOut(r)

Next ==
    \/ TrySubmit
    \/ Submit
    \/ PutterResume
    \/ WorkerStart
    \/ WorkerPoll
    \/ WorkerGet
    \/ \E ok \in BOOLEAN : WorkerFinishes(ok)
    \/ Stop
    \/ DrainCall
    \/ DrainDeadline
    \/ DrainJoin
    \/ GraceExpires
    \/ \E r \in Readers : ReaderStep(r)

Spec == Init /\ [][Next]_vars

\* The event loop runs every ready coroutine and every due timer.
LoopFairness ==
    /\ WF_vars(PutterResume)
    /\ WF_vars(WorkerStart)
    /\ WF_vars(WorkerPoll)
    /\ WF_vars(WorkerGet)
    /\ WF_vars(DrainDeadline)
    /\ WF_vars(DrainJoin)
    /\ WF_vars(GraceExpires)
    /\ \A r \in Readers : WF_vars(WaitReturns(r))

\* Every handler returns or raises.
HandlersReturn == WF_vars(\E ok \in BOOLEAN : WorkerFinishes(ok))

LoopSpec == Spec /\ LoopFairness
-----------------------------------------------------------------------------
(* Properties. *)

TokenSeq == Seq(Token)

\* The type of the state: tokens stay within the ones issued, and the worker
\* holds a task exactly while a handler runs.
TypeOK ==
    /\ nextToken \in 0 .. MaxTokens
    /\ completed \in -1 .. MaxTokens - 1
    /\ pending \subseteq Token
    /\ trains \subseteq Token
    /\ q \in TokenSeq
    /\ putters \in TokenSeq
    /\ woken \in TokenSeq
    /\ accepting \in BOOLEAN
    /\ stopping \in BOOLEAN
    /\ hardStop \in BOOLEAN
    /\ done \subseteq Token
    /\ error \in [Token -> {"none", "failed", "dropped"}]
    /\ applied \subseteq Token
    /\ phase \in {"new", "scheduled", "getting", "busy", "exited"}
    /\ current \in Token \cup {NoTask}
    /\ phase = "busy" <=> current # NoTask
    /\ drain \in {"none", "draining", "grace", "returned"}
    /\ overrun \in BOOLEAN
    /\ reader \in [Readers ->
          [state : {"idle", "waiting", "ok", "raised", "seen", "unknown", "timeout"},
           token : -1 .. MaxTokens]]
-----------------------------------------------------------------------------
(* Safety. *)

\* Once the cursor is at or past a training token, that step has been run (or
\* was resolved as failed or dropped): what after_commit_token rests on
\* (queue.py:3-6).  It survives merges and evaluations that overtake or are
\* overtaken while their put is suspended.
TrainsCommitInOrder ==
    \A u \in trains : u <= completed => u \in done

\* A task's handler does not start before all training submitted before it is
\* resolved, however long its own put was suspended: the promise made to
\* submit_eval_greedy_rank's callers (controller.py:766-768).
EarlierTrainingFirst ==
    \A t \in done \cup ({current} \ {NoTask}) :
        \A u \in trains : u < t => u \in done

\* A wait_for that came back, by the event or at once by the cursor, came
\* back after all training up to its token was resolved.
ReaderSeesTraining ==
    \A r \in Readers : reader[r].state \in {"ok", "raised", "seen"} =>
        \A u \in trains : u <= reader[r].token => u \in done

\* A reader that was handed a task without an error was handed a result.
OkMeansApplied ==
    \A r \in Readers : reader[r].state = "ok" => reader[r].token \in applied

\* Training that is not resolved keeps its entry in _pending, so is_idle_for
\* does not call the daemon idle and _reap_pending does not overlook it.
PendingCoversTraining ==
    \A u \in trains : u \notin done => u \in pending

\* When graceful_drain is back, every training task is resolved and none can
\* come after it (queue.py:203-209).
DrainResolvesTraining ==
    drain = "returned" => trains \subseteq done

\* A task reported as dropped was not applied; only a grace period that ended
\* before the worker did leaves one task for which both can be true.
DropIsFinal ==
    Cardinality({t \in applied : error[t] = "dropped"}) <= IF overrun THEN 1 ELSE 0

\* The cursor never moves back and a resolved task stays resolved.  The guard
\* that queue.py:171-172 calls defensive is needed: a merge whose put was
\* suspended does finish after a later token.
ProgressIsKept ==
    [][completed' >= completed /\ done \subseteq done']_vars

\* A task is handed to the handler once, however its put was suspended and woken,
\* and no task that was resolved is, except by a worker that outlived its drain:
\* training whose token is out never trains again (queue.py:157-180).
HandledOnce ==
    [][\A t \in Token : current' = t /\ current # t =>
          /\ t \notin applied /\ error[t] # "failed"
          /\ t \in done => overrun]_vars

\* The cursor covers every token below it, admin work included
\* (tests/test_queue_cursor.py:105-106).  It holds as long as no put can be
\* suspended.
CursorCoversPrefix ==
    \A t \in 0 .. completed : t \in done

\* When graceful_drain is back, no task is left that will never be resolved,
\* and so no wait_for that never comes back (queue.py:205-209).
DrainResolvesAll ==
    drain = "returned" => \A t \in 0 .. nextToken - 1 : t \in done

-----------------------------------------------------------------------------
(* Liveness. *)

\* As long as handlers return, every training task is resolved, by the worker
\* or by a drain.
TrainsResolve ==
    HandlersReturn => \A t \in Token : t \in trains ~> t \in done

\* A drain comes back even if a handler never does.
DrainReturns ==
    drain \in {"draining", "grace"} ~> drain = "returned"

-----------------------------------------------------------------------------
(* Refinement: what the queue does to training is an OrderedCommit. *)

Ordered == INSTANCE OrderedCommit WITH
    issued <- trains,
    open <- trains \ done,
    closed <- ~accepting

OrderedSpec == Ordered!Spec

-----------------------------------------------------------------------------
(* The inductive invariant behind the safety properties. *)

\* A task of the queue or of a handler.
Held(t) == t = current \/ \E i \in DOMAIN q : q[i] = t

Issued == 0 .. nextToken - 1

\* Every token in sight was issued, and only admin work is suspended in a put.
TokensIssued ==
    /\ completed < nextToken
    /\ pending \subseteq Issued
    /\ trains \subseteq Issued
    /\ done \subseteq Issued
    /\ current \in Issued \cup {NoTask}
    /\ q \in Seq(Issued)
    /\ putters \in Seq(Issued \ trains)
    /\ woken \in Seq(Issued \ trains)
    /\ \A r \in Readers : reader[r].state \in {"ok", "raised", "seen"} =>
           reader[r].token < nextToken

\* Training entered the queue as it was issued, so all that is before it in
\* the queue, or already taken from it, has a smaller token.
TrainingBehindSmaller ==
    \A j \in DOMAIN q : q[j] \in trains =>
        /\ current < q[j]
        /\ \A i \in DOMAIN q : i < j => q[i] < q[j]

\* Open training is ahead of the cursor, registered, and on its way.
OpenTrainingAhead ==
    \A u \in trains \ done : completed < u /\ u \in pending /\ Held(u)

CursorCoversDone == \A t \in done : t <= completed

QueueInv ==
    /\ TypeOK
    /\ TokensIssued
    /\ TrainingBehindSmaller
    /\ OpenTrainingAhead
    /\ CursorCoversDone
    /\ DrainResolvesTraining
    /\ drain # "none" => ~accepting
    /\ ReaderSeesTraining
=============================================================================
