------------------------------- MODULE Serving -------------------------------
(***************************************************************************)
(* The controller around the compute queue: train calls, chat requests     *)
(* that wait for a commit token, the commit stream and the shutdown        *)
(* (trainfer/controller.py, commit_stream.py, the routes of server.py).    *)
(*                                                                         *)
(* The queue's handler, Controller._handle_task, is a plain function: the  *)
(* event loop runs nothing else between its first and its last line.  Nor  *)
(* does it between the chunks of a train call, since try_submit never      *)
(* suspends.  Every step of a coroutine therefore has LoopFree as a guard. *)
(* Only the threads that generate text run beside the event loop; they and *)
(* the train step exclude each other by ModelState.mode_lock.              *)
(***************************************************************************)
EXTENDS ComputeQueue

CONSTANTS
    MaxChunks,   \* bound on the chunks of one train call
    Streams,     \* clients of /v1/commits/stream
    StreamDepth  \* maxsize of a subscriber's queue

ASSUME ServingBounds == MaxChunks \in Nat /\ StreamDepth \in Nat \ {0}

Sentinel == -1   \* the {"_shutdown": True} event; other events are tokens
NoCall == -1

VARIABLES
    left,      \* chunks the running train call has still to submit
    chunks,    \* tokens it was given so far
    replies,   \* what train calls returned: the commit token, the tokens it covers
    stage,     \* how far the handler is
    weights,   \* training tokens whose step the model has in it
    undone,    \* training tokens a load or a reset ever took out of it
    stream,    \* the commit stream's clients
    inbox,     \* the queue of each subscriber
    last,      \* the last cursor each client was sent
    shutting,  \* _shutting_down
    chat       \* chat requests; each waits for its token as a reader of the queue

callVars   == <<left, chunks, replies>>
stageVars  == <<stage, weights, undone>>
streamVars == <<stream, inbox, last>>
servingVars == <<callVars, stageVars, streamVars, shutting, chat>>
allVars == <<vars, servingVars>>

ServingInit ==
    /\ Init
    /\ left = NoCall
    /\ chunks = <<>>
    /\ replies = {}
    /\ stage = "idle"
    /\ weights = {}
    /\ undone = {}
    /\ stream = [s \in Streams |-> "off"]
    /\ inbox = [s \in Streams |-> <<>>]
    /\ last = [s \in Streams |-> -1]
    /\ shutting = FALSE
    /\ chat = [r \in Readers |-> [at |-> "idle", saw |-> {}, cursor |-> -1]]

\* No handler and no train call holds the event loop.
LoopShared == TRUE
LoopFree == phase # "busy" /\ left = NoCall

\* A coroutine of the queue runs a step of its own.
OnLoop(step) == LoopFree /\ step /\ UNCHANGED servingVars

-----------------------------------------------------------------------------
(* Train calls. *)

ChunksLeft(n) == n - 1

\* submit_train with n chunks, up to its second.  A call that is refused its
\* first chunk, or refused because of the shutdown, leaves no trace.
TrainCall(n) ==
    /\ LoopFree
    /\ ~shutting
    /\ nextToken + n <= MaxTokens
    /\ TrySubmit
    /\ left' = ChunksLeft(n)
    /\ chunks' = <<nextToken>>
    /\ UNCHANGED <<replies, stageVars, streamVars, shutting, chat>>

TrainChunk ==
    /\ left > 0
    /\ TrySubmit
    /\ left' = ChunksLeft(left)
    /\ chunks' = Append(chunks, nextToken)
    /\ UNCHANGED <<replies, stageVars, streamVars, shutting, chat>>

\* QueueFullError leaves the call; the chunks submitted before it stay.
TrainRefused ==
    /\ left > 0
    /\ Full
    /\ left' = NoCall
    /\ chunks' = <<>>
    /\ UNCHANGED <<vars, replies, stageVars, streamVars, shutting, chat>>

FirstToken(tasks) == tasks[1]
CommitToken(tasks) == tasks[Len(tasks)]

TrainReturns ==
    /\ left = 0
    /\ replies' = replies \cup
           {[token |-> CommitToken(chunks), covers |-> {chunks[i] : i \in DOMAIN chunks}]}
    /\ left' = NoCall
    /\ chunks' = <<>>
    /\ UNCHANGED <<vars, stageVars, streamVars, shutting, chat>>

\* request_merge, request_snapshot_* and submit_eval_greedy_rank up to submit's
\* put; their own wait is for the task object and changes nothing.
AdminCall == ~shutting /\ OnLoop(Submit)

-----------------------------------------------------------------------------
(* The commit stream. *)

Subscribed(s) == stream[s] \in {"opened", "streaming", "leaked"}

\* put_nowait to every subscriber; a full one is skipped.
FanoutInFront(event) ==
    inbox' = [s \in Streams |->
                 IF Subscribed(s) /\ Len(inbox[s]) < StreamDepth
                 THEN <<event>> \o inbox[s] ELSE inbox[s]]
Fanout(event) ==
    inbox' = [s \in Streams |->
                 IF Subscribed(s) /\ Len(inbox[s]) < StreamDepth
                 THEN Append(inbox[s], event) ELSE inbox[s]]

Subscribe(s) ==
    /\ LoopFree
    /\ stream[s] = "off"
    /\ stream' = [stream EXCEPT ![s] = "opened"]
    /\ UNCHANGED <<vars, callVars, stageVars, inbox, last, shutting, chat>>

\* The response's body is iterated for the first time.
StreamStarts(s) ==
    /\ LoopFree
    /\ stream[s] = "opened"
    /\ stream' = [stream EXCEPT ![s] = "streaming"]
    /\ UNCHANGED <<vars, callVars, stageVars, inbox, last, shutting, chat>>

Receive(s) ==
    /\ LoopFree
    /\ stream[s] = "streaming"
    /\ inbox[s] # <<>>
    /\ inbox' = [inbox EXCEPT ![s] = Tail(@)]
    /\ IF Head(inbox[s]) = Sentinel
       THEN stream' = [stream EXCEPT ![s] = "closed"] /\ UNCHANGED last
       ELSE last' = [last EXCEPT ![s] = Head(inbox[s])] /\ UNCHANGED stream
    /\ UNCHANGED <<vars, callVars, stageVars, shutting, chat>>

\* The client goes away.  A body that was never iterated has no finally block
\* to run: its subscription stays.
Disconnect(s) ==
    /\ LoopFree
    /\ stream[s] \in {"opened", "streaming"}
    /\ stream' = [stream EXCEPT ![s] = IF @ = "opened" THEN "leaked" ELSE "gone"]
    /\ UNCHANGED <<vars, callVars, stageVars, inbox, last, shutting, chat>>

-----------------------------------------------------------------------------
(* The handler.  Of the admin work only what it does to the training in the  *)
(* weights matters here; Snapshots has the rest.                             *)

TakeTask ==
    /\ LoopFree
    /\ WorkerGet
    /\ stage' = "entered"
    /\ UNCHANGED <<callVars, weights, undone, streamVars, shutting, chat>>

\* A thread that is done with its generation leaves the lock, one that waits for
\* a streamer nobody ends does not.
LockIgnored == TRUE
LockFree == \A r \in Readers : chat[r].at \notin {"generating", "stuck"}

\* train_engine.step, under mode_lock.
TrainStep ==
    /\ stage = "entered"
    /\ current \in trains
    /\ LockFree
    /\ weights' = weights \cup {current}
    /\ stage' = "stepped"
    /\ UNCHANGED <<vars, callVars, undone, streamVars, shutting, chat>>

\* merge, snapshot_save, snapshot_load, reset_adapter and eval_greedy_rank.  A
\* load or a reset takes training out of the weights, a load brings back some of
\* what an earlier one took out, and neither takes mode_lock.
AdminWork ==
    /\ stage = "entered"
    /\ current \notin trains
    /\ weights' \in SUBSET (weights \cup undone)
    /\ undone' = undone \cup (weights \ weights')
    /\ stage' = "worked"
    /\ UNCHANGED <<vars, callVars, streamVars, shutting, chat>>

\* The log entries and the broadcast of a step that succeeded.
Publish ==
    /\ stage = "stepped"
    /\ Fanout(current)
    /\ stage' = "published"
    /\ UNCHANGED <<vars, callVars, weights, undone, stream, last, shutting, chat>>

\* The handler is left.  It raises out of the step, which leaves the weights as
\* they were, or out of the logging behind it, which does not; a load that raises
\* may have changed them.  The step holds the lock from its first line.
HandlerEnds(ok) ==
    /\ IF ok
       THEN stage = IF current \in trains THEN "published" ELSE "worked"
       ELSE stage \in {"entered", "stepped", "worked"}
    /\ stage = "entered" /\ current \in trains => LockFree
    /\ WorkerFinishes(ok)
    /\ stage' = "idle"
    /\ UNCHANGED <<callVars, weights, undone, streamVars, shutting, chat>>

-----------------------------------------------------------------------------
(* Chat requests: generate and stream_generate. *)

\* A request without after_commit_token goes the way of one with -1.
ChatRequest(r, t) ==
    /\ LoopFree
    /\ chat[r].at = "idle"
    /\ WaitFor(r, t)
    /\ chat' = [chat EXCEPT ![r].at = "admitted"]
    /\ UNCHANGED <<callVars, stageVars, streamVars, shutting>>

\* The wait ends: the event, or the timeout after 60 s, which is swallowed as
\* an unknown token is.
ChatWaitEnds(r) == OnLoop(WaitReturns(r) \/ WaitTimesOut(r))

NotWaitedFor(r) == TRUE
WaitedFor(r) == reader[r].state # "waiting"

\* A thread has the lock: the model cannot be trained until it is done.
GenerationStarts(r) ==
    /\ chat[r].at = "admitted"
    /\ WaitedFor(r)
    /\ LockFree
    /\ chat' = [chat EXCEPT ![r].at = "generating", ![r].saw = weights]
    /\ UNCHANGED <<vars, callVars, stageVars, streamVars, shutting>>

ThreadNeedsLoop == LoopFree
ThreadRuns == TRUE

\* The thread hands its chunks over without waiting for the event loop.
GenerationEnds(r) ==
    /\ chat[r].at = "generating"
    /\ ThreadRuns
    /\ chat' = [chat EXCEPT ![r].at = "generated"]
    /\ UNCHANGED <<vars, callVars, stageVars, streamVars, shutting>>

\* model.generate raises.  A one-shot request fails.  For a streamed one it runs
\* in a second thread, whose streamer nobody ends: the first waits for the next
\* piece of text for ever, within mode_lock.
GenerationRaises(r) ==
    /\ chat[r].at = "generating"
    /\ \E at \in {"failed", "stuck"} : chat' = [chat EXCEPT ![r].at = at]
    /\ UNCHANGED <<vars, callVars, stageVars, streamVars, shutting>>

Answer(r) ==
    /\ LoopFree
    /\ chat[r].at = "generated"
    /\ chat' = [chat EXCEPT ![r].at = "answered", ![r].cursor = completed]
    /\ UNCHANGED <<vars, callVars, stageVars, streamVars, shutting>>

-----------------------------------------------------------------------------
(* Shutdown. *)

\* graceful_shutdown up to the stopping of the schedulers.
ShutdownBegins ==
    /\ LoopFree
    /\ ~shutting
    /\ shutting' = TRUE
    /\ Fanout(Sentinel)
    /\ UNCHANGED <<vars, callVars, stageVars, stream, last, chat>>

ShutdownDrains == shutting /\ drain = "none" /\ OnLoop(DrainCall)

-----------------------------------------------------------------------------
CallStep ==
    \/ \E n \in 1 .. MaxChunks : TrainCall(n)
    \/ TrainChunk
    \/ TrainRefused
    \/ TrainReturns
    \/ AdminCall

StreamStep(s) ==
    \/ Subscribe(s)
    \/ StreamStarts(s)
    \/ Receive(s)
    \/ Disconnect(s)

ChatStep(r) ==
    \/ \E t \in -1 .. MaxTokens : ChatRequest(r, t)
    \/ ChatWaitEnds(r)
    \/ GenerationStarts(r)
    \/ GenerationEnds(r)
    \/ GenerationRaises(r)
    \/ Answer(r)

ServingNext ==
    \/ CallStep
    \/ TakeTask
    \/ TrainStep
    \/ AdminWork
    \/ Publish
    \/ \E ok \in BOOLEAN : HandlerEnds(ok)
    \/ \E s \in Streams : StreamStep(s)
    \/ \E r \in Readers : ChatStep(r)
    \/ ShutdownBegins
    \/ ShutdownDrains
    \/ OnLoop(PutterResume)
    \/ OnLoop(WorkerStart)
    \/ OnLoop(WorkerPoll)
    \/ OnLoop(DrainDeadline)
    \/ OnLoop(DrainJoin)
    \/ OnLoop(GraceExpires)

ServingSpec == ServingInit /\ [][ServingNext]_allVars

\* The event loop runs whatever is ready when nothing holds it, and due timers
\* (the 60 s of a chat's wait among them); a generation ends after
\* max_new_tokens at the latest, unless it raises.
ServingFairness ==
    /\ WF_allVars(TrainChunk \/ TrainRefused \/ TrainReturns)
    /\ WF_allVars(TakeTask)
    /\ WF_allVars(ShutdownDrains)
    /\ WF_allVars(OnLoop(PutterResume))
    /\ WF_allVars(OnLoop(WorkerStart))
    /\ WF_allVars(OnLoop(WorkerPoll))
    /\ WF_allVars(OnLoop(DrainDeadline))
    /\ WF_allVars(OnLoop(DrainJoin))
    /\ WF_allVars(OnLoop(GraceExpires))
    /\ \A s \in Streams : WF_allVars(StreamStarts(s)) /\ WF_allVars(Receive(s))
    /\ \A r \in Readers :
          /\ WF_allVars(ChatWaitEnds(r))
          /\ WF_allVars(GenerationStarts(r))
          /\ WF_allVars(GenerationEnds(r))
          /\ WF_allVars(Answer(r))

\* No handler hangs: not in a step, not in the logging.
HandlersEnd ==
    WF_allVars(TrainStep \/ AdminWork \/ Publish \/ \E ok \in BOOLEAN : HandlerEnds(ok))

ServingLive == ServingSpec /\ ServingFairness
-----------------------------------------------------------------------------
(* Properties. *)

EventSeq == Seq(Token \cup {Sentinel})
StreamState == {"off", "opened", "streaming", "closed", "gone", "leaked"}
ChatState == {"idle", "admitted", "generating", "generated", "answered", "failed", "stuck"}

\* The type of the controller's own state; a handler is at some stage exactly
\* while the worker is busy.
ServingTypeOK ==
    /\ left \in NoCall .. MaxChunks
    /\ chunks \in TokenSeq
    /\ replies \subseteq [token : Token, covers : SUBSET Token]
    /\ stage \in {"idle", "entered", "stepped", "worked", "published"}
    /\ stage # "idle" <=> phase = "busy"
    /\ weights \subseteq trains
    /\ undone \subseteq trains
    /\ stream \in [Streams -> StreamState]
    /\ inbox \in [Streams -> EventSeq]
    /\ last \in [Streams -> Token \cup {-1}]
    /\ shutting \in BOOLEAN
    /\ chat \in [Readers -> [at : ChatState, saw : SUBSET Token, cursor : -1 .. MaxTokens - 1]]

\* A client that was sent the event of cursor N finds committed at N or above,
\* although the event is put before the cursor moves (commit_stream.py:61-66,
\* controller.py:254-259).
EventsAreCommitted ==
    \A s \in Streams : last[s] <= completed

\* What a client is sent moves forward: every event it takes from its queue is
\* above the one before it, so none comes twice and none comes late, and none
\* comes behind the shutdown event (commit_stream.py:51-96, server.py:548-570).
EventsMoveForward ==
    [][\A s \in Streams :
          Len(inbox'[s]) < Len(inbox[s]) /\ Head(inbox[s]) # Sentinel =>
              /\ last[s] < Head(inbox[s])
              /\ last'[s] = Head(inbox[s])
              /\ stream[s] = "streaming"]_allVars

\* The one commit token of a train call covers all its chunks: when the cursor
\* reaches it, every chunk is resolved (queue.py:39-41, controller.py:597).
CommitTokenCoversBatch ==
    \A b \in replies : b.token <= completed => b.covers \subseteq done

\* "The next inference sees it": a generation whose wait for a token came back
\* runs on weights that have every training step up to that token, unless the
\* step itself failed or was dropped, or a load or a reset took it out again
\* (queue.py:5-6, controller.py:328-331).
GenerationSeesTraining ==
    \A r \in Readers :
        /\ chat[r].at \in {"generating", "generated", "answered"}
        /\ reader[r].state \in {"ok", "raised", "seen"}
        => \A u \in trains : u <= reader[r].token =>
               u \in chat[r].saw \/ error[u] # "none" \/ u \in undone

\* No train step arrives under a generation, which mode_lock keeps out: what
\* differs from the weights it began on was taken out, or brought back, by a load
\* or a reset, which take no lock (controller.py:267-287).
WeightsHoldStill ==
    \A r \in Readers : chat[r].at = "generating" =>
        (chat[r].saw \ weights) \cup (weights \ chat[r].saw) \subseteq undone

\* An answer whose wait came back reports a cursor at or above its token.
AnswerReachesToken ==
    \A r \in Readers :
        /\ chat[r].at = "answered"
        /\ reader[r].state \in {"ok", "raised", "seen"}
        => chat[r].cursor >= reader[r].token

\* "The response body's trainfer.commit_cursor is guaranteed >=
\* after_commit_token" (trainfer/README.md:33), for the commit tokens that train
\* calls returned and the queue knows.
CursorPromise ==
    \A r \in Readers :
        /\ chat[r].at = "answered"
        /\ reader[r].state # "unknown"
        /\ \E b \in replies : b.token = reader[r].token
        => chat[r].cursor >= reader[r].token

\* A streamed generation raised: its thread has mode_lock for good.
ThreadStuck == \E c \in Readers : chat[c].at = "stuck"

\* As long as handlers end, every chat request is answered or fails, whatever
\* token it names and whatever shutdown does to the queue, unless a streamed
\* generation raised (inference.py:132-156): then neither its own client nor
\* anyone who needs the lock is sure of an answer.
ChatsAreAnswered ==
    HandlersEnd => \A r \in Readers :
        chat[r].at = "admitted" ~> chat[r].at \in {"answered", "failed"} \/ ThreadStuck

\* As long as handlers end, a shutdown comes to the end of its drain, unless a
\* thread has mode_lock for good (controller.py:143-195).
ShutdownCompletes ==
    HandlersEnd => (shutting ~> drain = "returned" \/ ThreadStuck)

Queued(s, event) == \E i \in DOMAIN inbox[s] : inbox[s][i] = event
QueuedBefore(s, first, event) ==
    \E i, j \in DOMAIN inbox[s] : i < j /\ inbox[s][i] = first /\ inbox[s][j] = event

\* A client whose queue had room for the shutdown event is let go, and before
\* that it is sent every commit queued in front of it, unless it goes away or a
\* thread has mode_lock for good.  A full queue drops the shutdown event, which
\* is sent as a best effort (commit_stream.py:83-96).
SentinelClosesStream ==
    HandlersEnd => \A s \in Streams :
        /\ stream[s] = "streaming" /\ Queued(s, Sentinel)
             ~> stream[s] \in {"closed", "gone"} \/ ThreadStuck
        /\ \A t \in Token :
             stream[s] = "streaming" /\ QueuedBefore(s, t, Sentinel)
                 ~> last[s] = t \/ stream[s] = "gone" \/ ThreadStuck

-----------------------------------------------------------------------------
(* The inductive invariant behind the safety properties. *)

\* Past the step, the task in the handler is training the weights have.
StageTrained ==
    stage \in {"stepped", "published"} => current \in weights

\* An event waits for its client behind the cursor, or is the one whose handler
\* still holds the event loop.
EventsBehindCursor ==
    \A s \in Streams : \A i \in DOMAIN inbox[s] :
        \/ inbox[s][i] <= completed
        \/ stage = "published" /\ inbox[s][i] = current

\* The chunks of a call are training, the last one with the largest token.
ChunksInOrder ==
    /\ left # NoCall => chunks # <<>>
    /\ \A i \in DOMAIN chunks :
          chunks[i] \in trains /\ chunks[i] <= chunks[Len(chunks)]

RepliesCover ==
    \A b \in replies : b.covers \subseteq trains /\ \A u \in b.covers : u <= b.token

\* Resolved training is in the weights unless it failed, was dropped or was
\* taken out again.
ResolvedIsTrained ==
    \A u \in trains \cap done : u \in weights \/ error[u] # "none" \/ u \in undone

\* A generation starts after its wait.
WaitBeforeGeneration ==
    \A r \in Readers : chat[r].at \in {"generating", "generated", "answered"} =>
        reader[r].state # "waiting"

ServingInv ==
    /\ ServingTypeOK
    /\ StageTrained
    /\ EventsBehindCursor
    /\ EventsAreCommitted
    /\ ChunksInOrder
    /\ RepliesCover
    /\ ResolvedIsTrained
    /\ WaitBeforeGeneration
    /\ GenerationSeesTraining
    /\ WeightsHoldStill
=============================================================================
