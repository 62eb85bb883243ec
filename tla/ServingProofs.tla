---------------------------- MODULE ServingProofs ----------------------------
(***************************************************************************)
(* Theorems about Serving, for every number of clients, tokens and chunks  *)
(* and every depth of the queues.  The queue inside the controller behaves *)
(* as ComputeQueue says, so its theorems carry over; the controller's own  *)
(* guarantees rest on them and on ServingInv.                              *)
(***************************************************************************)
EXTENDS Serving, ComputeQueueProofs

-----------------------------------------------------------------------------
(* The queue inside. *)

\* A step of the controller is a step of the queue or leaves the queue alone.
LEMMA QueueStep == [ServingNext]_allVars => [Next]_vars
<1> SUFFICES ASSUME [ServingNext]_allVars PROVE [Next]_vars
  OBVIOUS
<1>1. CASE CallStep
  BY <1>1 DEF CallStep, TrainCall, TrainChunk, TrainRefused, TrainReturns, AdminCall, OnLoop, Next
<1>2. CASE TakeTask \/ TrainStep \/ AdminWork \/ Publish
  BY <1>2 DEF TakeTask, TrainStep, AdminWork, Publish, Next
<1>3. ASSUME NEW ok \in BOOLEAN, HandlerEnds(ok) PROVE [Next]_vars
  BY <1>3 DEF HandlerEnds, Next
<1>4. ASSUME NEW s \in Streams, StreamStep(s) PROVE [Next]_vars
  BY <1>4 DEF StreamStep, Subscribe, StreamStarts, Receive, Disconnect
<1>5. ASSUME NEW r \in Readers, ChatStep(r) PROVE [Next]_vars
  <2>1. CASE \E t \in -1 .. MaxTokens : ChatRequest(r, t)
    BY <2>1 DEF ChatRequest, Next, ReaderStep
  <2>2. CASE ChatWaitEnds(r)
    BY <2>2 DEF ChatWaitEnds, OnLoop, Next, ReaderStep
  <2>3. CASE GenerationStarts(r) \/ GenerationEnds(r) \/ GenerationRaises(r) \/ Answer(r)
    BY <2>3 DEF GenerationStarts, GenerationEnds, GenerationRaises, Answer
  <2> QED BY <1>5, <2>1, <2>2, <2>3 DEF ChatStep
<1>6. CASE ShutdownBegins \/ ShutdownDrains
  BY <1>6 DEF ShutdownBegins, ShutdownDrains, OnLoop, Next
<1>7. CASE OnLoop(PutterResume) \/ OnLoop(WorkerStart) \/ OnLoop(WorkerPoll)
           \/ OnLoop(DrainDeadline) \/ OnLoop(DrainJoin) \/ OnLoop(GraceExpires)
  BY <1>7 DEF OnLoop, Next
<1>8. CASE UNCHANGED allVars
  BY <1>8 DEF allVars
<1> QED BY <1>1, <1>2, <1>3, <1>4, <1>5, <1>6, <1>7, <1>8 DEF ServingNext

\* Under the controller the queue is a ComputeQueue: whatever is proved of the
\* queue holds of the daemon.
THEOREM QueueInside == ServingSpec => Spec
<1>1. ServingInit => Init
  BY DEF ServingInit
<1> QED BY <1>1, QueueStep, PTL DEF ServingSpec, Spec

\* So the daemon as a whole, with its chunked calls, its handler on the event loop
\* and its shutdown, commits training as OrderedCommit says and runs no task twice
\* (controller.py:182-266, 520-605, queue.py:147-180).
THEOREM DaemonCommitsInOrder == ServingSpec => OrderedSpec /\ HandledOnce
BY QueueInside, Refinement, NothingRunsTwice, PTL

\* The queue's invariant holds in the daemon.
LEMMA QueueInvInside == ServingSpec => []QueueInv
BY QueueInside, Invariance, PTL

\* What a step of the queue does to training and to what became of it.
LEMMA QueueMoves ==
    ASSUME QueueInv, [Next]_vars
    PROVE  /\ trains \subseteq trains'
           /\ \A u \in trains' \ trains : u = nextToken
           /\ \A u \in Token : error[u] # "none" => error'[u] # "none"
           /\ \A u \in done' \ done :
                 error'[u] # "none" \/ (WorkerFinishes(TRUE) /\ u = current)
<1> USE DEF QueueInv
<1>1. CASE TrySubmit \/ Submit
  BY <1>1 DEF TrySubmit, Submit, Issue, taskVars
<1>2. CASE PutterResume \/ WorkerStart \/ WorkerPoll \/ WorkerGet \/ Stop \/ DrainDeadline
  BY <1>2 DEF PutterResume, WorkerStart, WorkerPoll, WorkerGet, Stop, DrainDeadline,
              entryVars, taskVars
<1>3. CASE WorkerFinishes(TRUE)
  BY <1>3 DEF WorkerFinishes, entryVars
<1>4. CASE WorkerFinishes(FALSE)
  <2>1. current \in Token
    BY <1>4 DEF WorkerFinishes, TypeOK
  <2>2. error' = [error EXCEPT ![current] = "failed"] /\ error \in [Token -> {"none", "failed", "dropped"}]
    BY <1>4 DEF WorkerFinishes, TypeOK
  <2> QED BY <1>4, <2>1, <2>2 DEF WorkerFinishes, entryVars
<1>5. CASE Reap /\ trains' = trains
  <2>1. Dropped \subseteq Token
    BY DEF Dropped, TypeOK
  <2> QED BY <1>5, <2>1 DEF Reap
<1>6. CASE DrainCall
  <2>1. trains' = trains
    BY <1>6 DEF DrainCall
  <2> QED BY <1>5, <1>6, <2>1 DEF DrainCall
<1>7. CASE DrainJoin \/ GraceExpires
  BY <1>5, <1>7 DEF DrainJoin, GraceExpires, entryVars
<1>8. ASSUME NEW r \in Readers, ReaderStep(r)
      PROVE  UNCHANGED <<trains, error, done>>
  BY <1>8 DEF ReaderStep, WaitFor, WaitReturns, WaitTimesOut, entryVars, taskVars
<1>9. CASE UNCHANGED vars
  BY <1>9 DEF vars, entryVars, taskVars
<1>10. ASSUME NEW ok \in BOOLEAN, WorkerFinishes(ok)
       PROVE  WorkerFinishes(TRUE) \/ WorkerFinishes(FALSE)
  BY <1>10
<1> QED
  BY <1>1, <1>2, <1>3, <1>4, <1>6, <1>7, <1>8, <1>9, <1>10 DEF Next

\* The cursor and the resolved tasks, for a step of any kind.
LEMMA ProgressOrStutter ==
    ASSUME QueueInv, [Next]_vars
    PROVE  completed' >= completed /\ done \subseteq done'
<1>1. CASE Next
  BY <1>1, ProgressStep
<1>2. CASE UNCHANGED vars
  BY <1>2, Numbers DEF vars, taskVars, QueueInv
<1> QED BY <1>1, <1>2

-----------------------------------------------------------------------------
(* The controller's state. *)

\* The initial state satisfies the invariant.
LEMMA ServingInit_Inv == ServingInit => ServingInv
<1> SUFFICES ASSUME ServingInit PROVE ServingInv
  OBVIOUS
<1> USE DEF ServingInit, Init
<1>1. ServingTypeOK
  <2>1. left \in NoCall .. MaxChunks /\ chunks \in TokenSeq /\ completed = -1
    BY ServingBounds DEF NoCall, TokenSeq
  <2>2. inbox \in [Streams -> EventSeq] /\ last \in [Streams -> Token \cup {-1}]
    BY DEF EventSeq
  <2>3. chat \in [Readers -> [at : ChatState, saw : SUBSET Token, cursor : -1 .. MaxTokens - 1]]
    BY BoundsAssumption DEF ChatState
  <2> QED BY <2>1, <2>2, <2>3 DEF ServingTypeOK, StreamState
<1>2. StageTrained /\ ChunksInOrder /\ RepliesCover /\ ResolvedIsTrained
  BY DEF StageTrained, ChunksInOrder, RepliesCover, ResolvedIsTrained, NoCall
<1>3. EventsBehindCursor /\ EventsAreCommitted
  BY DEF EventsBehindCursor, EventsAreCommitted
<1>4. WaitBeforeGeneration /\ GenerationSeesTraining /\ WeightsHoldStill
  BY DEF WaitBeforeGeneration, GenerationSeesTraining, WeightsHoldStill
<1> QED BY <1>1, <1>2, <1>3, <1>4 DEF ServingInv

\* Which steps of the queue touch what the controller's variables speak of.
LEMMA Submitted ==
    ASSUME QueueInv, TrySubmit
    PROVE  /\ nextToken \in Token /\ nextToken' = nextToken + 1
           /\ trains' = trains \cup {nextToken} /\ nextToken \notin trains
           /\ \A u \in trains : u < nextToken
           /\ UNCHANGED <<completed, current, phase, done, reader>>
<1>1. Issue /\ trains' = trains \cup {nextToken}
  BY DEF TrySubmit
<1> QED
  BY <1>1, TokenFacts, IssueFacts, Numbers
     DEF Issue, QueueInv, TypeOK, TokensIssued, Issued, workerVars

\* The queue's own coroutines start and leave no handler.
LEMMA LoopSteps ==
    ASSUME \/ Submit \/ PutterResume \/ WorkerStart \/ WorkerPoll \/ DrainCall
           \/ DrainDeadline \/ DrainJoin \/ GraceExpires,
           phase # "busy"
    PROVE  phase' # "busy" /\ UNCHANGED <<trains, current, reader>>
<1>1. CASE Submit \/ PutterResume \/ DrainCall \/ DrainDeadline \/ DrainJoin \/ GraceExpires
  BY <1>1 DEF Submit, Issue, PutterResume, DrainCall, DrainDeadline, DrainJoin,
              GraceExpires, workerVars, entryVars
<1>2. CASE WorkerStart \/ WorkerPoll
  BY <1>2 DEF WorkerStart, WorkerPoll, LoopTop, entryVars
<1> QED BY <1>1, <1>2

\* A step that leaves the controller's variables alone is one of the queue's
\* coroutines.
QueueAlone ==
    \/ AdminCall \/ ShutdownDrains
    \/ OnLoop(PutterResume) \/ OnLoop(WorkerStart) \/ OnLoop(WorkerPoll)
    \/ OnLoop(DrainDeadline) \/ OnLoop(DrainJoin) \/ OnLoop(GraceExpires)

\* What such a step changes of what the invariant is about: at most the cursor
\* and what is resolved.
LEMMA QueueAloneFacts ==
    ASSUME QueueAlone
    PROVE  /\ UNCHANGED servingVars
           /\ phase # "busy" /\ phase' # "busy"
           /\ UNCHANGED <<trains, current, reader>>
           /\ ~WorkerFinishes(TRUE)
<1>1. /\ UNCHANGED servingVars /\ phase # "busy"
      /\ \/ Submit \/ PutterResume \/ WorkerStart \/ WorkerPoll \/ DrainCall
         \/ DrainDeadline \/ DrainJoin \/ GraceExpires
  BY DEF QueueAlone, AdminCall, ShutdownDrains, OnLoop, LoopFree
<1>2. ~WorkerFinishes(TRUE)
  BY <1>1 DEF WorkerFinishes
<1> QED BY <1>1, <1>2, LoopSteps

\* The controller's variables keep their types.
LEMMA ServingTypeStep ==
    ASSUME QueueInv, TypeOK', ServingTypeOK, StageTrained, ChunksInOrder,
           [ServingNext]_allVars
    PROVE  ServingTypeOK'
<1> USE DEF QueueInv, ServingTypeOK
<1>1. ASSUME NEW n \in 1 .. MaxChunks, TrainCall(n) PROVE ServingTypeOK'
  <2>1. left' = n - 1 /\ chunks' = <<nextToken>> /\ TrySubmit
    BY <1>1 DEF TrainCall, ChunksLeft
  <2>2. left' \in NoCall .. MaxChunks
    BY <2>1, ServingBounds DEF NoCall
  <2>3. chunks' \in TokenSeq
    BY <2>1, Submitted DEF TokenSeq
  <2> QED BY <1>1, <2>1, <2>2, <2>3, Submitted DEF TrainCall, stageVars, streamVars
<1>2. CASE TrainChunk
  <2>1. left' = left - 1 /\ chunks' = Append(chunks, nextToken) /\ TrySubmit /\ left > 0
    BY <1>2 DEF TrainChunk, ChunksLeft
  <2>2. left' \in NoCall .. MaxChunks
    BY <2>1, ServingBounds DEF NoCall
  <2>3. chunks' \in TokenSeq
    BY <2>1, Submitted, SeqFacts DEF TokenSeq
  <2> QED BY <1>2, <2>1, <2>2, <2>3, Submitted DEF TrainChunk, stageVars, streamVars
<1>3. CASE TrainRefused \/ TrainReturns
  <2>0. left' = NoCall /\ chunks' = <<>>
    BY <1>3 DEF TrainRefused, TrainReturns
  <2>1. left' \in NoCall .. MaxChunks /\ chunks' \in TokenSeq
    BY <2>0, ServingBounds DEF NoCall, TokenSeq
  <2>2. replies' \subseteq [token : Token, covers : SUBSET Token]
    <3>1. CASE TrainRefused
      BY <3>1 DEF TrainRefused
    <3>2. CASE TrainReturns
      <4>1. chunks # <<>>
        BY <3>2 DEF TrainReturns, ChunksInOrder, NoCall
      <4>2. chunks[Len(chunks)] \in Token /\ {chunks[i] : i \in DOMAIN chunks} \subseteq Token
        BY <4>1 DEF TokenSeq
      <4> QED BY <3>2, <4>2 DEF TrainReturns, CommitToken
    <3> QED BY <1>3, <3>1, <3>2
  <2>3. UNCHANGED <<trains, phase, stage, weights, undone, stream, inbox, last, shutting, chat>>
    BY <1>3 DEF TrainRefused, TrainReturns, vars, entryVars, workerVars, stageVars, streamVars
  <2> QED BY <2>1, <2>2, <2>3
<1>4. CASE QueueAlone
  BY <1>4, QueueAloneFacts DEF servingVars, callVars, stageVars, streamVars
<1>5. CASE TakeTask
  BY <1>5 DEF TakeTask, WorkerGet, entryVars, callVars, streamVars
<1>6. CASE TrainStep \/ AdminWork
  BY <1>6 DEF TrainStep, AdminWork, vars, entryVars, workerVars, callVars, streamVars
<1>7. ASSUME NEW event \in Token \cup {Sentinel}, Fanout(event)
      PROVE  inbox' \in [Streams -> EventSeq]
  <2> DEFINE box(s) == IF Subscribed(s) /\ Len(inbox[s]) < StreamDepth
                       THEN Append(inbox[s], event) ELSE inbox[s]
  <2>1. ASSUME NEW s \in Streams PROVE box(s) \in EventSeq
    <3>1. inbox[s] \in Seq(Token \cup {Sentinel})
      BY DEF EventSeq
    <3>2. Append(inbox[s], event) \in Seq(Token \cup {Sentinel})
      BY <3>1, <1>7, SeqFacts
    <3> QED BY <3>1, <3>2 DEF EventSeq
  <2>2. inbox' = [s \in Streams |-> box(s)]
    BY <1>7 DEF Fanout
  <2> HIDE DEF box
  <2> QED BY <2>1, <2>2
<1>8. CASE Publish
  <2>1. current \in Token
    BY <1>8 DEF Publish, TypeOK
  <2> QED BY <1>7, <1>8, <2>1 DEF Publish, vars, entryVars, workerVars, callVars
<1>9. ASSUME NEW ok \in BOOLEAN, HandlerEnds(ok) PROVE ServingTypeOK'
  BY <1>9 DEF HandlerEnds, WorkerFinishes, LoopTop, entryVars, callVars, streamVars
<1>10. ASSUME NEW s \in Streams, StreamStep(s) PROVE ServingTypeOK'
  <2>1. UNCHANGED <<phase, trains, callVars, stageVars, shutting, chat>>
    BY <1>10
       DEF StreamStep, Subscribe, StreamStarts, Receive, Disconnect, vars, entryVars, workerVars
  <2>2. stream' \in [Streams -> StreamState]
    BY <1>10 DEF StreamState, StreamStep, Subscribe, StreamStarts, Receive, Disconnect
  <2>3. inbox' \in [Streams -> EventSeq] /\ last' \in [Streams -> Token \cup {-1}]
    <3>1. CASE Receive(s)
      <4>1. inbox[s] \in Seq(Token \cup {Sentinel}) /\ inbox[s] # <<>>
        BY <3>1 DEF Receive, EventSeq
      <4>2. Head(inbox[s]) \in Token \cup {-1} /\ Tail(inbox[s]) \in EventSeq
        BY <4>1, SeqFacts DEF EventSeq, Sentinel
      <4> QED BY <3>1, <4>2 DEF Receive
    <3>2. CASE UNCHANGED <<inbox, last>>
      BY <3>2
    <3> QED BY <1>10, <3>1, <3>2 DEF StreamStep, Subscribe, StreamStarts, Disconnect
  <2> QED BY <2>1, <2>2, <2>3 DEF callVars, stageVars
<1>11. ASSUME NEW r \in Readers, ChatStep(r) PROVE ServingTypeOK'
  <2>1. UNCHANGED <<phase, trains, callVars, stageVars, streamVars, shutting>>
    BY <1>11
       DEF ChatStep, ChatRequest, ChatWaitEnds, OnLoop, GenerationStarts, GenerationEnds, GenerationRaises, Answer,
           WaitFor, WaitReturns, WaitTimesOut, servingVars, vars, entryVars, workerVars
  <2>2. chat' \in [Readers -> [at : ChatState, saw : SUBSET Token, cursor : -1 .. MaxTokens - 1]]
    <3>0. {"admitted", "generating", "generated", "answered", "failed", "stuck"} \subseteq ChatState
      BY DEF ChatState
    <3>1. chat[r] \in [at : ChatState, saw : SUBSET Token, cursor : -1 .. MaxTokens - 1]
      OBVIOUS
    <3>2. weights \subseteq Token /\ completed \in -1 .. MaxTokens - 1
      BY DEF TypeOK
    <3>3. CASE \E t \in -1 .. MaxTokens : ChatRequest(r, t)
      BY <3>0, <3>1, <3>3 DEF ChatRequest
    <3>4. CASE ChatWaitEnds(r)
      BY <3>4 DEF ChatWaitEnds, OnLoop, servingVars
    <3>5. CASE GenerationStarts(r)
      BY <3>0, <3>1, <3>2, <3>5 DEF GenerationStarts
    <3>6. CASE GenerationEnds(r) \/ GenerationRaises(r)
      BY <3>0, <3>1, <3>6 DEF GenerationEnds, GenerationRaises
    <3>7. CASE Answer(r)
      BY <3>0, <3>1, <3>2, <3>7 DEF Answer
    <3> QED BY <1>11, <3>3, <3>4, <3>5, <3>6, <3>7 DEF ChatStep
  <2> QED BY <2>1, <2>2 DEF callVars, stageVars, streamVars
<1>12. CASE ShutdownBegins
  BY <1>7, <1>12 DEF ShutdownBegins, vars, entryVars, workerVars, callVars, stageVars
<1>13. CASE UNCHANGED allVars
  BY <1>13 DEF allVars, vars, entryVars, workerVars, servingVars, callVars, stageVars, streamVars
<1> QED
  BY <1>1, <1>2, <1>3, <1>4, <1>5, <1>6, <1>8, <1>9, <1>10, <1>11, <1>12, <1>13
     DEF ServingNext, CallStep, QueueAlone

-----------------------------------------------------------------------------
(* Train calls. *)

\* The chunks of a call stay in order and its reply covers them.
LEMMA CallsStep ==
    ASSUME QueueInv, ServingTypeOK, ChunksInOrder, RepliesCover, [ServingNext]_allVars,
           trains \subseteq trains'
    PROVE  ChunksInOrder' /\ RepliesCover'
<1> USE DEF ServingTypeOK
<1>1. ASSUME UNCHANGED callVars PROVE ChunksInOrder' /\ RepliesCover'
  BY <1>1 DEF ChunksInOrder, RepliesCover, callVars
<1>2. ASSUME NEW n \in 1 .. MaxChunks, TrainCall(n)
      PROVE  ChunksInOrder' /\ RepliesCover'
  <2>1. TrySubmit /\ chunks' = <<nextToken>> /\ replies' = replies
    BY <1>2 DEF TrainCall
  <2>2. nextToken \in trains' /\ nextToken \in Nat
    BY <2>1, Submitted, TokenFacts
  <2>3. /\ chunks' # <<>> /\ Len(chunks') = 1
        /\ \A i \in DOMAIN chunks' : chunks'[i] = nextToken
        /\ chunks'[1] = nextToken
    BY <2>1
  <2>4. ChunksInOrder'
    BY <2>2, <2>3 DEF ChunksInOrder
  <2> QED BY <2>1, <2>4 DEF RepliesCover
<1>3. CASE TrainChunk
  <2>1. TrySubmit /\ chunks' = Append(chunks, nextToken) /\ replies' = replies
    BY <1>3 DEF TrainChunk
  <2>2. /\ nextToken \in trains' /\ nextToken \in Nat
        /\ \A u \in trains : u < nextToken /\ u \in Nat
    BY <2>1, Submitted, TokenFacts, Numbers DEF QueueInv
  <2>3. /\ chunks' # <<>> /\ DOMAIN chunks' = 1 .. Len(chunks) + 1 /\ Len(chunks') = Len(chunks) + 1
        /\ \A i \in 1 .. Len(chunks) : chunks'[i] = chunks[i]
        /\ chunks'[Len(chunks) + 1] = nextToken
        /\ Len(chunks) \in Nat /\ DOMAIN chunks = 1 .. Len(chunks)
    BY <2>1, AppendFacts DEF TokenSeq
  <2>4. ASSUME NEW i \in DOMAIN chunks'
        PROVE  chunks'[i] \in trains' /\ chunks'[i] <= chunks'[Len(chunks')]
    <3>0. chunks'[Len(chunks')] = nextToken
      BY <2>3
    <3>1. CASE i \in DOMAIN chunks
      <4>1. chunks[i] \in trains /\ chunks'[i] = chunks[i]
        BY <2>3, <3>1 DEF ChunksInOrder
      <4>2. chunks[i] < nextToken /\ chunks[i] \in Nat /\ chunks[i] \in trains'
        BY <2>2, <4>1
      <4> QED BY <2>2, <3>0, <4>1, <4>2
    <3>2. CASE i = Len(chunks) + 1
      BY <2>2, <2>3, <3>2
    <3> QED BY <2>3, <2>4, <3>1, <3>2
  <2> QED BY <2>1, <2>3, <2>4 DEF ChunksInOrder, RepliesCover
<1>4. CASE TrainRefused
  BY <1>4 DEF TrainRefused, ChunksInOrder, RepliesCover
<1>5. CASE TrainReturns
  <2>1. left' = NoCall /\ chunks' = <<>>
    BY <1>5 DEF TrainReturns
  <2> DEFINE reply == [token |-> chunks[Len(chunks)],
                       covers |-> {chunks[i] : i \in DOMAIN chunks}]
  <2>2. replies' = replies \cup {reply}
    BY <1>5 DEF TrainReturns, CommitToken
  <2>3. reply.covers \subseteq trains /\ \A u \in reply.covers : u <= reply.token
    BY DEF ChunksInOrder
  <2> HIDE DEF reply
  <2> QED BY <2>1, <2>2, <2>3 DEF ChunksInOrder, RepliesCover
<1>6. CASE QueueAlone
  BY <1>1, <1>6, QueueAloneFacts DEF servingVars
<1>7. CASE TakeTask \/ TrainStep \/ AdminWork \/ Publish \/ ShutdownBegins
  BY <1>1, <1>7 DEF TakeTask, TrainStep, AdminWork, Publish, ShutdownBegins
<1>8. ASSUME NEW ok \in BOOLEAN, HandlerEnds(ok) PROVE UNCHANGED callVars
  BY <1>8 DEF HandlerEnds
<1>9. ASSUME NEW s \in Streams, StreamStep(s) PROVE UNCHANGED callVars
  BY <1>9 DEF StreamStep, Subscribe, StreamStarts, Receive, Disconnect
<1>10. ASSUME NEW r \in Readers, ChatStep(r) PROVE UNCHANGED callVars
  BY <1>10
     DEF ChatStep, ChatRequest, ChatWaitEnds, OnLoop, GenerationStarts, GenerationEnds,
         GenerationRaises, Answer, servingVars
<1>11. CASE UNCHANGED allVars
  BY <1>1, <1>11 DEF allVars, servingVars
<1> QED
  BY <1>1, <1>2, <1>3, <1>4, <1>5, <1>6, <1>7, <1>8, <1>9, <1>10, <1>11
     DEF ServingNext, CallStep, QueueAlone

-----------------------------------------------------------------------------
(* The handler and the commit stream. *)

\* The handler's stage says what its task has done to the weights.
LEMMA StageStep ==
    ASSUME ServingTypeOK, StageTrained, [ServingNext]_allVars
    PROVE  StageTrained'
<1> USE DEF StageTrained, ServingTypeOK
<1>1. ASSUME stage' = stage, weights' = weights, current' = current \/ stage = "idle"
      PROVE  StageTrained'
  BY <1>1
<1>2. CASE TakeTask \/ \E ok \in BOOLEAN : HandlerEnds(ok)
  BY <1>2 DEF TakeTask, HandlerEnds
<1>3. CASE TrainStep \/ AdminWork \/ Publish
  BY <1>3 DEF TrainStep, AdminWork, Publish, vars, workerVars
<1>4. CASE CallStep /\ ~AdminCall
  <2>1. UNCHANGED <<stage, weights>>
    BY <1>4 DEF CallStep, TrainCall, TrainChunk, TrainRefused, TrainReturns, stageVars
  <2>2. TrySubmit \/ UNCHANGED vars
    BY <1>4 DEF CallStep, TrainCall, TrainChunk, TrainRefused, TrainReturns
  <2>3. current' = current
    BY <2>2 DEF TrySubmit, Issue, vars, workerVars
  <2> QED BY <1>1, <2>1, <2>3
<1>5. CASE QueueAlone
  BY <1>1, <1>5, QueueAloneFacts DEF servingVars, stageVars
<1>6. ASSUME NEW s \in Streams, StreamStep(s) PROVE StageTrained'
  BY <1>1, <1>6
     DEF StreamStep, Subscribe, StreamStarts, Receive, Disconnect, stageVars, vars, workerVars
<1>7. ASSUME NEW r \in Readers, ChatStep(r) PROVE StageTrained'
  <2>1. UNCHANGED <<stage, weights, current>>
    BY <1>7
       DEF ChatStep, ChatRequest, ChatWaitEnds, OnLoop, GenerationStarts, GenerationEnds, GenerationRaises, Answer,
           WaitFor, WaitReturns, WaitTimesOut, stageVars, servingVars, vars, workerVars
  <2> QED BY <1>1, <2>1
<1>8. CASE ShutdownBegins \/ UNCHANGED allVars
  BY <1>1, <1>8 DEF ShutdownBegins, allVars, servingVars, stageVars, vars, workerVars
<1> QED
  BY <1>2, <1>3, <1>4, <1>5, <1>6, <1>7, <1>8 DEF ServingNext, CallStep, QueueAlone

\* Events wait behind the cursor, or the event loop is held by their handler.
LEMMA EventsStep ==
    ASSUME QueueInv, ServingTypeOK, EventsBehindCursor, EventsAreCommitted,
           [ServingNext]_allVars, completed' >= completed, completed' \in Int
    PROVE  EventsBehindCursor' /\ EventsAreCommitted'
<1> USE DEF ServingTypeOK
<1>0. /\ completed \in Int /\ current \in Int
      /\ \A s \in Streams : /\ inbox[s] \in Seq(Token \cup {Sentinel}) /\ last[s] \in Int
                           /\ \A i \in DOMAIN inbox[s] : inbox[s][i] \in Int
  <2>1. completed \in Int /\ current \in Int /\ Token \cup {Sentinel} \subseteq Int
    BY Numbers, TokenFacts DEF QueueInv, Sentinel
  <2>2. ASSUME NEW s \in Streams
        PROVE  /\ inbox[s] \in Seq(Token \cup {Sentinel}) /\ last[s] \in Int
               /\ \A i \in DOMAIN inbox[s] : inbox[s][i] \in Int
    <3>1. inbox[s] \in Seq(Token \cup {Sentinel})
      BY DEF EventSeq
    <3>2. \A i \in DOMAIN inbox[s] : inbox[s][i] \in Token \cup {Sentinel}
      BY <3>1
    <3>3. last[s] \in Int
      <4>1. last[s] \in Token \cup {-1}
        OBVIOUS
      <4> QED BY <2>1, <4>1 DEF Sentinel
    <3> QED BY <2>1, <3>1, <3>2, <3>3
  <2> QED BY <2>1, <2>2
<1>1. ASSUME UNCHANGED <<inbox, last>>,
             stage = "published" => \/ stage' = "published" /\ current' = current
                                    \/ completed' >= current
      PROVE  EventsBehindCursor' /\ EventsAreCommitted'
  <2>1. EventsAreCommitted'
    BY <1>0, <1>1 DEF EventsAreCommitted
  <2>2. ASSUME NEW s \in Streams, NEW i \in DOMAIN inbox[s]
        PROVE  \/ inbox[s][i] <= completed'
               \/ stage' = "published" /\ inbox[s][i] = current'
    BY <1>0, <1>1, <2>2 DEF EventsBehindCursor
  <2> QED BY <1>1, <2>1, <2>2 DEF EventsBehindCursor
<1>2. ASSUME NEW event \in Int, Fanout(event), last' = last,
             stage # "published", UNCHANGED <<completed, current>>,
             event <= completed \/ (stage' = "published" /\ event = current)
      PROVE  EventsBehindCursor' /\ EventsAreCommitted'
  <2>1. ASSUME NEW s \in Streams, NEW i \in DOMAIN inbox'[s]
        PROVE  \/ inbox'[s][i] <= completed'
               \/ stage' = "published" /\ inbox'[s][i] = current'
    <3>1. inbox'[s] = inbox[s] \/ inbox'[s] = Append(inbox[s], event)
      BY <1>2 DEF Fanout
    <3>2. CASE inbox'[s] = inbox[s]
      BY <1>2, <2>1, <3>2 DEF EventsBehindCursor
    <3>3. CASE inbox'[s] = Append(inbox[s], event)
      <4>1. /\ DOMAIN inbox'[s] = 1 .. Len(inbox[s]) + 1
            /\ \A j \in 1 .. Len(inbox[s]) : inbox'[s][j] = inbox[s][j]
            /\ inbox'[s][Len(inbox[s]) + 1] = event
            /\ DOMAIN inbox[s] = 1 .. Len(inbox[s]) /\ Len(inbox[s]) \in Nat
        BY <1>0, <3>3, AppendFacts
      <4>2. CASE i \in DOMAIN inbox[s]
        BY <1>2, <4>1, <4>2 DEF EventsBehindCursor
      <4>3. CASE i = Len(inbox[s]) + 1
        BY <1>2, <4>1, <4>3
      <4> QED BY <2>1, <4>1, <4>2, <4>3
    <3> QED BY <3>1, <3>2, <3>3
  <2>2. EventsAreCommitted'
    BY <1>2 DEF EventsAreCommitted
  <2> QED BY <2>1, <2>2 DEF EventsBehindCursor
<1>3. CASE Publish
  BY <1>0, <1>2, <1>3 DEF Publish, vars, workerVars
<1>4. CASE ShutdownBegins
  <2>1. phase # "busy" /\ stage # "published"
    BY <1>4 DEF ShutdownBegins, LoopFree
  <2>2. Sentinel \in Int /\ Sentinel <= completed
    BY DEF Sentinel, QueueInv, TypeOK
  <2> QED BY <1>0, <1>2, <1>4, <2>1, <2>2 DEF ShutdownBegins, vars, workerVars
<1>5. ASSUME NEW s \in Streams, Receive(s)
      PROVE  EventsBehindCursor' /\ EventsAreCommitted'
  <2>1. /\ stage # "published" /\ completed' = completed
        /\ inbox[s] # <<>> /\ inbox' = [inbox EXCEPT ![s] = Tail(@)]
        /\ last' \in {last, [last EXCEPT ![s] = Head(inbox[s])]}
    BY <1>5 DEF Receive, LoopFree, vars
  <2>2. /\ Head(inbox[s]) = inbox[s][1] /\ DOMAIN inbox[s] = 1 .. Len(inbox[s])
        /\ Len(inbox[s]) \in Nat \ {0}
        /\ DOMAIN Tail(inbox[s]) = 1 .. Len(inbox[s]) - 1
        /\ \A i \in 1 .. Len(inbox[s]) - 1 : Tail(inbox[s])[i] = inbox[s][i + 1]
    BY <1>0, <2>1, TailFacts
  <2>3. \A i \in DOMAIN inbox[s] : inbox[s][i] <= completed
    BY <2>1 DEF EventsBehindCursor
  <2>4. EventsAreCommitted'
    <3>1. Head(inbox[s]) <= completed
      BY <2>2, <2>3
    <3> QED BY <2>1, <3>1 DEF EventsAreCommitted
  <2>5. ASSUME NEW c \in Streams, NEW i \in DOMAIN inbox'[c]
        PROVE  inbox'[c][i] <= completed
    <3>1. CASE c = s
      <4>1. inbox'[c] = Tail(inbox[s])
        BY <2>1, <3>1
      <4>2. i \in 1 .. Len(inbox[s]) - 1
        BY <2>2, <2>5, <4>1
      <4>3. i + 1 \in DOMAIN inbox[s]
        BY <2>2, <4>2
      <4>4. inbox'[c][i] = inbox[s][i + 1]
        BY <2>2, <4>1, <4>2
      <4> QED BY <2>3, <4>3, <4>4
    <3>2. CASE c # s
      BY <2>1, <2>5, <3>2 DEF EventsBehindCursor
    <3> QED BY <3>1, <3>2
  <2> QED BY <2>1, <2>4, <2>5 DEF EventsBehindCursor
<1>6. CASE CallStep /\ ~AdminCall
  <2>1. UNCHANGED <<stage, inbox, last>>
    BY <1>6
       DEF CallStep, TrainCall, TrainChunk, TrainRefused, TrainReturns, stageVars, streamVars
  <2>2. TrySubmit \/ UNCHANGED vars
    BY <1>6 DEF CallStep, TrainCall, TrainChunk, TrainRefused, TrainReturns
  <2>3. current' = current
    BY <2>2 DEF TrySubmit, Issue, vars, workerVars
  <2> QED BY <1>1, <2>1, <2>3
<1>7. CASE QueueAlone
  BY <1>1, <1>7, QueueAloneFacts DEF servingVars, stageVars, streamVars
<1>8. CASE TakeTask
  BY <1>1, <1>8 DEF TakeTask, LoopFree, streamVars
<1>9. CASE TrainStep \/ AdminWork
  BY <1>1, <1>9 DEF TrainStep, AdminWork, streamVars
<1>10. ASSUME NEW ok \in BOOLEAN, HandlerEnds(ok)
       PROVE  EventsBehindCursor' /\ EventsAreCommitted'
  <2>1. completed' >= current /\ UNCHANGED <<inbox, last>>
    BY <1>0, <1>10 DEF HandlerEnds, WorkerFinishes, Cursor, streamVars
  <2> QED BY <1>1, <2>1
<1>11. ASSUME NEW s \in Streams, Subscribe(s) \/ StreamStarts(s) \/ Disconnect(s)
       PROVE  EventsBehindCursor' /\ EventsAreCommitted'
  BY <1>1, <1>11 DEF Subscribe, StreamStarts, Disconnect, stageVars, vars, workerVars
<1>12. ASSUME NEW r \in Readers, ChatStep(r)
       PROVE  EventsBehindCursor' /\ EventsAreCommitted'
  <2>1. UNCHANGED <<stage, current, inbox, last>>
    BY <1>12
       DEF ChatStep, ChatRequest, ChatWaitEnds, OnLoop, GenerationStarts, GenerationEnds, GenerationRaises, Answer,
           WaitFor, WaitReturns, WaitTimesOut, stageVars, streamVars, servingVars, vars, workerVars
  <2> QED BY <1>1, <2>1
<1>13. CASE UNCHANGED allVars
  BY <1>1, <1>13 DEF allVars, servingVars, stageVars, streamVars, vars, workerVars
<1> QED
  BY <1>3, <1>4, <1>5, <1>6, <1>7, <1>8, <1>9, <1>10, <1>11, <1>12, <1>13
     DEF ServingNext, CallStep, QueueAlone, StreamStep

-----------------------------------------------------------------------------
(* Chat requests. *)

\* What training changed stays in the weights, left an error behind or was taken
\* out again.
LEMMA ResolvedStep ==
    ASSUME QueueInv, ServingTypeOK, StageTrained, ResolvedIsTrained,
           [ServingNext]_allVars, weights \cup undone \subseteq weights' \cup undone'
    PROVE  ResolvedIsTrained'
<1> SUFFICES ASSUME NEW u \in trains', u \in done', error'[u] = "none"
             PROVE  u \in weights' \cup undone'
  BY DEF ResolvedIsTrained
<1>1. [Next]_vars
  BY QueueStep
<1>2. u \in Token \/ u = nextToken
  BY <1>1, QueueMoves DEF QueueInv, TypeOK
<1>3. CASE u \in done
  <2>1. u \in Token /\ u \in trains
    <3>1. u \in 0 .. nextToken - 1 /\ u \in Token /\ nextToken \in Nat
      BY <1>3, Numbers DEF QueueInv, TypeOK, TokensIssued, Issued
    <3>2. u # nextToken
      BY <3>1
    <3> QED BY <1>1, <3>1, <3>2, QueueMoves
  <2>2. error[u] = "none"
    BY <1>1, <2>1, QueueMoves
  <2> QED BY <1>3, <2>1, <2>2 DEF ResolvedIsTrained
<1>4. CASE u \notin done
  <2>1. WorkerFinishes(TRUE) /\ u = current
    BY <1>1, <1>4, QueueMoves
  <2>2. phase = "busy" /\ done' # done /\ trains' = trains
    BY <1>4, <2>1 DEF WorkerFinishes, entryVars
  <2>3. \E ok \in BOOLEAN : HandlerEnds(ok)
    <3>1. UNCHANGED vars \/ TrySubmit => done' = done
      BY DEF TrySubmit, Issue, taskVars, vars
    <3>2. ~ (CallStep /\ ~AdminCall)
      BY <2>2, <3>1 DEF CallStep, TrainCall, TrainChunk, TrainRefused, TrainReturns
    <3>3. ~ QueueAlone
      BY <2>1, QueueAloneFacts
    <3>4. ~ TakeTask /\ ~ TrainStep /\ ~ AdminWork /\ ~ Publish /\ ~ ShutdownBegins /\ ~ UNCHANGED allVars
      BY <2>2, <3>1 DEF TakeTask, LoopFree, TrainStep, AdminWork, Publish, ShutdownBegins, allVars
    <3>5. \A s \in Streams : ~ StreamStep(s)
      BY <2>2 DEF StreamStep, Subscribe, StreamStarts, Receive, Disconnect, LoopFree
    <3>6. ASSUME NEW r \in Readers, ChatStep(r) PROVE done' = done
      BY <3>1, <3>6
         DEF ChatStep, ChatRequest, ChatWaitEnds, OnLoop, GenerationStarts, GenerationEnds,
             GenerationRaises, Answer, WaitFor, WaitReturns, WaitTimesOut, taskVars
    <3> QED BY <2>2, <3>2, <3>3, <3>4, <3>5, <3>6 DEF ServingNext, CallStep, QueueAlone
  <2>4. HandlerEnds(TRUE)
    <3>1. CASE HandlerEnds(FALSE)
      <4>1. error' = [error EXCEPT ![current] = "failed"] /\ current \in Token
        BY <3>1 DEF HandlerEnds, WorkerFinishes, QueueInv, TypeOK
      <4> QED BY <2>1, <4>1 DEF QueueInv, TypeOK
    <3> QED BY <2>3, <3>1
  <2>5. stage = "published"
    BY <2>1, <2>2, <2>4 DEF HandlerEnds
  <2>6. current \in weights
    BY <2>5 DEF StageTrained
  <2> QED BY <2>1, <2>6
<1> QED BY <1>3, <1>4

Generating(r) == chat[r].at \in {"generating", "generated", "answered"}

\* What a step can do to a request that is past its wait.
LEMMA ChatFrame ==
    ASSUME QueueInv, ServingTypeOK, WaitBeforeGeneration, [ServingNext]_allVars,
           NEW r \in Readers, Generating(r)'
    PROVE  /\ reader'[r] = reader[r] /\ reader[r].state # "waiting"
           /\ \/ Generating(r) /\ chat'[r].saw = chat[r].saw
                /\ (chat'[r].at = "generating" => chat[r].at = "generating")
              \/ chat'[r].at = "generating" /\ chat'[r].saw = weights /\ weights' = weights
<1> USE DEF Generating, ServingTypeOK
<1>1. CASE UNCHANGED <<reader, chat>>
  BY <1>1 DEF WaitBeforeGeneration
<1>2. CASE CallStep /\ ~AdminCall
  <2>1. (TrySubmit \/ UNCHANGED vars) /\ chat' = chat
    BY <1>2 DEF CallStep, TrainCall, TrainChunk, TrainRefused, TrainReturns
  <2> QED BY <1>1, <2>1 DEF TrySubmit, Issue, vars
<1>3. CASE QueueAlone
  BY <1>1, <1>3, QueueAloneFacts DEF servingVars
<1>4. CASE TakeTask \/ TrainStep \/ AdminWork \/ Publish \/ ShutdownBegins \/ UNCHANGED allVars
  BY <1>1, <1>4 DEF TakeTask, WorkerGet, TrainStep, AdminWork, Publish, ShutdownBegins, allVars,
                    servingVars, vars
<1>5. ASSUME NEW ok \in BOOLEAN, HandlerEnds(ok) PROVE UNCHANGED <<reader, chat>>
  BY <1>5 DEF HandlerEnds, WorkerFinishes
<1>6. ASSUME NEW s \in Streams, StreamStep(s) PROVE UNCHANGED <<reader, chat>>
  BY <1>6 DEF StreamStep, Subscribe, StreamStarts, Receive, Disconnect, vars
<1>7. ASSUME NEW c \in Readers, ChatStep(c)
      PROVE  /\ reader'[r] = reader[r] /\ reader[r].state # "waiting"
             /\ \/ Generating(r) /\ chat'[r].saw = chat[r].saw
                  /\ (chat'[r].at = "generating" => chat[r].at = "generating")
                \/ chat'[r].at = "generating" /\ chat'[r].saw = weights /\ weights' = weights
  <2>0. reader \in [Readers ->
          [state : {"idle", "waiting", "ok", "raised", "seen", "unknown", "timeout"},
           token : -1 .. MaxTokens]]
    BY DEF QueueInv, TypeOK
  <2>1. ASSUME NEW t \in -1 .. MaxTokens, ChatRequest(c, t), c = r PROVE FALSE
    BY <2>1 DEF ChatRequest
  <2>2. ASSUME NEW t \in -1 .. MaxTokens, ChatRequest(c, t), c # r
        PROVE  reader'[r] = reader[r] /\ chat'[r] = chat[r]
    BY <2>0, <2>2 DEF ChatRequest, WaitFor
  <2>3. CASE ChatWaitEnds(c)
    <3>1. chat' = chat /\ reader[c].state = "waiting"
      BY <2>3 DEF ChatWaitEnds, OnLoop, servingVars, WaitReturns, WaitTimesOut
    <3>2. c # r
      BY <3>1 DEF WaitBeforeGeneration
    <3>3. reader'[r] = reader[r]
      BY <2>0, <2>3, <3>2 DEF ChatWaitEnds, OnLoop, WaitReturns, WaitTimesOut
    <3> QED BY <3>1, <3>3 DEF WaitBeforeGeneration
  <2>4. CASE GenerationStarts(c)
    <3>1. reader' = reader /\ weights' = weights /\ reader[c].state # "waiting"
      BY <2>4 DEF GenerationStarts, vars, stageVars, WaitedFor
    <3>2. CASE c = r
      BY <2>4, <3>1, <3>2 DEF GenerationStarts
    <3>3. CASE c # r
      <4>1. chat'[r] = chat[r]
        BY <2>4, <3>3 DEF GenerationStarts
      <4> QED BY <3>1, <4>1 DEF WaitBeforeGeneration
    <3> QED BY <3>2, <3>3
  <2>5. CASE GenerationEnds(c) \/ GenerationRaises(c) \/ Answer(c)
    <3>1. /\ reader' = reader /\ Generating(r)
          /\ chat'[r].saw = chat[r].saw
          /\ chat'[r].at = "generating" => chat[r].at = "generating"
      BY <2>5 DEF GenerationEnds, GenerationRaises, Answer, vars
    <3> QED BY <3>1 DEF WaitBeforeGeneration
  <2> QED BY <1>7, <2>1, <2>2, <2>3, <2>4, <2>5 DEF ChatStep, WaitBeforeGeneration
<1> QED
  BY <1>1, <1>2, <1>3, <1>4, <1>5, <1>6, <1>7 DEF ServingNext, CallStep, QueueAlone

\* The weights change in a train step, which has the lock, and in admin work,
\* which only takes out training and brings it back.
LEMMA WeightsMove ==
    ASSUME [ServingNext]_allVars
    PROVE  /\ undone \subseteq undone' /\ weights \cup undone \subseteq weights' \cup undone'
           /\ \/ UNCHANGED <<weights, undone>>
              \/ chat' = chat /\ \A r \in Readers : chat[r].at # "generating"
              \/ chat' = chat /\ weights' \subseteq weights \cup undone'
                   /\ weights \subseteq weights' \cup undone'
<1>1. CASE UNCHANGED <<weights, undone>>
  BY <1>1
<1>2. CASE TrainStep
  BY <1>2 DEF TrainStep, LockFree
<1>3. CASE AdminWork
  BY <1>3 DEF AdminWork
<1>4. ASSUME NEW r \in Readers, ChatStep(r) PROVE UNCHANGED <<weights, undone>>
  BY <1>4
     DEF ChatStep, ChatRequest, ChatWaitEnds, OnLoop, GenerationStarts, GenerationEnds,
         GenerationRaises, Answer, stageVars, servingVars
<1>5. ASSUME NEW s \in Streams, StreamStep(s) PROVE UNCHANGED <<weights, undone>>
  BY <1>5 DEF StreamStep, Subscribe, StreamStarts, Receive, Disconnect, stageVars
<1>6. ASSUME CallStep PROVE UNCHANGED <<weights, undone>>
  BY <1>6
     DEF CallStep, TrainCall, TrainChunk, TrainRefused, TrainReturns, AdminCall, OnLoop,
         stageVars, servingVars
<1>7. ASSUME NEW ok \in BOOLEAN, HandlerEnds(ok) PROVE UNCHANGED <<weights, undone>>
  BY <1>7 DEF HandlerEnds
<1>8. CASE TakeTask \/ Publish \/ ShutdownBegins \/ ShutdownDrains
  BY <1>1, <1>8 DEF TakeTask, Publish, ShutdownBegins, ShutdownDrains, OnLoop, stageVars, servingVars
<1>9. CASE OnLoop(PutterResume) \/ OnLoop(WorkerStart) \/ OnLoop(WorkerPoll)
           \/ OnLoop(DrainDeadline) \/ OnLoop(DrainJoin) \/ OnLoop(GraceExpires)
           \/ UNCHANGED allVars
  BY <1>1, <1>9 DEF OnLoop, allVars, stageVars, servingVars
<1> QED BY <1>1, <1>2, <1>3, <1>4, <1>5, <1>6, <1>7, <1>8, <1>9 DEF ServingNext

\* A generation that waited keeps having what it waited for.
LEMMA ChatsStep ==
    ASSUME QueueInv, ServingInv, [ServingNext]_allVars
    PROVE  WaitBeforeGeneration' /\ GenerationSeesTraining' /\ WeightsHoldStill'
<1> USE DEF ServingInv
<1>1. WaitBeforeGeneration'
  BY ChatFrame DEF WaitBeforeGeneration, Generating
<1>2. WeightsHoldStill'
  <2> SUFFICES ASSUME NEW r \in Readers, chat'[r].at = "generating"
               PROVE  (chat'[r].saw \ weights') \cup (weights' \ chat'[r].saw) \subseteq undone'
    BY DEF WeightsHoldStill
  <2>1. CASE chat'[r].saw = weights /\ weights' = weights
    BY <2>1
  <2>2. CASE chat'[r].saw = chat[r].saw /\ chat[r].at = "generating"
    <3>1. (chat[r].saw \ weights) \cup (weights \ chat[r].saw) \subseteq undone
      BY <2>2 DEF WeightsHoldStill
    <3>2. undone \subseteq undone' /\ weights' \subseteq weights \cup undone'
            /\ weights \subseteq weights' \cup undone'
      BY <2>2, WeightsMove
    <3> QED BY <2>2, <3>1, <3>2
  <2> QED BY <2>1, <2>2, ChatFrame DEF Generating
<1>3. GenerationSeesTraining'
  <2> SUFFICES ASSUME NEW r \in Readers, Generating(r)',
                      reader'[r].state \in {"ok", "raised", "seen"},
                      NEW u \in trains', u <= reader'[r].token
               PROVE  u \in chat'[r].saw \/ error'[u] # "none" \/ u \in undone'
    BY DEF GenerationSeesTraining, Generating
  <2>1. reader'[r] = reader[r]
    BY ChatFrame
  <2>2. reader[r].token < nextToken /\ reader[r].token \in Int
    BY <2>1 DEF QueueInv, TokensIssued, TypeOK
  <2>3. u \in trains /\ u \in Token
    <3>1. u = nextToken => FALSE
      BY <2>1, <2>2 DEF QueueInv, TypeOK
    <3> QED BY <3>1, QueueStep, QueueMoves DEF QueueInv, TypeOK
  <2>4. error[u] # "none" => error'[u] # "none"
    BY <2>3, QueueStep, QueueMoves
  <2>5. CASE Generating(r) /\ chat'[r].saw = chat[r].saw
    BY <2>1, <2>3, <2>4, <2>5, WeightsMove DEF GenerationSeesTraining, Generating
  <2>6. CASE chat'[r].saw = weights
    <3>1. u \in done
      BY <2>1, <2>3 DEF QueueInv, ReaderSeesTraining
    <3> QED BY <2>3, <2>4, <2>6, <3>1, WeightsMove DEF ResolvedIsTrained
  <2> QED BY <2>5, <2>6, ChatFrame
<1> QED BY <1>1, <1>2, <1>3

-----------------------------------------------------------------------------
(* The theorems. *)

\* Every step keeps the invariant.
LEMMA ServingInvStep ==
    QueueInv /\ QueueInv' /\ ServingInv /\ [ServingNext]_allVars => ServingInv'
<1> SUFFICES ASSUME QueueInv, QueueInv', ServingInv, [ServingNext]_allVars
             PROVE  ServingInv'
  OBVIOUS
<1>1. [Next]_vars
  BY QueueStep
<1>2. TypeOK' /\ completed' \in Int
  BY BoundsAssumption DEF QueueInv, TypeOK
<1>3. trains \subseteq trains' /\ completed' >= completed
  BY <1>1, QueueMoves, ProgressOrStutter
<1>4. ServingTypeOK'
  BY <1>2, ServingTypeStep DEF ServingInv
<1>5. StageTrained'
  BY StageStep DEF ServingInv
<1>6. EventsBehindCursor' /\ EventsAreCommitted'
  BY <1>2, <1>3, EventsStep DEF ServingInv
<1>7. ChunksInOrder' /\ RepliesCover'
  BY <1>3, CallsStep DEF ServingInv
<1>8. ResolvedIsTrained'
  BY ResolvedStep, WeightsMove DEF ServingInv
<1>9. WaitBeforeGeneration' /\ GenerationSeesTraining' /\ WeightsHoldStill'
  BY ChatsStep
<1> QED BY <1>4, <1>5, <1>6, <1>7, <1>8, <1>9 DEF ServingInv

\* The controller's invariant holds in every reachable state of the daemon.
THEOREM ServingInvariance == ServingSpec => []ServingInv
<1> QED BY ServingInit_Inv, ServingInvStep, QueueInvInside, PTL DEF ServingSpec

\* The controller's variables keep their types.
THEOREM ServingTypeCorrect == ServingSpec => []ServingTypeOK
<1>1. ServingInv => ServingTypeOK
  BY DEF ServingInv
<1> QED BY <1>1, ServingInvariance, PTL

\* No client of the commit stream is sent a cursor that committed has not
\* reached.
THEOREM StreamTellsTheTruth == ServingSpec => []EventsAreCommitted
<1>1. ServingInv => EventsAreCommitted
  BY DEF ServingInv
<1> QED BY <1>1, ServingInvariance, PTL

\* The commit token of a train call stands for all its chunks.
THEOREM BatchCovered == ServingSpec => []CommitTokenCoversBatch
<1>1. QueueInv /\ ServingInv => CommitTokenCoversBatch
  <2> SUFFICES ASSUME QueueInv, ServingInv, NEW b \in replies, b.token <= completed,
                      NEW u \in b.covers
               PROVE  u \in done
    BY DEF CommitTokenCoversBatch
  <2>1. u \in trains /\ u <= b.token
    BY DEF ServingInv, RepliesCover
  <2>2. u \in Int /\ b.token \in Int /\ completed \in Int
    <3>1. b.token \in Token
      BY DEF ServingInv, ServingTypeOK
    <3>2. TypeOK
      BY DEF QueueInv
    <3>3. u \in Int /\ completed \in Int
      BY <2>1, <3>2, Numbers
    <3>4. Token \subseteq Int
      BY TokenFacts
    <3> QED BY <3>1, <3>3, <3>4
  <2>3. u <= completed
    BY <2>1, <2>2
  <2> QED BY <2>1, <2>3, InvImpliesSafety DEF TrainsCommitInOrder
<1> QED BY <1>1, ServingInvariance, QueueInvInside, PTL

\* The next inference sees it.
THEOREM InferenceSeesTraining == ServingSpec => []GenerationSeesTraining
<1>1. ServingInv => GenerationSeesTraining
  BY DEF ServingInv
<1> QED BY <1>1, ServingInvariance, PTL

\* mode_lock keeps train steps out of a generation.
THEOREM GenerationUndisturbed == ServingSpec => []WeightsHoldStill
<1>1. ServingInv => WeightsHoldStill
  BY DEF ServingInv
<1> QED BY <1>1, ServingInvariance, PTL

-----------------------------------------------------------------------------
(* What a chat is told of the cursor. *)

\* A wait that came back lies behind the cursor.
ReadersBehindCursor ==
    \A r \in Readers : reader[r].state \in {"ok", "raised", "seen"} => reader[r].token <= completed

LEMMA ReadersStep ==
    ASSUME QueueInv, ReadersBehindCursor, [Next]_vars PROVE ReadersBehindCursor'
<1> USE DEF QueueInv
<1>0. /\ completed' >= completed /\ completed \in Int /\ completed' \in Int
      /\ \A r \in Readers : reader[r].token \in Int
  <2>1. TypeOK'
    BY TypeStep
  <2> QED BY <2>1, ProgressOrStutter, BoundsAssumption DEF TypeOK
<1>1. CASE reader' = reader
  BY <1>0, <1>1 DEF ReadersBehindCursor
<1>2. ASSUME NEW r \in Readers, ReaderStep(r) PROVE ReadersBehindCursor'
  <2>1. completed' = completed /\ \A s \in Readers \ {r} : reader'[s] = reader[s]
    BY <1>2 DEF ReaderStep, WaitFor, WaitReturns, WaitTimesOut, TypeOK
  <2>2. reader'[r].state \in {"ok", "raised", "seen"} => reader'[r].token <= completed
    <3>1. CASE WaitReturns(r)
      BY <3>1 DEF WaitReturns, WokenByDone, CursorCoversDone, TypeOK
    <3>2. CASE WaitTimesOut(r)
      BY <3>2 DEF WaitTimesOut, TypeOK
    <3>3. ASSUME NEW t \in -1 .. MaxTokens, WaitFor(r, t)
          PROVE  reader'[r].state \in {"ok", "raised", "seen"} => reader'[r].token <= completed
      BY <3>3 DEF WaitFor, Lookup, TypeOK
    <3> QED BY <1>2, <3>1, <3>2, <3>3 DEF ReaderStep
  <2> QED BY <2>1, <2>2 DEF ReadersBehindCursor
<1>3. CASE ~\E r \in Readers : ReaderStep(r)
  <2>1. reader' = reader
    BY <1>3 DEF Next, TrySubmit, Submit, Issue, PutterResume, WorkerStart, WorkerPoll, WorkerGet,
                WorkerFinishes, Stop, DrainCall, DrainDeadline, DrainJoin, GraceExpires, vars
  <2> QED BY <1>1, <2>1
<1> QED BY <1>2, <1>3

\* Only an answer makes a request answered, and it reports the cursor.
LEMMA AnswersReport ==
    ASSUME ServingTypeOK, [ServingNext]_allVars, NEW r \in Readers, chat'[r].at = "answered"
    PROVE  chat'[r] = chat[r] \/ (chat'[r].cursor = completed /\ completed' = completed)
<1> USE DEF ServingTypeOK
<1>1. ASSUME NEW c \in Readers, ChatStep(c)
      PROVE  chat'[r] = chat[r] \/ (chat'[r].cursor = completed /\ completed' = completed)
  <2>1. CASE Answer(c)
    <3>1. completed' = completed /\ chat' = [chat EXCEPT ![c].at = "answered", ![c].cursor = completed]
      BY <2>1 DEF Answer, vars
    <3> QED BY <3>1
  <2>2. CASE ChatWaitEnds(c)
    BY <2>2 DEF ChatWaitEnds, OnLoop, servingVars
  <2>3. CASE GenerationStarts(c) \/ GenerationEnds(c) \/ GenerationRaises(c) \/ \E t \in -1 .. MaxTokens : ChatRequest(c, t)
    <3>1. c # r => chat'[r] = chat[r]
      BY <2>3 DEF GenerationStarts, GenerationEnds, GenerationRaises, ChatRequest
    <3>2. chat'[c].at # "answered"
      BY <2>3 DEF GenerationStarts, GenerationEnds, GenerationRaises, ChatRequest
    <3> QED BY <3>1, <3>2
  <2> QED BY <1>1, <2>1, <2>2, <2>3 DEF ChatStep
<1>2. CASE ~\E c \in Readers : ChatStep(c)
  <2>1. chat' = chat
    BY <1>2
       DEF ServingNext, CallStep, TrainCall, TrainChunk, TrainRefused, TrainReturns, AdminCall,
           TakeTask, TrainStep, AdminWork, Publish, HandlerEnds, StreamStep, Subscribe, StreamStarts,
           Receive, Disconnect, ShutdownBegins, ShutdownDrains, OnLoop, servingVars, allVars
  <2> QED BY <2>1
<1> QED BY <1>1, <1>2

\* A chat whose wait came back is answered with a cursor at or above the token
\* it asked for, however long it queued for the lock and generated.
THEOREM AnswersReachTokens == ServingSpec => []AnswerReachesToken
<1> DEFINE I == ReadersBehindCursor /\ AnswerReachesToken
<1>1. ServingInit => I
  BY DEF ServingInit, Init, ReadersBehindCursor, AnswerReachesToken
<1>2. QueueInv /\ ServingInv /\ I /\ [ServingNext]_allVars => I'
  <2> SUFFICES ASSUME QueueInv, ServingInv, I, [ServingNext]_allVars PROVE I'
    OBVIOUS
  <2>1. ReadersBehindCursor'
    BY QueueStep, ReadersStep
  <2>2. ASSUME NEW r \in Readers, chat'[r].at = "answered",
               reader'[r].state \in {"ok", "raised", "seen"}
        PROVE  chat'[r].cursor >= reader'[r].token
    <3>1. reader'[r] = reader[r]
      BY <2>2, ChatFrame DEF ServingInv, Generating
    <3>2. CASE chat'[r] = chat[r]
      BY <2>2, <3>1, <3>2 DEF AnswerReachesToken
    <3>3. CASE chat'[r].cursor = completed
      <4>1. reader[r].token \in Int /\ completed \in Int /\ reader[r].token <= completed
        BY <2>2, <3>1, BoundsAssumption DEF QueueInv, TypeOK, ReadersBehindCursor
      <4> QED BY <3>1, <3>3, <4>1
    <3> QED BY <2>2, <3>2, <3>3, AnswersReport DEF ServingInv
  <2> QED BY <2>1, <2>2 DEF AnswerReachesToken
<1>3. I => AnswerReachesToken
  OBVIOUS
<1> QED BY <1>1, <1>2, <1>3, QueueInvInside, ServingInvariance, PTL DEF ServingSpec

-----------------------------------------------------------------------------
(* The order of events. *)

\* All training that is still to be published has a larger token than e.
Past(e) ==
    /\ e < nextToken
    /\ \A i \in DOMAIN q : q[i] \in trains => e < q[i]
    /\ stage \in {"entered", "stepped"} /\ current \in trains => e < current

\* Every event that was or will be sent is past.
EventsPast ==
    \A s \in Streams : \A e \in Int :
        e = last[s] \/ (e # Sentinel /\ \E i \in DOMAIN inbox[s] : inbox[s][i] = e) => Past(e)

\* Events wait in order, behind what the client was sent.
EventsInOrder ==
    \A s \in Streams : \A i \in DOMAIN inbox[s] : inbox[s][i] # Sentinel =>
        /\ last[s] < inbox[s][i]
        /\ \A j \in DOMAIN inbox[s] : i < j /\ inbox[s][j] # Sentinel =>
              inbox[s][i] < inbox[s][j]

\* The training in the queue was there before, or has just been submitted.
LEMMA QueuedTraining ==
    ASSUME QueueInv, [Next]_vars
    PROVE  /\ nextToken' >= nextToken
           /\ \A i \in DOMAIN q' : q'[i] \in trains' =>
                \/ q'[i] = nextToken
                \/ \E j \in DOMAIN q : q'[i] = q[j] /\ q[j] \in trains
<1> USE DEF QueueInv
<1>0. /\ nextToken \in Nat /\ q \in Seq(Token) /\ DOMAIN q = 1 .. Len(q) /\ Len(q) \in Nat
      /\ nextToken \notin trains /\ \A i \in DOMAIN q : q[i] # nextToken
  <2>1. nextToken \in Nat /\ q \in Seq(Token) /\ Len(q) \in Nat /\ DOMAIN q = 1 .. Len(q)
    BY Numbers
  <2>2. q \in Seq(Issued) /\ trains \subseteq Issued
    BY DEF TokensIssued
  <2> QED BY <2>1, <2>2 DEF Issued
<1>1. CASE UNCHANGED <<q, trains, nextToken>>
  BY <1>0, <1>1
<1>2. ASSUME NEW e, q' = Append(q, e), e = nextToken \/ e \notin trains',
             trains' \subseteq trains \cup {nextToken}, nextToken' >= nextToken
      PROVE  /\ nextToken' >= nextToken
             /\ \A i \in DOMAIN q' : q'[i] \in trains' =>
                  \/ q'[i] = nextToken
                  \/ \E j \in DOMAIN q : q'[i] = q[j] /\ q[j] \in trains
  <2>1. /\ DOMAIN q' = 1 .. Len(q) + 1 /\ q'[Len(q) + 1] = e
        /\ \A i \in 1 .. Len(q) : q'[i] = q[i]
    BY <1>0, <1>2, AppendFacts
  <2>2. ASSUME NEW i \in DOMAIN q', q'[i] \in trains'
        PROVE  \/ q'[i] = nextToken
               \/ \E j \in DOMAIN q : q'[i] = q[j] /\ q[j] \in trains
    <3>1. CASE i = Len(q) + 1
      BY <1>2, <2>1, <2>2, <3>1
    <3>2. CASE i \in DOMAIN q
      BY <1>0, <1>2, <2>1, <2>2, <3>2
    <3> QED BY <1>0, <2>1, <2>2, <3>1, <3>2
  <2> QED BY <1>2, <2>2
<1>3. CASE TrySubmit
  <2>1. q' = Append(q, nextToken) /\ trains' = trains \cup {nextToken} /\ nextToken' = nextToken + 1
    BY <1>3 DEF TrySubmit, Issue, Enqueued
  <2> QED BY <1>0, <1>2, <2>1
<1>4. CASE Submit
  <2>1. /\ q' \in {q, Append(q, nextToken)} /\ trains' = trains /\ nextToken' = nextToken + 1
    BY <1>4 DEF Submit, Issue, Enqueued
  <2> QED BY <1>0, <1>2, <2>1
<1>5. CASE PutterResume
  <2>1. q' \in {q, Append(q, Head(woken))} /\ trains' = trains /\ nextToken' = nextToken
    BY <1>5 DEF PutterResume, Enqueued, entryVars
  <2>2. Head(woken) \notin trains
    BY <1>5 DEF PutterResume, TokensIssued
  <2> QED BY <1>0, <1>2, <2>1, <2>2
<1>6. CASE WorkerGet
  <2>1. q # <<>> /\ q' = Tail(q) /\ trains' = trains /\ nextToken' = nextToken
    BY <1>6 DEF WorkerGet, entryVars
  <2>2. /\ DOMAIN q' = 1 .. Len(q) - 1
        /\ \A i \in 1 .. Len(q) - 1 : q'[i] = q[i + 1] /\ i + 1 \in DOMAIN q
    BY <1>0, <2>1, TailFacts
  <2> QED BY <1>0, <2>1, <2>2
<1>7. CASE ~(TrySubmit \/ Submit \/ PutterResume \/ WorkerGet)
  <2>1. UNCHANGED <<q, trains, nextToken>>
    BY <1>7 DEF Next, WorkerStart, WorkerPoll, WorkerFinishes, Stop, DrainCall, DrainDeadline,
                DrainJoin, GraceExpires, ReaderStep, WaitFor, WaitReturns, WaitTimesOut,
                entryVars, queueVars, vars
  <2> QED BY <1>1, <2>1
<1> QED BY <1>3, <1>4, <1>5, <1>6, <1>7

\* What is past stays past; the task a handler enters with was at the head.
LEMMA PastStays ==
    ASSUME QueueInv, QueueInv', ServingTypeOK, [ServingNext]_allVars, NEW e \in Int, Past(e),
           ~Publish
    PROVE  Past(e)'
<1> USE DEF QueueInv
<1>1. /\ nextToken' >= nextToken /\ nextToken \in Nat /\ nextToken' \in Nat
      /\ \A i \in DOMAIN q' : q'[i] \in trains' =>
           \/ q'[i] = nextToken
           \/ \E j \in DOMAIN q : q'[i] = q[j] /\ q[j] \in trains
  BY QueueStep, QueuedTraining, Numbers DEF QueueInv, TypeOK
<1>2. e < nextToken' /\ \A i \in DOMAIN q' : q'[i] \in trains' => e < q'[i]
  BY <1>1 DEF Past
<1>3. CASE TakeTask
  <2>1. current' = Head(q) /\ q # <<>> /\ q \in Seq(Token) /\ trains' = trains
    BY <1>3, Numbers DEF TakeTask, WorkerGet, entryVars
  <2>2. Head(q) = q[1] /\ 1 \in DOMAIN q
    BY <2>1, TailFacts
  <2>3. current' \in trains' => e < current'
    BY <2>1, <2>2 DEF Past
  <2> QED BY <1>2, <2>3 DEF Past
<1>4. ASSUME NEW ok \in BOOLEAN, HandlerEnds(ok) PROVE Past(e)'
  BY <1>2, <1>4 DEF HandlerEnds, Past
<1>5. CASE TrainStep \/ AdminWork
  <2>1. stage = "entered" /\ UNCHANGED <<current, trains>>
    BY <1>5 DEF TrainStep, AdminWork, vars, entryVars, workerVars
  <2> QED BY <1>2, <2>1 DEF Past
<1>6. ASSUME UNCHANGED <<stage, current>> PROVE Past(e)'
  <2>1. trains' \subseteq trains \cup {nextToken} /\ current < nextToken
    <3>1. current < nextToken /\ nextToken \notin trains
      BY <1>1 DEF TokensIssued, Issued, NoTask
    <3>2. [Next]_vars
      BY QueueStep
    <3>3. trains' = trains \/ trains' = trains \cup {nextToken}
      BY <3>2 DEF Next, TrySubmit, Submit, Issue, PutterResume, WorkerStart, WorkerPoll, WorkerGet,
                  WorkerFinishes, Stop, DrainCall, DrainDeadline, DrainJoin, GraceExpires,
                  ReaderStep, WaitFor, WaitReturns, WaitTimesOut, entryVars, vars
    <3> QED BY <3>1, <3>3
  <2>2. current \in trains' => current \in trains
    BY <1>1, <2>1
  <2> QED BY <1>2, <1>6, <2>2 DEF Past
<1>7. CASE CallStep /\ ~AdminCall
  <2>1. stage' = stage /\ (TrySubmit \/ UNCHANGED vars)
    BY <1>7 DEF CallStep, TrainCall, TrainChunk, TrainRefused, TrainReturns, stageVars
  <2>2. current' = current
    BY <2>1 DEF TrySubmit, Issue, vars, workerVars
  <2> QED BY <1>6, <2>1, <2>2
<1>8. CASE QueueAlone
  BY <1>6, <1>8, QueueAloneFacts DEF servingVars, stageVars
<1>9. ASSUME NEW s \in Streams, StreamStep(s) PROVE Past(e)'
  BY <1>6, <1>9 DEF StreamStep, Subscribe, StreamStarts, Receive, Disconnect, stageVars, vars, workerVars
<1>10. ASSUME NEW r \in Readers, ChatStep(r) PROVE Past(e)'
  <2>1. UNCHANGED <<stage, current>>
    BY <1>10
       DEF ChatStep, ChatRequest, ChatWaitEnds, OnLoop, GenerationStarts, GenerationEnds, GenerationRaises, Answer,
           WaitFor, WaitReturns, WaitTimesOut, stageVars, servingVars, vars, workerVars
  <2> QED BY <1>6, <2>1
<1>11. CASE ShutdownBegins \/ UNCHANGED allVars
  BY <1>6, <1>11 DEF ShutdownBegins, allVars, servingVars, stageVars, vars, workerVars
<1> QED
  BY <1>3, <1>4, <1>5, <1>7, <1>8, <1>9, <1>10, <1>11 DEF ServingNext, CallStep, QueueAlone

\* Once published, a step is past, like the events before it.
LEMMA PastPublishes ==
    ASSUME QueueInv, ServingTypeOK, StageTrained, Publish
    PROVE  /\ current \in Int
           /\ \A e \in Int : Past(e) => e < current
           /\ \A e \in Int : Past(e) \/ e = current => Past(e)'
<1>1. /\ stage = "stepped" /\ stage' = "published"
      /\ UNCHANGED <<q, trains, nextToken, current>>
  BY DEF Publish, vars, entryVars, queueVars, workerVars
<1>2. current \in trains
  BY <1>1 DEF StageTrained, ServingTypeOK
<1>3. /\ current \in Int
      /\ current < nextToken /\ \A i \in DOMAIN q : q[i] \in trains => current < q[i]
  BY <1>2, Numbers DEF QueueInv, TokensIssued, Issued, TrainingBehindSmaller
<1> QED BY <1>1, <1>2, <1>3 DEF Past

\* The numbers a client's stream is made of.
LEMMA StreamNumbers ==
    ASSUME ServingTypeOK, NEW s \in Streams
    PROVE  /\ inbox[s] \in Seq(Token \cup {Sentinel}) /\ last[s] \in Int
           /\ DOMAIN inbox[s] = 1 .. Len(inbox[s]) /\ Len(inbox[s]) \in Nat
           /\ \A i \in DOMAIN inbox[s] : inbox[s][i] \in Int
<1>0. Token \cup {Sentinel} \subseteq Int
  BY TokenFacts DEF Sentinel
<1>1. inbox[s] \in Seq(Token \cup {Sentinel})
  BY DEF EventSeq, ServingTypeOK
<1>2. last[s] \in Token \cup {-1}
  BY DEF ServingTypeOK
<1>3. last[s] \in Int
  BY <1>0, <1>2 DEF Sentinel
<1>4. \A i \in DOMAIN inbox[s] : inbox[s][i] \in Token \cup {Sentinel}
  BY <1>1
<1> QED BY <1>0, <1>1, <1>3, <1>4

\* A fan-out puts an event behind all it follows.
LEMMA FanoutInOrder ==
    ASSUME ServingTypeOK, EventsPast, EventsInOrder, last' = last, NEW event \in Int, Fanout(event),
           event # Sentinel => \A e \in Int : Past(e) => e < event
    PROVE  /\ EventsInOrder'
           /\ \A s \in Streams : \A i \in DOMAIN inbox'[s] :
                inbox'[s][i] = event \/ \E j \in DOMAIN inbox[s] : inbox[s][j] = inbox'[s][i]
<1> SUFFICES ASSUME NEW s \in Streams
             PROVE  \A i \in DOMAIN inbox'[s] :
                      /\ inbox'[s][i] # Sentinel =>
                           /\ last[s] < inbox'[s][i]
                           /\ \A j \in DOMAIN inbox'[s] : i < j /\ inbox'[s][j] # Sentinel =>
                                inbox'[s][i] < inbox'[s][j]
                      /\ inbox'[s][i] = event \/ \E j \in DOMAIN inbox[s] : inbox[s][j] = inbox'[s][i]
  BY DEF EventsInOrder
<1>1. /\ inbox[s] \in Seq(Token \cup {Sentinel}) /\ last[s] \in Int
      /\ DOMAIN inbox[s] = 1 .. Len(inbox[s]) /\ Len(inbox[s]) \in Nat
      /\ \A i \in DOMAIN inbox[s] : inbox[s][i] \in Int
  BY StreamNumbers
<1>2. \A i \in DOMAIN inbox[s] : inbox[s][i] # Sentinel =>
          /\ last[s] < inbox[s][i]
          /\ \A j \in DOMAIN inbox[s] : i < j /\ inbox[s][j] # Sentinel => inbox[s][i] < inbox[s][j]
  BY DEF EventsInOrder
<1>3. event # Sentinel => last[s] < event /\ \A i \in DOMAIN inbox[s] :
                              inbox[s][i] # Sentinel => inbox[s][i] < event
  BY <1>1 DEF EventsPast
<1>4. inbox'[s] = inbox[s] \/ inbox'[s] = Append(inbox[s], event)
  BY DEF Fanout
<1>5. CASE inbox'[s] = inbox[s]
  BY <1>2, <1>5
<1>6. CASE inbox'[s] = Append(inbox[s], event)
  <2>1. /\ DOMAIN inbox'[s] = 1 .. Len(inbox[s]) + 1
        /\ \A j \in DOMAIN inbox[s] : inbox'[s][j] = inbox[s][j]
        /\ inbox'[s][Len(inbox[s]) + 1] = event
    BY <1>1, <1>6, AppendFacts
  <2>2. \A i \in DOMAIN inbox'[s] : i \in DOMAIN inbox[s] \/ i = Len(inbox[s]) + 1
    BY <1>1, <2>1
  <2>3. ASSUME NEW i \in DOMAIN inbox'[s], inbox'[s][i] # Sentinel
        PROVE  /\ last[s] < inbox'[s][i]
               /\ \A j \in DOMAIN inbox'[s] : i < j /\ inbox'[s][j] # Sentinel =>
                    inbox'[s][i] < inbox'[s][j]
    <3>1. CASE i \in DOMAIN inbox[s]
      BY <1>2, <1>3, <2>1, <2>2, <2>3, <3>1
    <3>2. CASE i = Len(inbox[s]) + 1
      <4>1. \A j \in DOMAIN inbox'[s] : ~(i < j)
        BY <1>1, <2>1, <3>2
      <4> QED BY <1>3, <2>1, <2>3, <3>2, <4>1
    <3> QED BY <2>2, <3>1, <3>2
  <2>4. \A i \in DOMAIN inbox'[s] :
            inbox'[s][i] = event \/ \E j \in DOMAIN inbox[s] : inbox[s][j] = inbox'[s][i]
    BY <2>1, <2>2
  <2> QED BY <2>3, <2>4
<1> QED BY <1>4, <1>5, <1>6

\* What a step does to a client it sends an event.
SentInOrder(s) ==
    Len(inbox'[s]) < Len(inbox[s]) /\ Head(inbox[s]) # Sentinel =>
        /\ last[s] < Head(inbox[s])
        /\ last'[s] = Head(inbox[s])
        /\ stream[s] = "streaming"

\* Receiving takes the first event.
LEMMA ReceiveInOrder ==
    ASSUME ServingTypeOK, EventsPast, EventsInOrder, NEW s \in Streams, Receive(s)
    PROVE  /\ EventsInOrder'
           /\ \A c \in Streams :
                /\ \A i \in DOMAIN inbox'[c] : \E j \in DOMAIN inbox[c] : inbox[c][j] = inbox'[c][i]
                /\ \/ last'[c] = last[c]
                   \/ last'[c] # Sentinel /\ \E j \in DOMAIN inbox[c] : inbox[c][j] = last'[c]
           /\ \A c \in Streams : SentInOrder(c)
<1>1. /\ inbox[s] # <<>> /\ inbox' = [inbox EXCEPT ![s] = Tail(@)] /\ stream[s] = "streaming"
      /\ \/ last' = last
         \/ Head(inbox[s]) # Sentinel /\ last' = [last EXCEPT ![s] = Head(inbox[s])]
  BY DEF Receive
<1>2. /\ inbox[s] \in Seq(Token \cup {Sentinel}) /\ last[s] \in Int
      /\ \A i \in DOMAIN inbox[s] : inbox[s][i] \in Int
  BY StreamNumbers
<1>3. /\ Head(inbox[s]) = inbox[s][1] /\ DOMAIN inbox[s] = 1 .. Len(inbox[s])
      /\ Len(inbox[s]) \in Nat \ {0}
      /\ DOMAIN Tail(inbox[s]) = 1 .. Len(inbox[s]) - 1
      /\ \A i \in 1 .. Len(inbox[s]) - 1 : Tail(inbox[s])[i] = inbox[s][i + 1]
  BY <1>1, <1>2, TailFacts
<1>4. /\ inbox'[s] = Tail(inbox[s])
      /\ \A c \in Streams : c # s => inbox'[c] = inbox[c] /\ last'[c] = last[c]
      /\ last'[s] = last[s] \/ (inbox[s][1] # Sentinel /\ last'[s] = inbox[s][1])
  BY <1>1, <1>3 DEF ServingTypeOK
<1>5. \A i \in DOMAIN inbox'[s] : i + 1 \in DOMAIN inbox[s] /\ inbox'[s][i] = inbox[s][i + 1]
                                    /\ 1 < i + 1 /\ 1 \in DOMAIN inbox[s]
  BY <1>3, <1>4
<1>6. \A i \in DOMAIN inbox[s] : inbox[s][i] # Sentinel =>
          /\ last[s] < inbox[s][i]
          /\ \A j \in DOMAIN inbox[s] : i < j /\ inbox[s][j] # Sentinel => inbox[s][i] < inbox[s][j]
  BY DEF EventsInOrder
<1>7. ASSUME NEW i \in DOMAIN inbox'[s], inbox'[s][i] # Sentinel
      PROVE  /\ last'[s] < inbox'[s][i]
             /\ \A j \in DOMAIN inbox'[s] : i < j /\ inbox'[s][j] # Sentinel =>
                  inbox'[s][i] < inbox'[s][j]
  <2>1. last'[s] < inbox'[s][i]
    BY <1>4, <1>5, <1>6, <1>7
  <2>2. ASSUME NEW j \in DOMAIN inbox'[s], i < j, inbox'[s][j] # Sentinel
        PROVE  inbox'[s][i] < inbox'[s][j]
    <3>1. i + 1 < j + 1
      BY <1>3, <1>4, <2>2
    <3> QED BY <1>5, <1>6, <1>7, <2>2, <3>1
  <2> QED BY <2>1, <2>2
<1>8. EventsInOrder'
  BY <1>4, <1>7 DEF EventsInOrder
<1>9. 1 \in DOMAIN inbox[s]
  BY <1>3
<1>10. SentInOrder(s)
  <2> SUFFICES ASSUME Head(inbox[s]) # Sentinel
               PROVE  last[s] < Head(inbox[s]) /\ last'[s] = Head(inbox[s]) /\ stream[s] = "streaming"
    BY DEF SentInOrder
  <2>1. last[s] < inbox[s][1]
    BY <1>3, <1>6, <1>9
  <2>2. last' = [last EXCEPT ![s] = Head(inbox[s])]
    BY DEF Receive
  <2> QED BY <1>1, <1>3, <2>1, <2>2 DEF ServingTypeOK
<1>11. ASSUME NEW c \in Streams PROVE SentInOrder(c)
  BY <1>4, <1>10, <1>11, StreamNumbers DEF SentInOrder
<1>12. ASSUME NEW c \in Streams
       PROVE  /\ \A i \in DOMAIN inbox'[c] : \E j \in DOMAIN inbox[c] : inbox[c][j] = inbox'[c][i]
              /\ \/ last'[c] = last[c]
                 \/ last'[c] # Sentinel /\ \E j \in DOMAIN inbox[c] : inbox[c][j] = last'[c]
  BY <1>1, <1>4, <1>5, <1>9
<1> QED BY <1>8, <1>11, <1>12

\* A fan-out sends nothing.
LEMMA FanoutSendsNothing ==
    ASSUME ServingTypeOK, NEW event, Fanout(event), NEW s \in Streams
    PROVE  SentInOrder(s)
<1>1. Len(inbox[s]) \in Nat /\ inbox[s] \in Seq(Token \cup {Sentinel})
  BY StreamNumbers
<1>2. inbox'[s] = inbox[s] \/ inbox'[s] = Append(inbox[s], event)
  BY DEF Fanout
<1>3. Len(Append(inbox[s], event)) = Len(inbox[s]) + 1
  BY <1>1, AppendFacts
<1> QED BY <1>1, <1>2, <1>3 DEF SentInOrder

\* What the inboxes are fed and emptied by.
LEMMA StreamsMove ==
    ASSUME [ServingNext]_allVars
    PROVE  \/ UNCHANGED <<inbox, last>>
           \/ Publish
           \/ ShutdownBegins
           \/ \E s \in Streams : Receive(s)
BY DEF ServingNext, CallStep, TrainCall, TrainChunk, TrainRefused, TrainReturns, AdminCall,
       TakeTask, TrainStep, AdminWork, HandlerEnds, StreamStep, Subscribe, StreamStarts, Disconnect,
       ShutdownDrains, OnLoop, ChatStep, ChatRequest, ChatWaitEnds, GenerationStarts,
       GenerationEnds, GenerationRaises, Answer, streamVars, servingVars, allVars

LEMMA OrderStep ==
    ASSUME QueueInv, QueueInv', ServingInv, EventsPast, EventsInOrder, [ServingNext]_allVars
    PROVE  /\ EventsPast' /\ EventsInOrder'
           /\ \A s \in Streams : SentInOrder(s)
<1> USE DEF ServingInv
<1>1. CASE Publish
  <2>1. /\ current \in Int /\ Fanout(current) /\ last' = last
        /\ \A e \in Int : Past(e) => e < current
        /\ \A e \in Int : Past(e) \/ e = current => Past(e)'
    BY <1>1, PastPublishes DEF Publish
  <2>2. /\ EventsInOrder'
        /\ \A s \in Streams : \A i \in DOMAIN inbox'[s] :
             inbox'[s][i] = current \/ \E j \in DOMAIN inbox[s] : inbox[s][j] = inbox'[s][i]
    BY <2>1, FanoutInOrder
  <2>3. EventsPast'
    BY <2>1, <2>2 DEF EventsPast
  <2> QED BY <2>1, <2>2, <2>3, FanoutSendsNothing
<1>2. CASE ~Publish
  <2>0. \A e \in Int : Past(e) => Past(e)'
    BY <1>2, PastStays
  <2>1. CASE UNCHANGED <<inbox, last>>
    <3>1. EventsInOrder'
      BY <2>1 DEF EventsInOrder
    <3>2. EventsPast'
      BY <2>0, <2>1 DEF EventsPast
    <3>3. \A s \in Streams : SentInOrder(s)
      BY <2>1, StreamNumbers DEF SentInOrder
    <3> QED BY <3>1, <3>2, <3>3
  <2>2. CASE ShutdownBegins
    <3>1. Fanout(Sentinel) /\ last' = last /\ Sentinel \in Int
      BY <2>2 DEF ShutdownBegins, Sentinel
    <3>2. /\ EventsInOrder'
          /\ \A s \in Streams : \A i \in DOMAIN inbox'[s] :
               inbox'[s][i] = Sentinel \/ \E j \in DOMAIN inbox[s] : inbox[s][j] = inbox'[s][i]
      BY <3>1, FanoutInOrder
    <3>3. EventsPast'
      BY <2>0, <3>1, <3>2 DEF EventsPast
    <3> QED BY <3>1, <3>2, <3>3, FanoutSendsNothing
  <2>3. ASSUME NEW s \in Streams, Receive(s)
        PROVE  /\ EventsPast' /\ EventsInOrder'
               /\ \A c \in Streams : SentInOrder(c)
    <3>1. /\ EventsInOrder'
          /\ \A c \in Streams :
               /\ \A i \in DOMAIN inbox'[c] : \E j \in DOMAIN inbox[c] : inbox[c][j] = inbox'[c][i]
               /\ \/ last'[c] = last[c]
                  \/ last'[c] # Sentinel /\ \E j \in DOMAIN inbox[c] : inbox[c][j] = last'[c]
          /\ \A c \in Streams : SentInOrder(c)
      BY <2>3, ReceiveInOrder
    <3>2. EventsPast'
      BY <2>0, <3>1 DEF EventsPast
    <3> QED BY <3>1, <3>2
  <2> QED BY <1>2, <2>1, <2>2, <2>3, StreamsMove
<1> QED BY <1>1, <1>2

\* What a client is sent moves forward, for every depth of its queue, however
\* many events a full queue dropped and whenever the shutdown comes.
THEOREM StreamsMoveForward == ServingSpec => EventsMoveForward
<1> DEFINE I == QueueInv /\ ServingInv /\ EventsPast /\ EventsInOrder
<1> DEFINE Forward == \A s \in Streams :
                          Len(inbox'[s]) < Len(inbox[s]) /\ Head(inbox[s]) # Sentinel =>
                              /\ last[s] < Head(inbox[s])
                              /\ last'[s] = Head(inbox[s])
                              /\ stream[s] = "streaming"
<1>1. ServingInit => EventsPast /\ EventsInOrder
  BY DEF ServingInit, Init, EventsPast, EventsInOrder, Past
<1>2. QueueInv /\ QueueInv' /\ ServingInv /\ EventsPast /\ EventsInOrder /\ [ServingNext]_allVars
        => EventsPast' /\ EventsInOrder'
  BY OrderStep
<1>3. QueueInv /\ QueueInv' /\ ServingInv /\ EventsPast /\ EventsInOrder /\ [ServingNext]_allVars
        => [Forward]_allVars
  BY OrderStep DEF SentInOrder
<1> QED BY <1>1, <1>2, <1>3, QueueInvInside, ServingInvariance, PTL
        DEF ServingSpec, EventsMoveForward
=============================================================================
