---------------------------- MODULE IdleLearning ----------------------------
(***************************************************************************)
(* The two schedulers that train while nobody else does: the idle replay   *)
(* of logged feedback (engine/replay.py) and TTRL's majority-voted labels  *)
(* (ttrl_mv.py), beside live training, chats and the graceful shutdown of  *)
(* controller.py.  All are coroutines of one event loop: a step runs from  *)
(* one await to the next.  replay's submit never suspends, TTRL awaits k   *)
(* generations between its test for idleness and its submit.               *)
(*                                                                         *)
(* The compute queue is modelled by what the schedulers see of it (Serving *)
(* and ComputeQueue have the rest).                                        *)
(***************************************************************************)
EXTENDS Naturals, Sequences, FiniteSets

CONSTANTS
    QueueDepth,   \* maxsize of the compute queue
    MaxRecords,   \* bound on the records of the log
    ReplayCap,    \* max_replays_per_record
    MinFeedback,  \* min_feedback_records
    LabelCap,     \* max_per_prompt
    MinPrompts,   \* min_prompts
    Rollouts,     \* k_rollouts
    Answers       \* equivalence keys a rollout may have

NoKey == "none"   \* a rollout no answer can be extracted from

ASSUME LearningBounds ==
    /\ QueueDepth \in Nat /\ MaxRecords \in Nat \ {0}
    /\ ReplayCap \in Nat /\ MinFeedback \in Nat
    /\ LabelCap \in Nat /\ MinPrompts \in Nat /\ Rollouts \in Nat
    /\ NoKey \notin Answers

VARIABLES
    queue,     \* who submitted the tasks that are queued or running
    quiet,     \* nothing was enqueued for the idle threshold
    records,   \* the kinds of the log's records; an offset is an index
    replayed,  \* IdleReplayScheduler._replayed
    labelled,  \* TTRLScheduler._seen
    replay,    \* the replay task: sleep, crashed, stopped
    ttrl,      \* the TTRL task: sleep, rolling, crashed, stopped
    target,    \* the offset TTRL works on
    keys,      \* the keys of its rollouts so far
    tries,     \* rollouts asked for so far
    shutdown,  \* how far graceful_shutdown is
    nReplays,  \* replays that were submitted, per offset
    nLabels    \* labels that were submitted, per offset

schedVars == <<replayed, labelled, replay, ttrl, target, keys, tries, nReplays, nLabels>>
learnVars == <<queue, quiet, records, shutdown, schedVars>>

\* What matters of a record: feedback that routes to a spec, that does not, or
\* whose `ts` the client overrode with something float() refuses; an inference
\* whose prompt a verifier claims, or not.
FeedbackRecords == {"routable", "unroutable", "bad_ts"}
InferenceRecords == {"claimed", "unclaimed"}

\* A line that an earlier crash cut inside a character, and what was appended to
\* it since.
CutLines == {"cut"}

Offsets == 1..MaxRecords

LearnInit ==
    /\ queue = <<>> /\ quiet = FALSE
    /\ records \in {<<>>} \cup {<<l>> : l \in CutLines}
    /\ replayed = [o \in Offsets |-> 0]
    /\ labelled = [o \in Offsets |-> 0]
    /\ replay = "sleep" /\ ttrl = "sleep"
    /\ target = 0 /\ keys = <<>> /\ tries = 0
    /\ shutdown = "no"
    /\ nReplays = [o \in Offsets |-> 0]
    /\ nLabels = [o \in Offsets |-> 0]

-----------------------------------------------------------------------------
Accepts == shutdown = "no" /\ Len(queue) < QueueDepth

\* submit_train: a shutdown or a full queue makes it raise.
Submit(who) == queue' = Append(queue, who) /\ quiet' = FALSE

LiveTrain ==
    /\ Accepts
    /\ Submit("live")
    /\ UNCHANGED <<records, shutdown, schedVars>>

CommitTask ==
    /\ queue # <<>> /\ shutdown # "done"
    /\ queue' = Tail(queue)
    /\ UNCHANGED <<quiet, records, shutdown, schedVars>>

\* The idle threshold passes since the last submit; tasks may be running.
TimePasses ==
    /\ ~quiet
    /\ quiet' = TRUE
    /\ UNCHANGED <<queue, records, shutdown, schedVars>>

\* Feedback is logged first; its spec may then be refused.
LogFeedback ==
    /\ shutdown = "no" /\ Len(records) < MaxRecords
    /\ \E f \in FeedbackRecords :
         /\ records' = Append(records, f)
         /\ IF f # "unroutable" /\ Accepts THEN Submit("live") ELSE UNCHANGED <<queue, quiet>>
    /\ UNCHANGED <<shutdown, schedVars>>

Chat ==
    /\ Len(records) < MaxRecords /\ shutdown = "no"
    /\ \E i \in InferenceRecords : records' = Append(records, i)
    /\ UNCHANGED <<queue, quiet, shutdown, schedVars>>

-----------------------------------------------------------------------------
\* The idle replay.

\* The scan of the log for candidates raises UnicodeDecodeError.
Undecodable == \E o \in 1..Len(records) : records[o] \in CutLines

\* is_idle_for(threshold)
Idle == queue = <<>> /\ quiet

Replayable ==
    {o \in 1..Len(records) : records[o] \in FeedbackRecords /\ replayed[o] < ReplayCap}

ReplayAwake == replay = "sleep" /\ shutdown \notin {"replay", "drain", "done"}

\* _pick_record scans the whole log and reads the `ts` of every record under
\* the cap.
ReplayCrashes ==
    /\ ReplayAwake /\ Idle
    /\ Undecodable \/ \E o \in Replayable : records[o] = "bad_ts"
    /\ replay' = "crashed"
    /\ UNCHANGED <<queue, quiet, records, shutdown, replayed, labelled, ttrl, target, keys, tries,
                   nReplays, nLabels>>

PicksAnyTime(o) ==   \* a poll that does not look at the queue
    /\ ReplayAwake
    /\ o \in Replayable /\ ~Undecodable
    /\ \A x \in Replayable : records[x] # "bad_ts"
    /\ Cardinality(Replayable) >= MinFeedback

PicksRecord(o) ==
    /\ ReplayAwake /\ Idle
    /\ o \in Replayable /\ ~Undecodable
    /\ \A x \in Replayable : records[x] # "bad_ts"
    /\ Cardinality(Replayable) >= MinFeedback

ReplayBurns(o) ==
    /\ PicksRecord(o) /\ records[o] = "unroutable"
    /\ replayed' = [replayed EXCEPT ![o] = ReplayCap]
    /\ UNCHANGED <<queue, quiet, records, shutdown, labelled, replay, ttrl, target, keys, tries,
                   nReplays, nLabels>>

\* A refused submit is logged and not counted.
ReplaySubmits(o) ==
    /\ PicksRecord(o) /\ records[o] = "routable"
    /\ Accepts
    /\ Submit("replay")
    /\ replayed' = [replayed EXCEPT ![o] = @ + 1]
    /\ nReplays' = [nReplays EXCEPT ![o] = @ + 1]
    /\ UNCHANGED <<records, shutdown, labelled, replay, ttrl, target, keys, tries, nLabels>>

-----------------------------------------------------------------------------
\* TTRL.

Promptable ==
    {o \in 1..Len(records) : records[o] = "claimed" /\ labelled[o] < LabelCap}

\* The local variables of a round end with it.
RoundEnds == target' = 0 /\ keys' = <<>> /\ tries' = 0

TtrlAwake == ttrl = "sleep" /\ shutdown = "no"

\* The newest prompt under its cap.
TtrlPicks ==
    /\ TtrlAwake /\ Idle /\ ~Undecodable
    /\ Cardinality(Promptable) >= MinPrompts
    /\ Len(records) + Rollouts <= MaxRecords
    /\ \E o \in Promptable : (\A x \in Promptable : x <= o) /\ target' = o
    /\ ttrl' = "rolling" /\ keys' = <<>> /\ tries' = 0
    /\ UNCHANGED <<queue, quiet, records, shutdown, replayed, labelled, replay, nReplays, nLabels>>

\* Nothing of the picking and the keying is caught: the scan, `claims` of any
\* registered verifier on any prompt under its cap, the answer of a rollout.
TtrlCrashes ==
    /\ \/ /\ TtrlAwake /\ Idle
          /\ \/ Undecodable
             \/ \E o \in 1..Len(records) :
                  records[o] \in InferenceRecords /\ labelled[o] < LabelCap
       \/ ttrl = "rolling" /\ tries = Rollouts
    /\ ttrl' = "crashed" /\ RoundEnds
    /\ UNCHANGED <<queue, quiet, records, shutdown, replayed, labelled, replay, nReplays, nLabels>>

RolloutFails ==
    /\ ttrl = "rolling" /\ tries < Rollouts
    /\ tries' = tries + 1
    /\ UNCHANGED <<queue, quiet, records, shutdown, replayed, labelled, replay, ttrl, target, keys,
                   nReplays, nLabels>>

\* One awaited generation; it logs an inference record of the same prompt.
Rollout ==
    /\ ttrl = "rolling" /\ tries < Rollouts
    /\ Len(records) < MaxRecords
    /\ records' = Append(records, "claimed")
    /\ \E k \in Answers \cup {NoKey} : keys' = Append(keys, k)
    /\ tries' = tries + 1
    /\ UNCHANGED <<queue, quiet, shutdown, replayed, labelled, replay, ttrl, target, nReplays, nLabels>>

\* _majority_from_keys with min_count = 2.
Majority == \E a \in Answers : Cardinality({i \in 1..Len(keys) : keys[i] = a}) >= 2

\* The cap is burnt before the submit, which may be refused.
TtrlVotes ==
    /\ ttrl = "rolling" /\ tries = Rollouts
    /\ labelled' = [labelled EXCEPT ![target] = @ + 1]
    /\ IF Majority /\ Accepts
       THEN /\ Submit("ttrl")
            /\ nLabels' = [nLabels EXCEPT ![target] = @ + 1]
       ELSE UNCHANGED <<queue, quiet, nLabels>>
    /\ ttrl' = "sleep" /\ RoundEnds
    /\ UNCHANGED <<records, shutdown, replayed, replay, nReplays>>

-----------------------------------------------------------------------------
\* graceful_shutdown

ShutdownBegins ==
    /\ shutdown = "no"
    /\ shutdown' = "ttrl"
    /\ UNCHANGED <<queue, quiet, records, schedVars>>

StopTtrlAwaits ==   \* a stop that waits for the round to end
    /\ shutdown = "ttrl" /\ ttrl # "rolling"
    /\ shutdown' = IF ttrl = "crashed" THEN "raised" ELSE "replay"
    /\ ttrl' = IF ttrl = "crashed" THEN ttrl ELSE "stopped"
    /\ UNCHANGED <<queue, quiet, records, replayed, labelled, replay, target, keys, tries,
                   nReplays, nLabels>>

\* stop() waits for the task, cancels it after a while, and raises what it
\* raised; then the shutdown goes no further.
StopTtrl ==
    /\ shutdown = "ttrl"
    /\ \/ /\ ttrl = "crashed"
          /\ shutdown' = "raised" /\ ttrl' = ttrl
       \/ /\ ttrl # "crashed"
          /\ shutdown' = "replay" /\ ttrl' = "stopped"
    /\ RoundEnds
    /\ UNCHANGED <<queue, quiet, records, replayed, labelled, replay, nReplays, nLabels>>

StopReplay ==
    /\ shutdown = "replay"
    /\ \/ /\ replay = "crashed"
          /\ shutdown' = "raised" /\ replay' = replay
       \/ /\ replay # "crashed"
          /\ shutdown' = "drain" /\ replay' = "stopped"
    /\ UNCHANGED <<queue, quiet, records, replayed, labelled, ttrl, target, keys, tries,
                   nReplays, nLabels>>

Drain ==
    /\ shutdown = "drain"
    /\ queue' = <<>>
    /\ shutdown' = "done"
    /\ UNCHANGED <<quiet, records, schedVars>>

StopSteps == StopTtrl \/ StopReplay \/ Drain

LearnNext ==
    \/ LiveTrain \/ CommitTask \/ TimePasses \/ LogFeedback \/ Chat
    \/ ReplayCrashes \/ \E o \in Offsets : ReplayBurns(o) \/ ReplaySubmits(o)
    \/ TtrlPicks \/ TtrlCrashes \/ RolloutFails \/ Rollout \/ TtrlVotes
    \/ ShutdownBegins \/ StopSteps

LearnSpec == LearnInit /\ [][LearnNext]_learnVars

-----------------------------------------------------------------------------
LearnType ==
    /\ queue \in Seq({"live", "replay", "ttrl"}) /\ Len(queue) <= QueueDepth
    /\ quiet \in BOOLEAN
    /\ records \in Seq(FeedbackRecords \cup InferenceRecords \cup CutLines) /\ Len(records) <= MaxRecords
    /\ replayed \in [Offsets -> Nat] /\ nReplays \in [Offsets -> Nat]
    /\ labelled \in [Offsets -> Nat] /\ nLabels \in [Offsets -> Nat]
    /\ replay \in {"sleep", "crashed", "stopped"}
    /\ ttrl \in {"sleep", "rolling", "crashed", "stopped"}
    /\ target \in 0..MaxRecords
    /\ keys \in Seq(Answers \cup {NoKey}) /\ Len(keys) <= tries
    /\ tries \in 0..Rollouts
    /\ shutdown \in {"no", "ttrl", "replay", "drain", "done", "raised"}

QueuedBy(who) == {i \in 1..Len(queue) : queue[i] = who}

\* The background never crowds the queue: each scheduler has at most one task
\* there, and nothing is ahead of replay's, whose poll found the queue empty
\* (replay.py:130-132).  TTRL's test is stale when it submits, k generations
\* later: live tasks and a replay may be ahead of its label (ttrl_mv.py:218, 260).
BackgroundIsBounded ==
    /\ Cardinality(QueuedBy("replay")) <= 1
    /\ Cardinality(QueuedBy("ttrl")) <= 1
    /\ \A i \in QueuedBy("replay") : i = 1

\* Per offset no more is submitted than the caps allow, whichever submit is
\* refused and however the counters move before or after it
\* (replay.py:147-174, ttrl_mv.py:242-264).
CapsHold ==
    \A o \in Offsets :
        /\ nReplays[o] <= replayed[o] /\ replayed[o] <= ReplayCap
        /\ nLabels[o] <= labelled[o] /\ labelled[o] <= LabelCap

\* A shutdown comes to the drain of the queue, whatever round TTRL is in and
\* however long its generations take, unless one of the two tasks had crashed:
\* then its stop() raises and neither this call nor a later one drains
\* (controller.py:169-185, replay.py:104-113, 136-138, ttrl_mv.py:193-203, 224-226).
ShutdownReachesDrain ==
    shutdown = "ttrl" ~> (shutdown = "done" \/ replay = "crashed" \/ ttrl = "crashed")
=============================================================================
