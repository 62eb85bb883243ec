------------------------------- MODULE MCParts -------------------------------
(* TLC's instance of the modules that keep apart from the compute queue.  They *)
(* share no state; `part` says which of them moves in a behaviour, so that one *)
(* run explores each of them by itself.                                        *)
EXTENDS MCModelLock, TrainSteps, TargetTokens, TrajectoryLog, ReasoningParser, Feedback,
        IdleLearning

VARIABLE part

-----------------------------------------------------------------------------
\* TrainSteps: every optimizer key, gate and sidecar occurs, one and two
\* objectives, and every way round the gate.
One(o, sides) ==
    [multi |-> FALSE, names |-> <<o>>, sides |-> sides, pure |-> o = "unlike",
     unanchored |-> FALSE, positions |-> FALSE, shown |-> <<"sides">>]

StepSpecs ==
    {One("kto", <<>>), One("kto", <<"safety_monitor">>), One("weighted_sft", <<"safety_monitor">>),
     One("ccpd_v2", <<>>), One("ccpd_v2", <<"kl_anchor", "kto">>),
     One("unlike", <<>>), One("unlike", <<"kl_anchor">>),
     [One("unlike", <<>>) EXCEPT !.shown = <<"nothing">>],
     [One("unlike", <<"kl_anchor">>) EXCEPT !.shown = <<"no_anchor">>],
     [One("sft", <<"unlike">>) EXCEPT !.pure = TRUE],
     [One("safety_monitor", <<>>) EXCEPT !.positions = TRUE],
     [One("unlike", <<>>) EXCEPT !.names = <<"ccpd_v2", "unlike">>, !.multi = TRUE,
                                 !.unanchored = TRUE, !.shown = <<"sides", "sides">>],
     [One("unlike", <<"ccpd_v2">>) EXCEPT !.names = <<"unlike", "unlike">>, !.multi = TRUE,
                                          !.shown = <<"anchor", "sides">>]}

\* TargetTokens: with a chat template and without; long and short enough for
\* MaxLen to cut the answer, the accepted prefix or the prompt itself; the text
\* of the prefix found where it ends, earlier, later or not at all.
Templated(prompt, hidden, resp, span, found, good) ==
    [head |-> 1, context |-> 1, prompt |-> prompt, gen |-> 1, hidden |-> hidden, resp |-> resp,
     tail |-> 1, span |-> span, found |-> found, aligned |-> hidden + span \in found \cup {hidden},
     fused |-> FALSE, good |-> good]

Plain(prompt, resp, span, found, fused, good) ==
    [head |-> 0, context |-> 2, prompt |-> prompt, gen |-> 0, hidden |-> 0, resp |-> resp,
     tail |-> 0, span |-> span, found |-> found, aligned |-> fused \/ span \in found \cup {0},
     fused |-> fused, good |-> good]

SampleShapes ==
    {Templated(1, 0, 2, 0, {}, TRUE), Templated(2, 1, 3, 1, {2}, FALSE),
     Templated(2, 0, 3, 2, {}, TRUE), Templated(2, 0, 1, 1, {1}, FALSE),
     Templated(0, 1, 2, 1, {1, 2}, FALSE), Templated(0, 1, 2, 1, {2, 3}, FALSE),
     Templated(1, 0, 3, 2, {2}, FALSE),
     Plain(0, 0, 0, {}, FALSE, TRUE), Plain(0, 2, 1, {1}, FALSE, FALSE), Plain(2, 2, 1, {}, TRUE, FALSE),
     Plain(1, 3, 2, {2}, TRUE, TRUE), Plain(2, 0, 0, {}, FALSE, TRUE), Plain(2, 3, 1, {1, 2}, FALSE, FALSE),
     Plain(6, 2, 0, {}, TRUE, FALSE)}

\* ReasoningParser: the tags share their first and last character.
Think == <<"lt", "gt">>
Unthink == <<"lt", "sl", "gt">>

\* Feedback: every kind, with and without each field.
ClientPayloads ==
    [rid : {1}, kind : FeedbackKinds, prompt : {Absent, Empty, <<"p">>},
     response : {Absent, Empty, <<"r">>}, value : {"up", "down"}, better : {Absent, <<"b">>},
     critique : {Absent, <<"c">>}]

-----------------------------------------------------------------------------
Parts == {"lock", "steps", "tokens", "log", "parser", "feedback", "learning"}

PartsInit ==
    /\ part \in Parts
    /\ LockInit /\ StepsInit /\ TokensInit /\ LogInit /\ ParserInit /\ FeedbackInit /\ LearnInit

PartsNext ==
    /\ UNCHANGED part
    /\ \/ part = "lock" /\ LockNext
       \/ part # "lock" /\ UNCHANGED lockVars
    /\ \/ part = "steps" /\ StepsNext
       \/ part # "steps" /\ UNCHANGED stepVars
    /\ \/ part = "tokens" /\ TokensNext
       \/ part # "tokens" /\ UNCHANGED tokenVars
    /\ \/ part = "log" /\ LogNext
       \/ part # "log" /\ UNCHANGED logVars
    /\ \/ part = "parser" /\ ParserNext
       \/ part # "parser" /\ UNCHANGED parserVars
    /\ \/ part = "feedback" /\ FeedbackNext
       \/ part # "feedback" /\ UNCHANGED feedbackVars
    /\ \/ part = "learning" /\ LearnNext
       \/ part # "learning" /\ UNCHANGED learnVars

PartsFairness ==
    /\ \A c \in Chats : WF_lockVars(part = "lock" /\ ThreadProgress(c))
    /\ WF_lockVars(part = "lock" /\ HandlerProgress)
    /\ WF_learnVars(part = "learning" /\ StopSteps)

PartsSpec ==
    PartsInit
      /\ [][PartsNext]_<<part, lockVars, stepVars, tokenVars, logVars, parserVars, feedbackVars, learnVars>>
      /\ PartsFairness
=============================================================================
