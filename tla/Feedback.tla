------------------------------ MODULE Feedback ------------------------------
(***************************************************************************)
(* Feedback on an answer: looked up in the response index, logged, routed  *)
(* to a train spec and submitted (controller.py: _remember_response,       *)
(* feedback_to_batch, submit_feedback).  The index is bounded and dies     *)
(* with the process; the idle replay has the log only.                     *)
(***************************************************************************)
EXTENDS Naturals, Sequences

CONSTANTS
    IndexCap,     \* _RESPONSE_INDEX_CAP
    MaxAnswers,   \* bound on the answers given
    MaxFeedbacks, \* bound on the feedback records logged
    Payloads      \* the payloads clients may send

Absent == <<"absent">>   \* the payload has no such key
Empty == <<"empty">>     \* the key is there with a falsy value
FeedbackKinds ==
    {"binary", "rewrite", "preferred", "nl_critique", "nl_critique_with_rewrite", "feedback", "other"}

Fields == {"rid", "kind", "prompt", "response", "value", "better", "critique"}

ASSUME FeedbackBounds ==
    /\ IndexCap \in Nat /\ MaxAnswers \in Nat /\ MaxFeedbacks \in Nat
    /\ \A p \in Payloads :
         /\ DOMAIN p = Fields /\ p = [f \in Fields |-> p[f]]
         /\ p.kind \in FeedbackKinds /\ p.rid \in 0..MaxAnswers

VARIABLES
    answers,  \* answers given; their response ids are numbered from 1
    index,    \* _response_index, oldest first
    logged,   \* the feedback records of the log
    sentBy,   \* the payload behind each of them
    live      \* the spec the live path built for each of them

feedbackVars == <<answers, index, logged, sentBy, live>>

FeedbackInit ==
    /\ answers = 0 /\ index = <<>>
    /\ logged = <<>> /\ sentBy = <<>> /\ live = <<>>

-----------------------------------------------------------------------------
\* What an answer was to, and what it was.
PromptOf(rid) == <<"prompt", rid>>
ResponseOf(rid) == <<"response", rid>>

Given(v) == v # Absent /\ v # Empty
\* record.get(key) or fallback or ""
Or(v, fallback) == IF Given(v) THEN v ELSE fallback

NoSpec == [objective |-> "none"]

\* feedback_to_batch.  A record of the log has its routing kind under
\* feedback_kind, so `kind` is the routing kind in both shapes.
FeedbackToBatch(rec, prompt, response) ==
    LET p == Or(rec.prompt, prompt)
        bad == Or(rec.response, response)
    IN  IF p = Empty THEN NoSpec
        ELSE CASE rec.kind = "binary" ->
                    [objective |-> "kto", prompt |-> p, response |-> bad,
                     label |-> IF rec.value = "up" THEN "desirable" ELSE "undesirable"]
               [] rec.kind \in {"rewrite", "preferred"} /\ Given(rec.better) ->
                    [objective |-> "weighted_sft", prompt |-> p, response |-> rec.better]
               [] rec.kind = "nl_critique" /\ Given(rec.critique) ->
                    [objective |-> "coh", prompt |-> p, bad |-> bad, critique |-> rec.critique]
               [] rec.kind = "nl_critique_with_rewrite" /\ Given(rec.critique) /\ Given(rec.better) ->
                    [objective |-> "coh", prompt |-> p, bad |-> bad, critique |-> rec.critique,
                     good |-> rec.better]
               [] OTHER -> NoSpec

AsSent(p, prompt, response) == p   \* log what the client sent

\* The record that is logged: prompt and response are filled in from the index
\* when the payload has no such key.
Materialized(p, prompt, response) ==
    [p EXCEPT !.prompt = IF @ = Absent /\ prompt # Empty THEN prompt ELSE @,
              !.response = IF @ = Absent /\ response # Empty THEN response ELSE @]

-----------------------------------------------------------------------------
Indexed(rid) == \E i \in 1..Len(index) : index[i] = rid

\* _remember_response: insert, then evict the oldest above the cap.
Answer ==
    /\ answers < MaxAnswers
    /\ answers' = answers + 1
    /\ LET grown == Append(index, answers') IN
         index' = IF Len(grown) > IndexCap THEN Tail(grown) ELSE grown
    /\ UNCHANGED <<logged, sentBy, live>>

\* submit_feedback up to submit_train.  Without the prompt, feedback on an
\* answer that is not in the index is refused and nothing is logged.
SubmitFeedback ==
    \E p \in Payloads :
        LET known == Indexed(p.rid)
            prompt == IF known THEN PromptOf(p.rid) ELSE Empty
            response == IF known THEN ResponseOf(p.rid) ELSE Empty
        IN
        /\ Len(logged) < MaxFeedbacks
        /\ known \/ p.prompt # Absent
        /\ logged' = Append(logged, Materialized(p, prompt, response))
        /\ sentBy' = Append(sentBy, p)
        /\ live' = Append(live, FeedbackToBatch(p, prompt, response))
        /\ UNCHANGED <<answers, index>>

\* A new process has an empty index and the old log.
RestartDaemon ==
    /\ index # <<>>
    /\ index' = <<>>
    /\ UNCHANGED <<answers, logged, sentBy, live>>

FeedbackNext == Answer \/ SubmitFeedback \/ RestartDaemon

FeedbackSpec == FeedbackInit /\ [][FeedbackNext]_feedbackVars

-----------------------------------------------------------------------------
FeedbackType ==
    /\ answers \in 0..MaxAnswers
    /\ Len(index) <= IndexCap
    /\ \A i \in 1..Len(index) : index[i] \in 1..answers
    /\ Len(logged) <= MaxFeedbacks
    /\ Len(sentBy) = Len(logged) /\ Len(live) = Len(logged)
    /\ \A i \in 1..Len(sentBy) : sentBy[i] \in Payloads

\* What the idle replay rebuilds from the log alone.
Replayed(i) == FeedbackToBatch(logged[i], Empty, Empty)

\* The log is canonical: whatever was evicted or forgotten in a restart since,
\* replay rebuilds from a logged record the very spec the live path trained on,
\* or none if that refused it (controller.py:607-739, replay.py:147).  Payloads
\* that give a prompt or a response as an empty value are left out: the live
\* path falls back to the index for them, the record keeps the empty value.
TrainedAsLogged ==
    \A i \in 1..Len(logged) :
        sentBy[i].prompt # Empty /\ sentBy[i].response # Empty => Replayed(i) = live[i]
=============================================================================
