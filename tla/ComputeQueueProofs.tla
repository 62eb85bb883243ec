------------------------- MODULE ComputeQueueProofs -------------------------
(***************************************************************************)
(* Theorems about ComputeQueue, for every depth, every number of tokens    *)
(* and readers, and every mix of callers.                                  *)
(***************************************************************************)
EXTENDS ComputeQueue, FiniteSetTheorems, TLAPS

-----------------------------------------------------------------------------
(* Type correctness. *)

\* The initial state has the types.
LEMMA TypeInit == Init => TypeOK
<1> SUFFICES ASSUME Init PROVE TypeOK
  OBVIOUS
<1> USE BoundsAssumption DEF Init, Token, TokenSeq, NoTask
<1>1. error \in [Token -> {"none", "failed", "dropped"}]
  OBVIOUS
<1>2. reader \in [Readers ->
          [state : {"idle", "waiting", "ok", "raised", "seen", "unknown", "timeout"},
           token : -1 .. MaxTokens]]
  OBVIOUS
<1>3. nextToken \in 0 .. MaxTokens /\ completed \in -1 .. MaxTokens - 1
  OBVIOUS
<1>4. pending \subseteq Token /\ trains \subseteq Token /\ done \subseteq Token
      /\ applied \subseteq Token
  OBVIOUS
<1>5. q \in TokenSeq /\ putters \in TokenSeq /\ woken \in TokenSeq
  OBVIOUS
<1> QED
  BY <1>1, <1>2, <1>3, <1>4, <1>5 DEF TypeOK

\* Tokens are the naturals below the bound.
LEMMA TokenFacts ==
    /\ Token \subseteq Nat
    /\ NoTask \notin Token
    /\ \A t \in Token : t < MaxTokens
    /\ \A n \in 0 .. MaxTokens : n < MaxTokens => n \in Token /\ n + 1 \in 0 .. MaxTokens
BY BoundsAssumption DEF Token, NoTask

\* A reap keeps the types of what it resolves.
LEMMA ReapType ==
    ASSUME TypeOK, Reap
    PROVE  /\ error' \in [Token -> {"none", "failed", "dropped"}]
           /\ completed' \in -1 .. MaxTokens - 1
           /\ done' \subseteq Token
           /\ pending' \subseteq Token
<1>1. error' \in [Token -> {"none", "failed", "dropped"}]
  BY DEF Reap, TypeOK
<1>2. Dropped \subseteq Token
  BY DEF Dropped, TypeOK
<1>3. completed' \in Dropped \cup {completed}
  BY DEF Reap
<1>4. completed' \in -1 .. MaxTokens - 1
  BY <1>2, <1>3, BoundsAssumption DEF TypeOK, Token
<1>5. done' \subseteq Token /\ pending' \subseteq Token
  BY <1>2 DEF Reap, Uncollected, TypeOK
<1> QED BY <1>1, <1>4, <1>5

\* Appending to a sequence and taking its head keep its elements in the set.
LEMMA SeqFacts ==
    ASSUME NEW S, NEW s \in Seq(S)
    PROVE  /\ \A e \in S : Append(s, e) \in Seq(S)
           /\ s # <<>> => Head(s) \in S /\ Tail(s) \in Seq(S)
OBVIOUS

\* Every step keeps the types.
LEMMA TypeStep == TypeOK /\ [Next]_vars => TypeOK'
<1> SUFFICES ASSUME TypeOK, [Next]_vars PROVE TypeOK'
  OBVIOUS
<1>0. ASSUME Issue
      PROVE  /\ nextToken' \in 0 .. MaxTokens /\ nextToken \in Token
             /\ pending' \subseteq Token
  BY <1>0, TokenFacts DEF Issue, TypeOK
<1>1. CASE TrySubmit
  <2>1. q' \in TokenSeq /\ trains' \subseteq Token
    BY <1>0, <1>1 DEF TrySubmit, Enqueued, TypeOK, TokenSeq
  <2> QED
    BY <1>0, <1>1, <2>1
       DEF TrySubmit, Issue, TypeOK, taskVars, workerVars, drainVars
<1>2. CASE Submit
  <2>1. Append(q, nextToken) \in TokenSeq /\ Append(putters, nextToken) \in TokenSeq
    BY <1>0, <1>2, SeqFacts DEF Submit, TypeOK, TokenSeq
  <2>2. q' \in {q, Append(q, nextToken)} /\ putters' \in {putters, Append(putters, nextToken)}
    BY <1>2 DEF Submit, Enqueued
  <2>3. q' \in TokenSeq /\ putters' \in TokenSeq
    BY <2>1, <2>2 DEF TypeOK
  <2> QED
    BY <1>0, <1>2, <2>3 DEF Submit, Issue, TypeOK, taskVars, workerVars, drainVars
<1>3. CASE PutterResume
  <2>1. Head(woken) \in Token /\ woken' \in TokenSeq
    BY <1>3 DEF PutterResume, TypeOK, TokenSeq
  <2>2. Append(q, Head(woken)) \in TokenSeq /\ Append(putters, Head(woken)) \in TokenSeq
    BY <2>1, SeqFacts DEF TypeOK, TokenSeq
  <2>3. /\ q' \in {q, Append(q, Head(woken))}
        /\ putters' \in {putters, Append(putters, Head(woken))}
    BY <1>3 DEF PutterResume, Enqueued
  <2>4. q' \in TokenSeq /\ putters' \in TokenSeq
    BY <2>2, <2>3 DEF TypeOK
  <2> QED
    BY <1>3, <2>1, <2>4
       DEF PutterResume, TypeOK, entryVars, taskVars, workerVars, drainVars
<1>4. CASE WorkerStart
  BY <1>4, TokenFacts DEF WorkerStart, TypeOK, entryVars, queueVars, taskVars, drainVars
<1>5. CASE WorkerPoll
  BY <1>5, TokenFacts
     DEF WorkerPoll, LoopTop, TypeOK, entryVars, queueVars, taskVars, drainVars
<1>6. CASE WorkerGet
  <2>1. current' \in Token /\ q' \in TokenSeq
    BY <1>6 DEF WorkerGet, TypeOK, TokenSeq
  <2>2. putters' \in TokenSeq /\ woken' \in TokenSeq
    <3>1. CASE putters = <<>>
      BY <1>6, <3>1 DEF WorkerGet, TypeOK
    <3>2. CASE putters # <<>>
      <4>1. putters' = Tail(putters) /\ woken' = Append(woken, Head(putters))
        BY <1>6, <3>2 DEF WorkerGet
      <4>2. Head(putters) \in Token /\ Tail(putters) \in TokenSeq
        BY <3>2, SeqFacts DEF TypeOK, TokenSeq
      <4> QED BY <4>1, <4>2, SeqFacts DEF TypeOK, TokenSeq
    <3> QED BY <3>1, <3>2
  <2> QED
    BY <1>6, <2>1, <2>2, TokenFacts DEF WorkerGet, TypeOK, entryVars, taskVars, drainVars
<1>7. ASSUME NEW ok \in BOOLEAN, WorkerFinishes(ok) PROVE TypeOK'
  <2>1. current \in Token
    BY <1>7 DEF WorkerFinishes, TypeOK
  <2>2. applied' \subseteq Token /\ error' \in [Token -> {"none", "failed", "dropped"}]
    BY <1>7, <2>1 DEF WorkerFinishes, TypeOK
  <2>3. completed' \in -1 .. MaxTokens - 1
    BY <1>7, <2>1, BoundsAssumption DEF WorkerFinishes, Cursor, TypeOK, Token
  <2>4. done' \subseteq Token /\ pending' \subseteq Token
    BY <1>7, <2>1 DEF WorkerFinishes, Uncollected, TypeOK
  <2>5. phase' \in {"getting", "exited"} /\ current' = NoTask
    BY <1>7 DEF WorkerFinishes, LoopTop
  <2> QED
    BY <1>7, <2>2, <2>3, <2>4, <2>5
       DEF WorkerFinishes, TypeOK, entryVars, queueVars, drainVars
<1>8. CASE Stop
  BY <1>8 DEF Stop, TypeOK, entryVars, queueVars, taskVars, workerVars
<1>9. CASE DrainCall
  <2>1. CASE Reap
    BY <1>9, <2>1, ReapType DEF DrainCall, TypeOK, queueVars, workerVars
  <2>2. CASE UNCHANGED <<error, completed, done, pending>>
    BY <1>9, <2>2 DEF DrainCall, TypeOK, queueVars, workerVars
  <2> QED BY <1>9, <2>1, <2>2 DEF DrainCall
<1>10. CASE DrainDeadline
  BY <1>10 DEF DrainDeadline, DeadlineRanOut, TypeOK, entryVars, queueVars, taskVars, workerVars
<1>11. CASE DrainJoin
  <2>1. Reap
    BY <1>11 DEF DrainJoin
  <2> QED
    BY <1>11, <2>1, ReapType DEF DrainJoin, TypeOK, entryVars, queueVars, workerVars
<1>12. CASE GraceExpires
  <2>1. Reap
    BY <1>12 DEF GraceExpires
  <2> QED
    BY <1>12, <2>1, ReapType DEF GraceExpires, TypeOK, entryVars, queueVars, workerVars
<1>13. ASSUME NEW r \in Readers, ReaderStep(r) PROVE TypeOK'
  <2>1. reader' \in [Readers ->
          [state : {"idle", "waiting", "ok", "raised", "seen", "unknown", "timeout"},
           token : -1 .. MaxTokens]]
    <3>1. ASSUME NEW t \in -1 .. MaxTokens, WaitFor(r, t)
          PROVE  reader' = [reader EXCEPT ![r] = [state |-> Lookup(t), token |-> t]]
      BY <3>1 DEF WaitFor
    <3>2. \A t : Lookup(t) \in {"waiting", "seen", "unknown"}
      BY DEF Lookup
    <3>3. CASE \E t \in -1 .. MaxTokens : WaitFor(r, t)
      BY <3>1, <3>2, <3>3 DEF TypeOK
    <3>4. CASE WaitReturns(r)
      BY <3>4 DEF WaitReturns, TypeOK
    <3>5. CASE WaitTimesOut(r)
      BY <3>5 DEF WaitTimesOut, TypeOK
    <3> QED BY <1>13, <3>3, <3>4, <3>5 DEF ReaderStep
  <2>2. UNCHANGED <<entryVars, completed, pending, queueVars, taskVars, workerVars,
                    drainVars>>
    BY <1>13 DEF ReaderStep, WaitFor, WaitReturns, WaitTimesOut
  <2> QED
    BY <2>1, <2>2 DEF TypeOK, entryVars, queueVars, taskVars, workerVars, drainVars
<1>14. CASE UNCHANGED vars
  BY <1>14 DEF vars, TypeOK, entryVars, queueVars, taskVars, workerVars, drainVars
<1> QED
  BY <1>1, <1>2, <1>3, <1>4, <1>5, <1>6, <1>7, <1>8, <1>9, <1>10, <1>11, <1>12,
     <1>13, <1>14 DEF Next

\* Every variable keeps its type, whatever the callers do.
THEOREM TypeCorrect == Spec => []TypeOK
<1> QED BY TypeInit, TypeStep, PTL DEF Spec

-----------------------------------------------------------------------------
(* The inductive invariant. *)

\* An append keeps the old positions and adds one at the end.
LEMMA AppendFacts ==
    ASSUME NEW S, NEW s \in Seq(S), NEW e
    PROVE  /\ Len(s) \in Nat
           /\ DOMAIN s = 1 .. Len(s)
           /\ DOMAIN Append(s, e) = 1 .. Len(s) + 1
           /\ \A i \in 1 .. Len(s) : Append(s, e)[i] = s[i]
           /\ Append(s, e)[Len(s) + 1] = e
OBVIOUS

\* A tail shifts the positions down by one.
LEMMA TailFacts ==
    ASSUME NEW S, NEW s \in Seq(S), s # <<>>
    PROVE  /\ Len(s) \in Nat \ {0}
           /\ DOMAIN s = 1 .. Len(s)
           /\ Head(s) = s[1]
           /\ DOMAIN Tail(s) = 1 .. Len(s) - 1
           /\ \A i \in 1 .. Len(s) - 1 : Tail(s)[i] = s[i + 1]
OBVIOUS

\* A sequence over a set is one over any larger set.
LEMMA SeqGrows ==
    ASSUME NEW S, NEW T, S \subseteq T, NEW s \in Seq(S)
    PROVE  s \in Seq(T)
OBVIOUS

\* The cursor, the issued token and all tokens in sight are integers.
LEMMA Numbers ==
    ASSUME TypeOK
    PROVE  /\ nextToken \in Nat /\ completed \in Int /\ current \in Int
           /\ \A t \in pending \cup trains \cup done : t \in Nat
           /\ q \in Seq(Token) /\ putters \in Seq(Token) /\ woken \in Seq(Token)
           /\ Len(q) \in Nat
           /\ \A i \in DOMAIN q : q[i] \in Nat
BY BoundsAssumption, TokenFacts DEF TypeOK, Token, TokenSeq, NoTask

\* What the resolved part of the state must satisfy when the queue, the worker
\* and the training tokens stay as they are.
LEMMA ReapResolves ==
    ASSUME QueueInv, Reap
    PROVE  /\ trains \subseteq done'
           /\ done \subseteq done'
           /\ completed <= completed'
           /\ completed' < nextToken
           /\ \A t \in done' : t <= completed'
           /\ done' \subseteq Issued
           /\ pending' \subseteq Issued
<1> USE DEF QueueInv
<1>1. trains \subseteq done'
  BY DEF Reap, Dropped, OpenTrainingAhead
<1>2. done \subseteq done'
  BY DEF Reap
<1>3. /\ completed' \in Dropped \cup {completed}
      /\ \A t \in Dropped \cup {completed} : t <= completed'
  BY DEF Reap
<1>4. completed <= completed'
  BY <1>3
<1>5. completed' < nextToken
  BY <1>3, Numbers DEF Dropped, TokensIssued, Issued
<1>6. done' \subseteq Issued /\ pending' \subseteq Issued
  BY DEF Reap, Dropped, Uncollected, TokensIssued
<1>7. ASSUME NEW t \in done' PROVE t <= completed'
  <2>1. CASE t \in done
    <3>1. t \in Int /\ t <= completed /\ completed' \in Int /\ completed \in Int
      BY <2>1, ReapType, Numbers DEF CursorCoversDone
    <3> QED BY <3>1, <1>4
  <2>2. CASE t \in Dropped
    BY <2>2, <1>3
  <2> QED BY <1>7, <2>1, <2>2 DEF Reap
<1> QED BY <1>1, <1>2, <1>4, <1>5, <1>6, <1>7

\* The initial state satisfies the inductive invariant.
LEMMA InvInit == Init => QueueInv
<1> SUFFICES ASSUME Init PROVE QueueInv
  OBVIOUS
<1>1. TypeOK
  BY TypeInit
<1>2. TokensIssued
  BY DEF Init, TokensIssued, Issued, NoTask
<1>3. TrainingBehindSmaller
  BY DEF Init, TrainingBehindSmaller
<1>4. OpenTrainingAhead /\ CursorCoversDone /\ DrainResolvesTraining
  BY DEF Init, OpenTrainingAhead, CursorCoversDone, DrainResolvesTraining
<1>5. ReaderSeesTraining /\ (drain # "none" => ~accepting)
  BY DEF Init, ReaderSeesTraining
<1> QED BY <1>1, <1>2, <1>3, <1>4, <1>5 DEF QueueInv

\* Issuing a token adds the largest one.
LEMMA IssueFacts ==
    ASSUME QueueInv, Issue
    PROVE  /\ nextToken' = nextToken + 1 /\ pending' = pending \cup {nextToken}
           /\ UNCHANGED <<completed, done, current, drain, accepting, reader>>
           /\ accepting
           /\ Issued' = Issued \cup {nextToken}
           /\ nextToken \notin Issued
           /\ \A t \in Issued : t \in Nat /\ t < nextToken
           /\ current < nextToken /\ completed < nextToken
BY Numbers
   DEF QueueInv, TokensIssued, Issued, Issue, Admitted, NoTask, taskVars, workerVars,
       drainVars

\* What Issue leaves to be shown: the tokens' places and the order in the queue.
LEMMA IssueInv ==
    ASSUME QueueInv, Issue, TypeOK', trains \subseteq trains', trains' \subseteq Issued',
           q' \in Seq(Issued'),
           putters' \in Seq(Issued' \ trains'), woken' \in Seq(Issued' \ trains'),
           TrainingBehindSmaller',
           \A u \in trains' \ trains : u = nextToken,
           \A u \in trains' \ done : Held(u)'
    PROVE  QueueInv'
<1> USE DEF QueueInv
<1>1. TokensIssued'
  <2>1. \A r \in Readers : reader'[r].state \in {"ok", "raised", "seen"} =>
            reader'[r].token < nextToken'
    <3>1. \A r \in Readers : reader[r].token \in Int
      BY BoundsAssumption DEF TypeOK
    <3>2. nextToken' = nextToken + 1 /\ reader' = reader /\ nextToken \in Nat
      BY IssueFacts, Numbers
    <3> QED BY <3>1, <3>2 DEF TokensIssued
  <2> QED
    BY <2>1, IssueFacts, Numbers DEF TokensIssued
<1>2. OpenTrainingAhead'
  BY IssueFacts DEF OpenTrainingAhead
<1>3. CursorCoversDone' /\ DrainResolvesTraining' /\ (drain' # "none" => ~accepting')
  BY IssueFacts DEF CursorCoversDone, DrainResolvesTraining
<1>4. ReaderSeesTraining'
  BY IssueFacts, Numbers, BoundsAssumption DEF ReaderSeesTraining, TokensIssued, TypeOK
<1> QED BY <1>1, <1>2, <1>3, <1>4

\* Appending keeps training behind smaller tokens if the new token is not
\* training or is larger than all before it.
LEMMA AppendBehind ==
    ASSUME QueueInv, NEW t \in Token,
           q' = Append(q, t), current' = current,
           \A u \in trains' \ trains : u \notin Issued,
           t \in trains' => current < t /\ \A i \in DOMAIN q : q[i] < t
    PROVE  TrainingBehindSmaller'
<1> USE DEF QueueInv
<1>1. /\ DOMAIN q = 1 .. Len(q) /\ DOMAIN q' = 1 .. Len(q) + 1 /\ Len(q) \in Nat
      /\ \A i \in 1 .. Len(q) : q'[i] = q[i]
      /\ q'[Len(q) + 1] = t
  BY Numbers, AppendFacts
<1>2. SUFFICES ASSUME NEW j \in 1 .. Len(q) + 1, q'[j] \in trains'
               PROVE  /\ current' < q'[j]
                      /\ \A i \in 1 .. Len(q) + 1 : i < j => q'[i] < q'[j]
  BY <1>1 DEF TrainingBehindSmaller
<1>3. CASE j = Len(q) + 1
  <2>1. q'[j] = t /\ t \in trains'
    BY <1>1, <1>2, <1>3
  <2>2. ASSUME NEW i \in 1 .. Len(q) + 1, i < j PROVE q'[i] < q'[j]
    <3>1. i \in 1 .. Len(q)
      BY <1>1, <1>3, <2>2
    <3> QED BY <1>1, <2>1, <3>1
  <2> QED BY <2>1, <2>2
<1>4. CASE j \in 1 .. Len(q)
  <2>1. q[j] \in trains
    BY <1>1, <1>2, <1>4 DEF TokensIssued
  <2> QED BY <1>1, <1>4, <2>1 DEF TrainingBehindSmaller
<1> QED BY <1>1, <1>2, <1>3, <1>4

\* try_submit keeps the invariant: its token is the largest and goes to the end.
LEMMA TrySubmitInv ==
    ASSUME QueueInv, TrySubmit, TypeOK'
    PROVE  QueueInv'
<1> USE DEF QueueInv
<1>1. /\ Issue /\ trains' = trains \cup {nextToken} /\ q' = Append(q, nextToken)
      /\ UNCHANGED <<putters, woken>>
  BY DEF TrySubmit, Enqueued
<1>2. nextToken \in Token
  BY <1>1, TokenFacts DEF Issue, TypeOK
<1>3. q' \in Seq(Issued') /\ trains' \subseteq Issued'
  BY <1>1, IssueFacts, SeqGrows, SeqFacts DEF TokensIssued
<1>4. putters' \in Seq(Issued' \ trains') /\ woken' \in Seq(Issued' \ trains')
  <2>1. Issued \ trains \subseteq Issued' \ trains'
    BY <1>1, IssueFacts
  <2> QED BY <1>1, <2>1, SeqGrows DEF TokensIssued
<1>5. \A i \in DOMAIN q : q[i] < nextToken
  BY <1>1, IssueFacts DEF TokensIssued
<1>6. TrainingBehindSmaller'
  BY <1>1, <1>2, <1>5, IssueFacts, AppendBehind
<1>7. ASSUME NEW u \in trains' \ done PROVE Held(u)'
  <2>1. /\ DOMAIN q = 1 .. Len(q) /\ DOMAIN q' = 1 .. Len(q) + 1 /\ Len(q) \in Nat
        /\ \A i \in 1 .. Len(q) : q'[i] = q[i]
        /\ q'[Len(q) + 1] = nextToken
    BY <1>1, Numbers, AppendFacts
  <2>2. CASE u = nextToken
    BY <2>1, <2>2 DEF Held
  <2>3. CASE u \in trains \ done
    BY <1>1, <2>1, <2>3, IssueFacts DEF OpenTrainingAhead, Held
  <2> QED BY <1>1, <1>7, <2>2, <2>3
<1> QED BY <1>1, <1>3, <1>4, <1>6, <1>7, IssueInv

\* submit keeps the invariant, whether its put suspends or not.
LEMMA SubmitInv ==
    ASSUME QueueInv, Submit, TypeOK'
    PROVE  QueueInv'
<1> USE DEF QueueInv
<1>1. Issue /\ UNCHANGED <<trains, woken>>
  BY DEF Submit
<1>2. nextToken \in Token
  BY <1>1, TokenFacts DEF Issue, TypeOK
<1>3. /\ Issued \subseteq Issued' /\ Issued \ trains \subseteq Issued' \ trains'
      /\ nextToken \in Issued' \ trains'
  BY <1>1, IssueFacts DEF TokensIssued
<1>4. q \in Seq(Issued') /\ putters \in Seq(Issued' \ trains') /\ woken' \in Seq(Issued' \ trains')
  BY <1>1, <1>3, SeqGrows DEF TokensIssued
<1>5. trains' \subseteq Issued'
  BY <1>1, <1>3 DEF TokensIssued
<1>6. CASE q' = Append(q, nextToken) /\ UNCHANGED putters
  <2>1. q' \in Seq(Issued')
    BY <1>3, <1>4, <1>6, SeqFacts
  <2>2. TrainingBehindSmaller'
    BY <1>1, <1>2, <1>3, <1>6, IssueFacts, AppendBehind
  <2>3. \A u \in trains' \ done : Held(u)'
    <3>1. /\ DOMAIN q = 1 .. Len(q) /\ DOMAIN q' = 1 .. Len(q) + 1 /\ Len(q) \in Nat
          /\ \A i \in 1 .. Len(q) : q'[i] = q[i]
      BY <1>6, Numbers, AppendFacts
    <3> QED BY <1>1, <3>1, IssueFacts DEF OpenTrainingAhead, Held
  <2> QED BY <1>1, <1>4, <1>5, <1>6, <2>1, <2>2, <2>3, IssueInv
<1>7. CASE putters' = Append(putters, nextToken) /\ UNCHANGED q
  <2>1. putters' \in Seq(Issued' \ trains')
    BY <1>3, <1>4, <1>7, SeqFacts
  <2>2. TrainingBehindSmaller'
    BY <1>1, <1>7, IssueFacts DEF TrainingBehindSmaller
  <2>3. \A u \in trains' \ done : Held(u)'
    BY <1>1, <1>7, IssueFacts DEF OpenTrainingAhead, Held
  <2> QED BY <1>1, <1>4, <1>5, <1>7, <2>1, <2>2, <2>3, IssueInv
<1> QED BY <1>6, <1>7 DEF Submit, Enqueued

\* A late put keeps the invariant: what it adds is never training.
LEMMA PutterResumeInv ==
    ASSUME QueueInv, PutterResume, TypeOK'
    PROVE  QueueInv'
<1> USE DEF QueueInv
<1> DEFINE t == Head(woken)
<1>1. /\ UNCHANGED <<nextToken, trains, accepting, completed, pending, done, current,
                     drain, reader>>
      /\ woken # <<>> /\ woken' = Tail(woken)
  BY DEF PutterResume, entryVars, taskVars, workerVars, drainVars
<1>2. t \in Issued \ trains /\ woken' \in Seq(Issued \ trains)
  BY <1>1, SeqFacts DEF TokensIssued
<1>3. t \in Token
  BY <1>1, SeqFacts, Numbers
<1>4. Issued' = Issued
  BY <1>1 DEF Issued
<1>5. q' \in Seq(Issued) /\ putters' \in Seq(Issued \ trains) /\ TrainingBehindSmaller'
      /\ \A u \in trains \ done : Held(u)'
  <2>1. CASE q' = Append(q, t) /\ UNCHANGED putters
    <3>1. q' \in Seq(Issued)
      BY <1>2, <2>1, SeqFacts DEF TokensIssued
    <3>2. TrainingBehindSmaller'
      BY <1>1, <1>2, <1>3, <2>1, AppendBehind
    <3>3. /\ DOMAIN q = 1 .. Len(q) /\ DOMAIN q' = 1 .. Len(q) + 1 /\ Len(q) \in Nat
          /\ \A i \in 1 .. Len(q) : q'[i] = q[i]
      BY <2>1, Numbers, AppendFacts
    <3>4. \A u \in trains \ done : Held(u)'
      BY <1>1, <3>3 DEF OpenTrainingAhead, Held
    <3> QED BY <2>1, <3>1, <3>2, <3>4 DEF TokensIssued
  <2>2. CASE putters' = Append(putters, t) /\ UNCHANGED q
    <3>1. putters' \in Seq(Issued \ trains)
      BY <1>2, <2>2, SeqFacts DEF TokensIssued
    <3> QED
      BY <1>1, <2>2, <3>1 DEF TokensIssued, TrainingBehindSmaller, OpenTrainingAhead, Held
  <2> QED BY <2>1, <2>2 DEF PutterResume, Enqueued
<1>6. TokensIssued'
  BY <1>1, <1>2, <1>4, <1>5 DEF TokensIssued
<1>7. OpenTrainingAhead'
  BY <1>1, <1>5 DEF OpenTrainingAhead
<1>8. CursorCoversDone' /\ DrainResolvesTraining' /\ (drain' # "none" => ~accepting')
      /\ ReaderSeesTraining'
  BY <1>1 DEF CursorCoversDone, DrainResolvesTraining, ReaderSeesTraining
<1> QED BY <1>5, <1>6, <1>7, <1>8

\* The worker's get keeps the invariant: the head moves into the handler.
LEMMA WorkerGetInv ==
    ASSUME QueueInv, WorkerGet, TypeOK'
    PROVE  QueueInv'
<1> USE DEF QueueInv
<1>1. /\ UNCHANGED <<nextToken, trains, accepting, completed, pending, done, drain, reader>>
      /\ q # <<>> /\ q' = Tail(q) /\ current' = Head(q) /\ phase = "getting"
  BY DEF WorkerGet, entryVars, taskVars, drainVars
<1>2. Issued' = Issued
  BY <1>1 DEF Issued
<1>3. current' \in Issued /\ q' \in Seq(Issued)
  BY <1>1, SeqFacts DEF TokensIssued
<1>4. putters' \in Seq(Issued \ trains) /\ woken' \in Seq(Issued \ trains)
  <2>1. CASE putters = <<>>
    BY <2>1 DEF WorkerGet, TokensIssued
  <2>2. CASE putters # <<>>
    <3>1. putters' = Tail(putters) /\ woken' = Append(woken, Head(putters))
      BY <2>2 DEF WorkerGet
    <3>2. Head(putters) \in Issued \ trains /\ Tail(putters) \in Seq(Issued \ trains)
      BY <2>2, SeqFacts DEF TokensIssued
    <3> QED BY <3>1, <3>2, SeqFacts DEF TokensIssued
  <2> QED BY <2>1, <2>2
<1>5. /\ Len(q) \in Nat \ {0} /\ DOMAIN q = 1 .. Len(q) /\ DOMAIN q' = 1 .. Len(q) - 1
      /\ \A i \in 1 .. Len(q) - 1 : q'[i] = q[i + 1]
      /\ current' = q[1]
  BY <1>1, Numbers, TailFacts
<1>6. TrainingBehindSmaller'
  <2>1. SUFFICES ASSUME NEW j \in 1 .. Len(q) - 1, q'[j] \in trains
                 PROVE  /\ current' < q'[j]
                        /\ \A i \in 1 .. Len(q) - 1 : i < j => q'[i] < q'[j]
    BY <1>1, <1>5 DEF TrainingBehindSmaller
  <2>2. j + 1 \in 1 .. Len(q) /\ q'[j] = q[j + 1] /\ 1 < j + 1
    BY <1>5
  <2>3. \A i \in 1 .. Len(q) : i < j + 1 => q[i] < q[j + 1]
    BY <1>5, <2>1, <2>2 DEF TrainingBehindSmaller
  <2> QED BY <1>5, <2>2, <2>3
<1>7. OpenTrainingAhead'
  <2>1. SUFFICES ASSUME NEW u \in trains \ done PROVE Held(u)'
    BY <1>1 DEF OpenTrainingAhead
  <2>2. current = NoTask /\ u # NoTask
    BY <1>1, TokenFacts DEF TypeOK
  <2>3. PICK i \in 1 .. Len(q) : q[i] = u
    BY <1>5, <2>2 DEF OpenTrainingAhead, Held
  <2>4. CASE i = 1
    BY <1>5, <2>3, <2>4 DEF Held
  <2>5. CASE i # 1
    <3>1. i - 1 \in 1 .. Len(q) - 1 /\ q'[i - 1] = u
      BY <1>5, <2>3, <2>5
    <3> QED BY <1>5, <3>1 DEF Held
  <2> QED BY <2>4, <2>5
<1>8. TokensIssued'
  BY <1>1, <1>2, <1>3, <1>4 DEF TokensIssued
<1>9. CursorCoversDone' /\ DrainResolvesTraining' /\ (drain' # "none" => ~accepting')
      /\ ReaderSeesTraining'
  BY <1>1 DEF CursorCoversDone, DrainResolvesTraining, ReaderSeesTraining
<1> QED BY <1>6, <1>7, <1>8, <1>9

\* Resolving the task in the handler keeps the invariant: all open training
\* is behind it.
LEMMA WorkerFinishesInv ==
    ASSUME QueueInv, NEW ok \in BOOLEAN, WorkerFinishes(ok), TypeOK'
    PROVE  QueueInv'
<1> USE DEF QueueInv
<1>1. /\ UNCHANGED <<nextToken, trains, accepting, q, putters, woken, drain, reader>>
      /\ done' = done \cup {current} /\ current' = NoTask
      /\ completed' = Cursor(current) /\ pending' = Uncollected(completed')
      /\ current \in Token
  BY DEF WorkerFinishes, TypeOK, entryVars, queueVars, drainVars
<1>2. Issued' = Issued
  BY <1>1 DEF Issued
<1>3. /\ completed <= completed' /\ current <= completed'
      /\ completed' \in {completed, current}
  BY <1>1, Numbers DEF Cursor
<1>4. TokensIssued'
  <2>0. current \in Issued
    BY <1>1, TokenFacts DEF TokensIssued
  <2>1. current < nextToken
    BY <2>0, Numbers DEF Issued
  <2>2. pending' \subseteq Issued
    BY <1>1 DEF Uncollected, TokensIssued
  <2> QED BY <1>1, <1>2, <1>3, <2>0, <2>1, <2>2 DEF TokensIssued
<1>5. TrainingBehindSmaller'
  BY <1>1, Numbers DEF TrainingBehindSmaller, NoTask
<1>6. OpenTrainingAhead'
  <2>1. SUFFICES ASSUME NEW u \in trains \ done, u # current
                 PROVE  completed' < u /\ u \in pending' /\ Held(u)'
    BY <1>1 DEF OpenTrainingAhead
  <2>2. completed < u /\ u \in pending /\ Held(u)
    BY DEF OpenTrainingAhead
  <2>3. PICK i \in DOMAIN q : q[i] = u
    BY <2>1, <2>2 DEF Held
  <2>4. current < u
    BY <2>3 DEF TrainingBehindSmaller
  <2>5. completed' < u
    BY <1>3, <2>2, <2>4
  <2> QED BY <1>1, <2>2, <2>3, <2>5 DEF Uncollected, Held
<1>7. CursorCoversDone'
  <2>1. ASSUME NEW t \in done PROVE t <= completed'
    <3>1. t \in Int /\ t <= completed /\ completed \in Int /\ completed' \in Int
      BY <1>1, <1>3, Numbers, TokenFacts DEF CursorCoversDone
    <3> QED BY <1>3, <3>1
  <2> QED BY <1>1, <1>3, <2>1 DEF CursorCoversDone
<1>8. DrainResolvesTraining' /\ (drain' # "none" => ~accepting') /\ ReaderSeesTraining'
  BY <1>1 DEF DrainResolvesTraining, ReaderSeesTraining
<1> QED BY <1>4, <1>5, <1>6, <1>7, <1>8

\* A reap leaves no open training, whatever else its step changes.
LEMMA ReapInv ==
    ASSUME QueueInv, Reap, TypeOK', ~accepting',
           UNCHANGED <<nextToken, trains, q, putters, woken, current, reader>>
    PROVE  QueueInv'
<1> USE DEF QueueInv
<1>1. Issued' = Issued
  BY DEF Issued
<1>2. TokensIssued'
  BY <1>1, ReapResolves DEF TokensIssued
<1>3. TrainingBehindSmaller'
  BY DEF TrainingBehindSmaller
<1>4. OpenTrainingAhead' /\ CursorCoversDone' /\ DrainResolvesTraining'
  BY ReapResolves DEF OpenTrainingAhead, CursorCoversDone, DrainResolvesTraining
<1>5. ReaderSeesTraining'
  BY ReapResolves DEF ReaderSeesTraining
<1> QED BY <1>2, <1>3, <1>4, <1>5

\* What wait_for answers keeps the invariant.
LEMMA ReaderStepInv ==
    ASSUME QueueInv, NEW r \in Readers, ReaderStep(r), TypeOK'
    PROVE  QueueInv'
<1> USE DEF QueueInv
<1>1. UNCHANGED <<entryVars, completed, pending, queueVars, taskVars, workerVars,
                  drainVars>>
  BY DEF ReaderStep, WaitFor, WaitReturns, WaitTimesOut
<1>2. UNCHANGED <<nextToken, trains, accepting, completed, pending, q, putters, woken,
                  done, current, drain>>
  BY <1>1 DEF entryVars, queueVars, taskVars, workerVars, drainVars
<1>3. \A s \in Readers \ {r} : reader'[s] = reader[s]
  BY DEF ReaderStep, WaitFor, WaitReturns, WaitTimesOut, TypeOK
<1>4. reader'[r].state \in {"ok", "raised", "seen"} => reader'[r].token <= completed
  <2>1. CASE WaitReturns(r)
    BY <2>1 DEF WaitReturns, WokenByDone, CursorCoversDone, TypeOK
  <2>2. CASE WaitTimesOut(r)
    BY <2>2 DEF WaitTimesOut, TypeOK
  <2>3. ASSUME NEW t \in -1 .. MaxTokens, WaitFor(r, t)
        PROVE  reader'[r].state \in {"ok", "raised", "seen"} => reader'[r].token <= completed
    BY <2>3 DEF WaitFor, Lookup, TypeOK
  <2> QED BY <2>1, <2>2, <2>3 DEF ReaderStep
<1>5. reader'[r].state \in {"ok", "raised", "seen"} =>
        /\ reader'[r].token < nextToken
        /\ \A u \in trains : u <= reader'[r].token => u \in done
  <2>1. SUFFICES ASSUME reader'[r].state \in {"ok", "raised", "seen"}
                 PROVE  /\ reader'[r].token < nextToken
                        /\ \A u \in trains : u <= reader'[r].token => u \in done
    OBVIOUS
  <2>2. reader'[r].token <= completed /\ reader'[r].token \in Int
    BY <1>4, <2>1, BoundsAssumption DEF TypeOK
  <2>3. reader'[r].token < nextToken
    BY <2>2, Numbers DEF TokensIssued
  <2>4. ASSUME NEW u \in trains, u <= reader'[r].token PROVE u \in done
    <3>1. u \in Int /\ completed \in Int
      BY Numbers
    <3>2. u <= completed
      BY <2>2, <2>4, <3>1
    <3> QED BY <3>1, <3>2 DEF OpenTrainingAhead
  <2> QED BY <2>3, <2>4
<1>6. TokensIssued'
  BY <1>2, <1>3, <1>5 DEF TokensIssued, Issued
<1>7. ReaderSeesTraining'
  BY <1>2, <1>3, <1>5 DEF ReaderSeesTraining
<1>8. TrainingBehindSmaller' /\ OpenTrainingAhead' /\ CursorCoversDone'
      /\ DrainResolvesTraining' /\ (drain' # "none" => ~accepting')
  BY <1>2 DEF TrainingBehindSmaller, OpenTrainingAhead, Held, CursorCoversDone,
              DrainResolvesTraining
<1> QED BY <1>6, <1>7, <1>8

\* Steps that touch none of the variables the invariant is about, other than
\* the drain's own position.
LEMMA QuietInv ==
    ASSUME QueueInv, TypeOK', drain' = "returned" => drain = "returned",
           drain' # "none" => ~accepting',
           UNCHANGED <<nextToken, trains, completed, pending, q, putters, woken,
                       done, current, reader>>
    PROVE  QueueInv'
BY DEF QueueInv, TokensIssued, Issued, TrainingBehindSmaller, OpenTrainingAhead, Held,
       CursorCoversDone, DrainResolvesTraining, ReaderSeesTraining

\* Every step keeps the invariant.
LEMMA InvStep == QueueInv /\ [Next]_vars => QueueInv'
<1> SUFFICES ASSUME QueueInv, [Next]_vars PROVE QueueInv'
  OBVIOUS
<1>0. TypeOK'
  BY TypeStep DEF QueueInv
<1>1. CASE TrySubmit
  BY <1>0, <1>1, TrySubmitInv
<1>2. CASE Submit
  BY <1>0, <1>2, SubmitInv
<1>3. CASE PutterResume
  BY <1>0, <1>3, PutterResumeInv
<1>4. CASE WorkerStart
  BY <1>0, <1>4, QuietInv
     DEF QueueInv, WorkerStart, entryVars, queueVars, taskVars, drainVars
<1>5. CASE WorkerPoll
  BY <1>0, <1>5, QuietInv
     DEF QueueInv, WorkerPoll, entryVars, queueVars, taskVars, drainVars
<1>6. CASE WorkerGet
  BY <1>0, <1>6, WorkerGetInv
<1>7. ASSUME NEW ok \in BOOLEAN, WorkerFinishes(ok) PROVE QueueInv'
  BY <1>0, <1>7, WorkerFinishesInv
<1>8. CASE Stop
  BY <1>0, <1>8, QuietInv DEF QueueInv, Stop, entryVars, queueVars, taskVars, workerVars
<1>9. CASE DrainCall
  <2>1. CASE Reap
    BY <1>0, <1>9, <2>1, ReapInv DEF DrainCall, queueVars, workerVars
  <2>2. CASE drain' = "draining" /\ UNCHANGED <<error, completed, done, pending>>
    BY <1>0, <1>9, <2>2, QuietInv DEF DrainCall, queueVars, workerVars
  <2> QED BY <1>9, <2>1, <2>2 DEF DrainCall
<1>10. CASE DrainDeadline
  BY <1>0, <1>10, QuietInv
     DEF QueueInv, DrainDeadline, DeadlineRanOut, entryVars, queueVars, taskVars, workerVars
<1>11. CASE DrainJoin
  BY <1>0, <1>11, ReapInv DEF QueueInv, DrainJoin, entryVars, queueVars, workerVars
<1>12. CASE GraceExpires
  BY <1>0, <1>12, ReapInv DEF QueueInv, GraceExpires, entryVars, queueVars, workerVars
<1>13. ASSUME NEW r \in Readers, ReaderStep(r) PROVE QueueInv'
  BY <1>0, <1>13, ReaderStepInv
<1>14. CASE UNCHANGED vars
  BY <1>0, <1>14, QuietInv
     DEF QueueInv, vars, entryVars, queueVars, taskVars, workerVars, drainVars
<1> QED
  BY <1>1, <1>2, <1>3, <1>4, <1>5, <1>6, <1>7, <1>8, <1>9, <1>10, <1>11, <1>12,
     <1>13, <1>14 DEF Next

\* The inductive invariant holds in every reachable state.
THEOREM Invariance == Spec => []QueueInv
<1> QED BY InvInit, InvStep, PTL DEF Spec


-----------------------------------------------------------------------------
(* What follows from the invariant. *)

\* The safety properties follow from the invariant.
LEMMA InvImpliesSafety ==
    ASSUME QueueInv
    PROVE  /\ TrainsCommitInOrder
           /\ EarlierTrainingFirst
           /\ PendingCoversTraining
<1> USE DEF QueueInv
<1>1. TrainsCommitInOrder
  BY Numbers DEF TrainsCommitInOrder, OpenTrainingAhead
<1>2. PendingCoversTraining
  BY DEF PendingCoversTraining, OpenTrainingAhead
<1>3. EarlierTrainingFirst
  <2>1. SUFFICES ASSUME NEW t \in done \cup ({current} \ {NoTask}), NEW u \in trains,
                        u < t, u \notin done
                 PROVE  FALSE
    BY DEF EarlierTrainingFirst
  <2>2. completed < u /\ Held(u) /\ u \in Int /\ t \in Int /\ completed \in Int
    BY <2>1, Numbers DEF OpenTrainingAhead
  <2>3. CASE t \in done
    BY <2>1, <2>2, <2>3 DEF CursorCoversDone
  <2>4. CASE t = current
    <3>1. PICK i \in DOMAIN q : q[i] = u
      BY <2>1, <2>2, <2>4 DEF Held
    <3>2. current < u
      BY <2>1, <3>1 DEF TrainingBehindSmaller
    <3> QED BY <2>1, <2>2, <2>4, <3>2
  <2> QED BY <2>1, <2>3, <2>4
<1> QED BY <1>1, <1>2, <1>3

\* The commit guarantee: when the cursor has reached a training token, that
\* step is resolved, for every depth and every mix of callers.
THEOREM CommitGuarantee == Spec => []TrainsCommitInOrder
<1>1. QueueInv => TrainsCommitInOrder
  BY InvImpliesSafety
<1> QED BY <1>1, Invariance, PTL

\* No handler starts while training submitted before its task is unresolved.
THEOREM TrainingComesFirst == Spec => []EarlierTrainingFirst
<1>1. QueueInv => EarlierTrainingFirst
  BY InvImpliesSafety
<1> QED BY <1>1, Invariance, PTL

\* Unresolved training never leaves _pending.
THEOREM TrainingStaysPending == Spec => []PendingCoversTraining
<1>1. QueueInv => PendingCoversTraining
  BY InvImpliesSafety
<1> QED BY <1>1, Invariance, PTL

\* A wait_for that returned saw all training up to its token resolved.
THEOREM ReadersSeeTraining == Spec => []ReaderSeesTraining
<1>1. QueueInv => ReaderSeesTraining
  BY DEF QueueInv
<1> QED BY <1>1, Invariance, PTL

\* After a drain no training is unresolved, and none arrives later.
THEOREM DrainCompletesTraining == Spec => []DrainResolvesTraining
<1>1. QueueInv => DrainResolvesTraining
  BY DEF QueueInv
<1> QED BY <1>1, Invariance, PTL

-----------------------------------------------------------------------------
(* Steps. *)

\* No step moves the cursor back or forgets a resolved task.
LEMMA ProgressStep ==
    ASSUME QueueInv, Next
    PROVE  completed' >= completed /\ done \subseteq done'
<1> USE DEF QueueInv
<1>0. /\ completed \in Int
      /\ UNCHANGED <<completed, done>> => completed' >= completed /\ done \subseteq done'
  BY Numbers
<1>1. CASE TrySubmit \/ Submit
  BY <1>0, <1>1 DEF TrySubmit, Submit, Issue, taskVars
<1>2. CASE PutterResume \/ WorkerStart \/ WorkerPoll \/ WorkerGet
  BY <1>0, <1>2 DEF PutterResume, WorkerStart, WorkerPoll, WorkerGet, taskVars
<1>3. ASSUME NEW ok \in BOOLEAN, WorkerFinishes(ok)
      PROVE  completed' >= completed /\ done \subseteq done'
  BY <1>3, Numbers DEF WorkerFinishes, Cursor
<1>4. CASE Stop \/ DrainDeadline
  BY <1>0, <1>4 DEF Stop, DrainDeadline, DeadlineRanOut, taskVars
<1>5. CASE Reap
  <2>1. TypeOK' => completed' \in Int
    BY BoundsAssumption DEF TypeOK
  <2>2. TypeOK'
    BY TypeStep
  <2> QED BY <1>0, <1>5, <2>1, <2>2, ReapResolves
<1>6. CASE DrainCall \/ DrainJoin \/ GraceExpires
  BY <1>0, <1>5, <1>6 DEF DrainCall, DrainJoin, GraceExpires
<1>7. ASSUME NEW r \in Readers, ReaderStep(r)
      PROVE  completed' >= completed /\ done \subseteq done'
  BY <1>0, <1>7 DEF ReaderStep, WaitFor, WaitReturns, WaitTimesOut, taskVars
<1> QED BY <1>1, <1>2, <1>3, <1>4, <1>6, <1>7 DEF Next

\* The cursor never moves back and a resolved task stays resolved.
THEOREM ProgressKept == Spec => ProgressIsKept
<1>1. QueueInv /\ [Next]_vars => [completed' >= completed /\ done \subseteq done']_vars
  BY ProgressStep
<1> QED BY <1>1, Invariance, PTL DEF Spec, ProgressIsKept

\* Without admin callers every token is a training token.
LEMMA NoAdminStep ==
    ASSUME "admin" \notin Ops, TypeOK, trains = Issued, [Next]_vars
    PROVE  trains' = Issued'
<1>1. CASE TrySubmit
  BY <1>1 DEF TrySubmit, Issue, Issued, TypeOK
<1>2. CASE UNCHANGED <<nextToken, trains>>
  BY <1>2 DEF Issued
<1> QED
  BY <1>1, <1>2
     DEF Next, Submit, PutterResume, WorkerStart, WorkerPoll, WorkerGet, WorkerFinishes,
         Stop, DrainCall, DrainDeadline, DrainJoin, GraceExpires, ReaderStep, WaitFor,
         WaitReturns, WaitTimesOut, entryVars, vars

\* Without work that waits for room, the cursor covers every token below it.
\* The run with merges shows that the hypothesis is needed.
THEOREM PrefixWithoutAdmin ==
    ASSUME "admin" \notin Ops PROVE Spec => []CursorCoversPrefix
<1>1. Init => trains = Issued
  BY DEF Init, Issued
<1>2. QueueInv /\ trains = Issued /\ [Next]_vars => (trains = Issued)'
  BY NoAdminStep DEF QueueInv
<1>3. QueueInv /\ trains = Issued => CursorCoversPrefix
  <2> SUFFICES ASSUME QueueInv, trains = Issued, NEW t \in 0 .. completed
               PROVE  t \in done
    BY DEF CursorCoversPrefix
  <2>1. t \in Issued /\ t <= completed
    BY Numbers DEF Issued, QueueInv, TokensIssued
  <2> QED BY <2>1, InvImpliesSafety DEF TrainsCommitInOrder
<1> QED BY <1>1, <1>2, <1>3, Invariance, PTL DEF Spec

-----------------------------------------------------------------------------
(* What a task came to. *)

\* A resolved task without an error was applied, and who was told ok was told so.
Outcomes ==
    /\ \A t \in done : error[t] = "none" => t \in applied
    /\ OkMeansApplied

\* A reap changes the outcome of nothing that was resolved before.
LEMMA ReapKeepsOutcomes ==
    ASSUME TypeOK, Outcomes, Reap, UNCHANGED <<applied, reader>>
    PROVE  Outcomes'
<1>1. /\ done' = done \cup Dropped /\ Dropped \subseteq Token /\ done \subseteq Token
      /\ \A t \in Token : error'[t] = IF t \in Dropped THEN "dropped" ELSE error[t]
  BY DEF Reap, Dropped, TypeOK
<1>2. \A t \in done' : error'[t] = "none" => t \in applied'
  BY <1>1 DEF Outcomes
<1> QED BY <1>2 DEF Outcomes, OkMeansApplied

LEMMA OutcomesStep ==
    ASSUME TypeOK, Outcomes, [Next]_vars PROVE Outcomes'
<1>1. CASE UNCHANGED <<done, error, applied, reader>>
  BY <1>1 DEF Outcomes, OkMeansApplied
<1>2. CASE TrySubmit \/ Submit \/ PutterResume \/ WorkerStart \/ WorkerPoll \/ WorkerGet
           \/ Stop \/ DrainDeadline \/ UNCHANGED vars
  BY <1>1, <1>2 DEF TrySubmit, Submit, Issue, PutterResume, WorkerStart, WorkerPoll, WorkerGet,
                    Stop, DrainDeadline, taskVars, vars
<1>3. ASSUME NEW ok \in BOOLEAN, WorkerFinishes(ok) PROVE Outcomes'
  <2>1. current \in Token /\ done' = done \cup {current} /\ reader' = reader
    BY <1>3 DEF WorkerFinishes, TypeOK
  <2>2. CASE ok
    <3>1. applied' = applied \cup {current} /\ error' = error
      BY <1>3, <2>2 DEF WorkerFinishes
    <3> QED BY <2>1, <3>1 DEF Outcomes, OkMeansApplied
  <2>3. CASE ~ok
    <3>1. applied' = applied /\ error' = [error EXCEPT ![current] = "failed"]
      BY <1>3, <2>3 DEF WorkerFinishes
    <3>2. /\ error'[current] = "failed"
          /\ \A t \in Token : t # current => error'[t] = error[t]
      BY <2>1, <3>1 DEF TypeOK
    <3> QED BY <2>1, <3>1, <3>2 DEF Outcomes, OkMeansApplied, TypeOK
  <2> QED BY <2>2, <2>3
<1>4. CASE DrainCall
  <2>1. UNCHANGED <<applied, reader>> /\ (Reap \/ UNCHANGED <<done, error>>)
    BY <1>4 DEF DrainCall
  <2> QED BY <1>1, <2>1, ReapKeepsOutcomes
<1>5. CASE DrainJoin \/ GraceExpires
  BY <1>5, ReapKeepsOutcomes DEF DrainJoin, GraceExpires
<1>6. ASSUME NEW r \in Readers, ReaderStep(r) PROVE Outcomes'
  <2>1. UNCHANGED <<done, error, applied>>
    BY <1>6 DEF ReaderStep, WaitFor, WaitReturns, WaitTimesOut, taskVars
  <2>2. \A s \in Readers \ {r} : reader'[s] = reader[s]
    BY <1>6 DEF ReaderStep, WaitFor, WaitReturns, WaitTimesOut, TypeOK
  <2>3. reader'[r].state = "ok" => reader'[r].token \in done /\ error[reader'[r].token] = "none"
    <3>1. CASE WaitReturns(r)
      BY <3>1 DEF WaitReturns, WokenByDone, TypeOK
    <3>2. CASE WaitTimesOut(r)
      BY <3>2 DEF WaitTimesOut, TypeOK
    <3>3. ASSUME NEW t \in -1 .. MaxTokens, WaitFor(r, t) PROVE reader'[r].state # "ok"
      BY <3>3 DEF WaitFor, Lookup, TypeOK
    <3> QED BY <1>6, <3>1, <3>2, <3>3 DEF ReaderStep
  <2> QED BY <2>1, <2>2, <2>3 DEF Outcomes, OkMeansApplied
<1> QED BY <1>2, <1>3, <1>4, <1>5, <1>6 DEF Next

\* Whoever was handed a result was handed that of a task that ran to its end.
THEOREM ResultsAreReal == Spec => []OkMeansApplied
<1>1. Init => Outcomes
  BY DEF Init, Outcomes, OkMeansApplied
<1>2. TypeOK /\ Outcomes /\ [Next]_vars => Outcomes'
  BY OutcomesStep
<1>3. Outcomes => OkMeansApplied
  BY DEF Outcomes
<1> QED BY TypeCorrect, <1>1, <1>2, <1>3, PTL DEF Spec

\* Tasks that were reported as dropped and applied all the same.
Contradicted == {t \in applied : error[t] = "dropped"}

\* Nothing is dropped before the last drain is back; then the worker has left,
\* or was left alone, has been told to stop, and can finish one task at most.
DropInv ==
    /\ applied \subseteq done
    /\ \A t \in Token : error[t] = "dropped" => drain = "returned"
    /\ drain = "returned" => overrun \/ phase \in {"new", "exited"}
    /\ overrun => drain = "returned"
    /\ overrun \/ drain = "grace" => hardStop
    /\ ~overrun \/ phase # "exited" => Contradicted = {}
    /\ \A t, u \in Contradicted : t = u

\* A reap drops nothing that was applied.
LEMMA ReapContradictsNothing ==
    ASSUME TypeOK, DropInv, Reap, applied' = applied
    PROVE  Contradicted' = Contradicted /\ applied' \subseteq done'
<1>1. /\ done' = done \cup Dropped
      /\ \A t \in Token : error'[t] = IF t \in Dropped THEN "dropped" ELSE error[t]
  BY DEF Reap
<1>2. \A t \in applied : t \notin Dropped /\ t \in Token
  BY DEF DropInv, Dropped, TypeOK
<1> QED BY <1>1, <1>2 DEF Contradicted, DropInv

LEMMA DropStep ==
    ASSUME TypeOK, DropInv, [Next]_vars PROVE DropInv'
<1>1. CASE UNCHANGED <<done, error, applied, drain, overrun, hardStop, phase>>
  BY <1>1 DEF DropInv, Contradicted
<1>2. CASE TrySubmit \/ Submit \/ PutterResume \/ Stop \/ UNCHANGED vars
           \/ \E r \in Readers : ReaderStep(r)
  BY <1>1, <1>2 DEF TrySubmit, Submit, Issue, PutterResume, Stop, ReaderStep, WaitFor,
                    WaitReturns, WaitTimesOut, taskVars, workerVars, drainVars, vars
<1>3. CASE WorkerStart \/ WorkerPoll \/ WorkerGet
  <2>1. UNCHANGED <<done, error, applied, drain, overrun, hardStop>>
    BY <1>3 DEF WorkerStart, WorkerPoll, WorkerGet, taskVars, drainVars
  <2>2. phase # "exited" /\ (phase = "new" => drain = "none")
    BY <1>3 DEF WorkerStart, WorkerPoll, WorkerGet
  <2> QED BY <2>1, <2>2 DEF DropInv, Contradicted
<1>4. ASSUME NEW ok \in BOOLEAN, WorkerFinishes(ok) PROVE DropInv'
  <2>1. /\ current \in Token /\ phase = "busy" /\ phase' = LoopTop
        /\ done' = done \cup {current} /\ UNCHANGED <<drain, overrun, hardStop>>
    BY <1>4 DEF WorkerFinishes, TypeOK, drainVars
  <2>2. /\ applied' \subseteq applied \cup {current}
        /\ \A t \in Token : error'[t] = "dropped" => error[t] = "dropped"
    BY <1>4, <2>1 DEF WorkerFinishes, TypeOK
  <2>3. Contradicted = {}
    BY <2>1 DEF DropInv
  <2>4. Contradicted' \subseteq {current}
    BY <2>2, <2>3 DEF Contradicted, TypeOK
  <2>5. CASE overrun
    BY <2>1, <2>2, <2>4, <2>5 DEF DropInv, LoopTop
  <2>6. CASE ~overrun
    <3>1. drain # "returned"
      BY <2>1, <2>6 DEF DropInv
    <3>2. \A t \in Token : error'[t] # "dropped"
      BY <2>2, <3>1 DEF DropInv
    <3>3. Contradicted' = {}
      BY <2>2, <3>2, <2>1 DEF Contradicted, TypeOK
    <3> QED BY <2>1, <2>2, <2>6, <3>1, <3>2, <3>3 DEF DropInv
  <2> QED BY <2>5, <2>6
<1>5. CASE DrainDeadline
  BY <1>5 DEF DrainDeadline, DeadlineRanOut, DropInv, Contradicted, taskVars, workerVars
<1>6. CASE DrainCall /\ NoWorker
  <2>1. /\ Reap /\ drain' = "returned"
        /\ UNCHANGED <<applied, phase, hardStop, overrun>>
    BY <1>6 DEF DrainCall, workerVars
  <2> QED BY <1>6, <2>1, ReapContradictsNothing DEF DropInv, NoWorker
<1>7. CASE DrainCall /\ ~NoWorker
  <2>1. /\ drain = "none" /\ drain' = "draining"
        /\ UNCHANGED <<done, error, applied, phase, hardStop, overrun>>
    BY <1>7 DEF DrainCall, NoWorker, workerVars
  <2> QED BY <2>1 DEF DropInv, Contradicted
<1>8. CASE DrainJoin
  <2>1. /\ Reap /\ drain' = "returned" /\ phase = "exited"
        /\ UNCHANGED <<applied, phase, hardStop, overrun>>
    BY <1>8 DEF DrainJoin, workerVars
  <2> QED BY <2>1, ReapContradictsNothing DEF DropInv
<1>9. CASE GraceExpires
  <2>1. /\ Reap /\ drain = "grace" /\ drain' = "returned" /\ overrun' /\ phase # "exited"
        /\ UNCHANGED <<applied, phase, hardStop>>
    BY <1>9 DEF GraceExpires, workerVars
  <2>2. hardStop
    BY <2>1 DEF DropInv
  <2> QED BY <2>1, <2>2, ReapContradictsNothing DEF DropInv
<1> QED BY <1>2, <1>3, <1>4, <1>5, <1>6, <1>7, <1>8, <1>9 DEF Next

\* A caller that was told its work was dropped can believe it, but for the one
\* task the worker had in hand when the grace period of a drain ran out.
THEOREM DropsAreFinal == Spec => []DropIsFinal
<1>1. Init => DropInv
  BY DEF Init, DropInv, Contradicted
<1>2. TypeOK /\ DropInv /\ [Next]_vars => DropInv'
  BY DropStep
<1>3. DropInv => DropIsFinal
  <2> SUFFICES ASSUME DropInv PROVE DropIsFinal
    OBVIOUS
  <2>1. CASE Contradicted = {}
    BY <2>1, FS_EmptySet DEF DropIsFinal, Contradicted
  <2>2. CASE Contradicted # {}
    <3>1. PICK t \in Contradicted : TRUE
      BY <2>2
    <3>2. Contradicted = {t} /\ overrun
      BY <2>2, <3>1 DEF DropInv
    <3>3. Cardinality(Contradicted) = 1
      BY <3>2, FS_Singleton
    <3> QED BY <3>2, <3>3 DEF DropIsFinal, Contradicted
  <2> QED BY <2>1, <2>2
<1> QED BY TypeCorrect, <1>1, <1>2, <1>3, PTL DEF Spec

-----------------------------------------------------------------------------
(* Once. *)

Members(s) == {s[i] : i \in DOMAIN s}
Once(s) == \A i, j \in DOMAIN s : s[i] = s[j] => i = j

\* Tasks whose handler came to its end.
Handled == {t \in Token : t \in applied \/ error[t] = "failed"}
InHand == {current} \ {NoTask}

\* A task is in one place at a time, and in none when it was handled.
OnePlace ==
    /\ Once(q) /\ Once(putters) /\ Once(woken)
    /\ Members(q) \cap Members(putters) = {} /\ Members(q) \cap Members(woken) = {}
    /\ Members(putters) \cap Members(woken) = {}
    /\ (InHand \cup Handled) \cap (Members(q) \cup Members(putters) \cup Members(woken)) = {}
    /\ InHand \cap Handled = {}
    /\ Handled \subseteq done

LEMMA MembersAppend ==
    ASSUME NEW S, NEW s \in Seq(S), NEW e
    PROVE  /\ Members(Append(s, e)) = Members(s) \cup {e}
           /\ Once(s) /\ e \notin Members(s) => Once(Append(s, e))
<1> DEFINE z == Append(s, e)
<1>1. /\ Len(s) \in Nat /\ DOMAIN s = 1 .. Len(s) /\ DOMAIN z = 1 .. Len(s) + 1
      /\ \A i \in 1 .. Len(s) : z[i] = s[i]
      /\ z[Len(s) + 1] = e
  BY AppendFacts
<1> HIDE DEF z
<1>2. \A i \in DOMAIN z : i \in 1 .. Len(s) \/ i = Len(s) + 1
  BY <1>1
<1>3. Members(z) = Members(s) \cup {e}
  <2>1. \A x : x \in Members(z) => x \in Members(s) \cup {e}
    BY <1>1, <1>2 DEF Members
  <2>2. e \in Members(z)
    BY <1>1 DEF Members
  <2>3. \A i \in DOMAIN s : i \in DOMAIN z /\ z[i] = s[i]
    BY <1>1
  <2>4. Members(s) \subseteq Members(z)
    BY <2>3 DEF Members
  <2> QED BY <2>1, <2>2, <2>4
<1>4. ASSUME Once(s), e \notin Members(s) PROVE Once(z)
  <2>1. \A i \in 1 .. Len(s) : z[i] # e
    BY <1>1, <1>4 DEF Members
  <2>2. \A i, j \in 1 .. Len(s) : z[i] = z[j] => i = j
    BY <1>1, <1>4 DEF Once
  <2> QED BY <1>1, <1>2, <2>1, <2>2 DEF Once
<1> QED BY <1>3, <1>4 DEF z

LEMMA MembersTail ==
    ASSUME NEW S, NEW s \in Seq(S), s # <<>>
    PROVE  /\ Head(s) \in Members(s) /\ Members(Tail(s)) \subseteq Members(s)
           /\ Once(s) => Once(Tail(s)) /\ Head(s) \notin Members(Tail(s))
<1> DEFINE z == Tail(s)
<1>1. /\ Len(s) \in Nat \ {0} /\ DOMAIN s = 1 .. Len(s) /\ Head(s) = s[1]
      /\ DOMAIN z = 1 .. Len(s) - 1 /\ \A i \in 1 .. Len(s) - 1 : z[i] = s[i + 1]
  BY TailFacts
<1> HIDE DEF z
<1>2. \A i \in DOMAIN z : i + 1 \in DOMAIN s /\ i + 1 # 1 /\ z[i] = s[i + 1] /\ i \in Int
  BY <1>1
<1>3. 1 \in DOMAIN s
  BY <1>1
<1>4. Head(s) \in Members(s) /\ Members(z) \subseteq Members(s)
  BY <1>1, <1>2, <1>3 DEF Members
<1>5. ASSUME Once(s) PROVE Once(z) /\ Head(s) \notin Members(z)
  <2>1. ASSUME NEW i \in DOMAIN z, NEW j \in DOMAIN z, z[i] = z[j] PROVE i = j
    <3>1. i + 1 = j + 1
      BY <1>2, <1>5, <2>1 DEF Once
    <3> QED BY <1>2, <3>1
  <2>2. \A i \in DOMAIN z : z[i] # Head(s)
    BY <1>1, <1>2, <1>3, <1>5 DEF Once
  <2> QED BY <2>1, <2>2 DEF Once, Members
<1> QED BY <1>4, <1>5 DEF z

\* All that is in sight was issued.
LEMMA PlacesIssued ==
    ASSUME QueueInv
    PROVE  /\ Members(q) \subseteq Issued /\ Members(putters) \subseteq Issued
           /\ Members(woken) \subseteq Issued /\ InHand \subseteq Issued /\ done \subseteq Issued
           /\ nextToken \notin Issued
<1>1. /\ q \in Seq(Issued) /\ putters \in Seq(Issued) /\ woken \in Seq(Issued)
      /\ current \in Issued \cup {NoTask} /\ done \subseteq Issued
  <2>1. putters \in Seq(Issued \ trains) /\ woken \in Seq(Issued \ trains)
    BY DEF QueueInv, TokensIssued
  <2> QED BY <2>1, SeqGrows DEF QueueInv, TokensIssued
<1>2. \A s \in Seq(Issued) : Members(s) \subseteq Issued
  BY DEF Members
<1>3. nextToken \notin Issued
  BY Numbers DEF QueueInv, Issued
<1> QED BY <1>1, <1>2, <1>3 DEF InHand

LEMMA OnePlaceStep ==
    ASSUME QueueInv, OnePlace, [Next]_vars PROVE OnePlace'
<1>0. /\ q \in Seq(Token) /\ putters \in Seq(Token) /\ woken \in Seq(Token)
      /\ NoTask \notin Token /\ TypeOK
  BY Numbers, TokenFacts DEF QueueInv
<1>1. CASE UNCHANGED <<queueVars, current, done, error, applied>>
  BY <1>1 DEF OnePlace, Handled, InHand, Members, Once, queueVars
<1>2. ASSUME Issue, woken' = woken,
             \/ q' = Append(q, nextToken) /\ putters' = putters
             \/ q' = q /\ putters' = Append(putters, nextToken)
      PROVE  OnePlace'
  <2>1. UNCHANGED <<current, done, error, applied>>
    BY <1>2 DEF Issue, taskVars, workerVars
  <2>2. InHand' = InHand /\ Handled' = Handled
    BY <2>1 DEF InHand, Handled
  <2>3. /\ nextToken \notin Members(q) \cup Members(putters) \cup Members(woken) \cup InHand
        /\ nextToken \notin Handled
    BY PlacesIssued DEF OnePlace
  <2>4. CASE q' = Append(q, nextToken) /\ putters' = putters
    <3>1. Members(q)' = Members(q) \cup {nextToken} /\ Once(q)'
      BY <1>0, <2>3, <2>4, MembersAppend DEF OnePlace
    <3>2. /\ Members(putters)' = Members(putters) /\ Members(woken)' = Members(woken)
          /\ Once(putters)' /\ Once(woken)'
      BY <1>2, <2>4 DEF OnePlace, Members, Once
    <3> QED BY <2>1, <2>2, <2>3, <3>1, <3>2 DEF OnePlace
  <2>5. CASE q' = q /\ putters' = Append(putters, nextToken)
    <3>1. Members(putters)' = Members(putters) \cup {nextToken} /\ Once(putters)'
      BY <1>0, <2>3, <2>5, MembersAppend DEF OnePlace
    <3>2. /\ Members(q)' = Members(q) /\ Members(woken)' = Members(woken)
          /\ Once(q)' /\ Once(woken)'
      BY <1>2, <2>5 DEF OnePlace, Members, Once
    <3> QED BY <2>1, <2>2, <2>3, <3>1, <3>2 DEF OnePlace
  <2> QED BY <1>2, <2>4, <2>5
<1>3. CASE TrySubmit \/ Submit
  <2>1. Issue /\ woken' = woken
    BY <1>3 DEF TrySubmit, Submit
  <2>2. \/ q' = Append(q, nextToken) /\ putters' = putters
        \/ q' = q /\ putters' = Append(putters, nextToken)
    BY <1>3 DEF TrySubmit, Submit, Enqueued
  <2> QED BY <1>2, <2>1, <2>2
<1>4. CASE PutterResume
  <2> DEFINE h == Head(woken)
  <2>1. /\ woken # <<>> /\ woken' = Tail(woken)
        /\ UNCHANGED <<current, done, error, applied>>
        /\ \/ q' = Append(q, h) /\ putters' = putters
           \/ q' = q /\ putters' = Append(putters, h)
    BY <1>4 DEF PutterResume, Enqueued, taskVars, workerVars
  <2>2. InHand' = InHand /\ Handled' = Handled
    BY <2>1 DEF InHand, Handled
  <2>3. /\ h \in Members(woken) /\ h \notin Members(woken)' /\ Once(woken)'
        /\ Members(woken)' \subseteq Members(woken)
    BY <1>0, <2>1, MembersTail DEF OnePlace
  <2>4. h \notin Members(q) \cup Members(putters) \cup InHand \cup Handled
    BY <2>3 DEF OnePlace
  <2> HIDE DEF h
  <2>5. CASE q' = Append(q, h) /\ putters' = putters
    <3>1. Members(q)' = Members(q) \cup {h} /\ Once(q)'
      BY <1>0, <2>4, <2>5, MembersAppend DEF OnePlace
    <3>2. Members(putters)' = Members(putters) /\ Once(putters)'
      BY <2>5 DEF OnePlace, Members, Once
    <3> QED BY <2>1, <2>2, <2>3, <2>4, <3>1, <3>2 DEF OnePlace
  <2>6. CASE q' = q /\ putters' = Append(putters, h)
    <3>1. Members(putters)' = Members(putters) \cup {h} /\ Once(putters)'
      BY <1>0, <2>4, <2>6, MembersAppend DEF OnePlace
    <3>2. Members(q)' = Members(q) /\ Once(q)'
      BY <2>6 DEF OnePlace, Members, Once
    <3> QED BY <2>1, <2>2, <2>3, <2>4, <3>1, <3>2 DEF OnePlace
  <2> QED BY <2>1, <2>5, <2>6
<1>5. CASE WorkerGet
  <2>1. /\ q # <<>> /\ current' = Head(q) /\ q' = Tail(q)
        /\ UNCHANGED <<done, error, applied>>
        /\ putters = <<>> => UNCHANGED <<putters, woken>>
        /\ putters # <<>> => putters' = Tail(putters) /\ woken' = Append(woken, Head(putters))
    BY <1>5 DEF WorkerGet, taskVars
  <2>2. /\ Head(q) \in Members(q) /\ Head(q) \notin Members(q)' /\ Once(q)'
        /\ Members(q)' \subseteq Members(q)
    BY <1>0, <2>1, MembersTail DEF OnePlace
  <2>3. Handled' = Handled /\ InHand' \subseteq {Head(q)}
    BY <2>1 DEF Handled, InHand
  <2>4. CASE putters = <<>>
    <3>1. /\ Members(putters)' = Members(putters) /\ Members(woken)' = Members(woken)
          /\ Once(putters)' /\ Once(woken)'
      <4>1. putters' = putters /\ woken' = woken
        BY <2>1, <2>4
      <4> QED BY <4>1 DEF OnePlace, Members, Once
    <3> QED BY <2>1, <2>2, <2>3, <3>1 DEF OnePlace
  <2>5. CASE putters # <<>>
    <3> DEFINE h == Head(putters)
    <3>1. /\ h \in Members(putters) /\ h \notin Members(putters)' /\ Once(putters)'
          /\ Members(putters)' \subseteq Members(putters)
      <4>1. putters' = Tail(putters)
        BY <2>1, <2>5
      <4> QED BY <1>0, <2>5, <4>1, MembersTail DEF OnePlace
    <3>2. h \notin Members(q) \cup Members(woken) \cup InHand \cup Handled
      BY <3>1 DEF OnePlace
    <3>3. Members(woken)' = Members(woken) \cup {h} /\ Once(woken)'
      <4>1. woken' = Append(woken, h)
        BY <2>1, <2>5
      <4> QED BY <1>0, <3>2, <4>1, MembersAppend DEF OnePlace
    <3> HIDE DEF h
    <3> QED BY <2>1, <2>2, <2>3, <3>1, <3>2, <3>3 DEF OnePlace
  <2> QED BY <2>4, <2>5
<1>6. ASSUME NEW ok \in BOOLEAN, WorkerFinishes(ok) PROVE OnePlace'
  <2>1. /\ current \in Token /\ current' = NoTask /\ done' = done \cup {current}
        /\ UNCHANGED <<q, putters, woken>>
    BY <1>0, <1>6 DEF WorkerFinishes, TypeOK, queueVars
  <2>2. \/ applied' = applied \cup {current} /\ error' = error
        \/ applied' = applied /\ error' = [error EXCEPT ![current] = "failed"]
    BY <1>6 DEF WorkerFinishes
  <2>3. Handled' = Handled \cup {current}
    BY <1>0, <2>1, <2>2 DEF Handled, TypeOK
  <2>4. /\ Members(q)' = Members(q) /\ Members(putters)' = Members(putters)
        /\ Members(woken)' = Members(woken) /\ Once(q)' /\ Once(putters)' /\ Once(woken)'
    BY <2>1 DEF OnePlace, Members, Once
  <2>5. InHand = {current} /\ InHand' = {}
    BY <1>0, <2>1 DEF InHand
  <2> QED BY <2>1, <2>3, <2>4, <2>5 DEF OnePlace
<1>7. ASSUME Reap, UNCHANGED <<queueVars, current, applied>> PROVE OnePlace'
  <2>1. /\ done' = done \cup Dropped
        /\ \A t \in Token : error'[t] = IF t \in Dropped THEN "dropped" ELSE error[t]
    BY <1>7 DEF Reap
  <2>2. Handled' = Handled
    BY <1>7, <2>1 DEF Handled, OnePlace, Dropped
  <2>3. /\ Members(q)' = Members(q) /\ Members(putters)' = Members(putters)
        /\ Members(woken)' = Members(woken) /\ Once(q)' /\ Once(putters)' /\ Once(woken)'
        /\ InHand' = InHand
    BY <1>7 DEF OnePlace, Members, Once, InHand, queueVars
  <2> QED BY <2>1, <2>2, <2>3 DEF OnePlace
<1>8. CASE DrainCall
  <2>1. UNCHANGED <<queueVars, current, applied>> /\ (Reap \/ UNCHANGED <<done, error>>)
    BY <1>8 DEF DrainCall, workerVars
  <2> QED BY <1>1, <1>7, <2>1
<1>9. CASE DrainJoin \/ GraceExpires
  BY <1>7, <1>9 DEF DrainJoin, GraceExpires, workerVars
<1>10. CASE WorkerStart \/ WorkerPoll \/ Stop \/ DrainDeadline \/ UNCHANGED vars
            \/ \E r \in Readers : ReaderStep(r)
  BY <1>1, <1>10 DEF WorkerStart, WorkerPoll, Stop, DrainDeadline, ReaderStep, WaitFor,
                     WaitReturns, WaitTimesOut, taskVars, workerVars, vars
<1> QED BY <1>3, <1>4, <1>5, <1>6, <1>8, <1>9, <1>10 DEF Next

\* Until a drain is back only the worker resolves.
LEMMA ResolvedWasHandled ==
    ASSUME TypeOK, Outcomes, DropInv, drain # "returned" PROVE done \subseteq Handled
BY DEF TypeOK, Outcomes, DropInv, Handled

\* A train step is run once, for any number of suspended puts, failed handlers,
\* stops and drains (queue.py:157-180).
THEOREM NothingRunsTwice == Spec => HandledOnce
<1> DEFINE I == QueueInv /\ TypeOK /\ Outcomes /\ DropInv /\ OnePlace
<1> DEFINE A == \A t \in Token : current' = t /\ current # t =>
                  /\ t \notin applied /\ error[t] # "failed"
                  /\ t \in done => overrun
<1>1. Init => OnePlace
  BY DEF Init, OnePlace, Members, Once, Handled, InHand
<1>2. QueueInv /\ OnePlace /\ [Next]_vars => OnePlace'
  BY OnePlaceStep
<1>3. I /\ [Next]_vars => [A]_vars
  <2> SUFFICES ASSUME I, Next, NEW t \in Token, current' = t, current # t
               PROVE  t \notin applied /\ error[t] # "failed" /\ (t \in done => overrun)
    OBVIOUS
  <2>1. WorkerGet
    <3>1. t # NoTask
      BY TokenFacts
    <3> QED
      BY <3>1 DEF Next, TrySubmit, Submit, Issue, PutterResume, WorkerStart, WorkerPoll,
                  WorkerFinishes, Stop, DrainCall, DrainDeadline, DrainJoin, GraceExpires,
                  ReaderStep, WaitFor, WaitReturns, WaitTimesOut, workerVars
  <2>2. t \in Members(q)
    BY <2>1, Numbers, MembersTail DEF WorkerGet
  <2>3. t \notin Handled
    BY <2>2 DEF OnePlace
  <2>4. phase = "getting"
    BY <2>1 DEF WorkerGet
  <2>5. t \in done => overrun
    <3>1. drain = "returned" => overrun
      BY <2>4 DEF DropInv
    <3> QED BY <2>3, <3>1, ResolvedWasHandled
  <2> QED BY <2>3, <2>5 DEF Handled
<1>4. Init => Outcomes /\ DropInv
  BY DEF Init, Outcomes, OkMeansApplied, DropInv, Contradicted
<1>5. TypeOK /\ Outcomes /\ DropInv /\ [Next]_vars => Outcomes' /\ DropInv'
  BY OutcomesStep, DropStep
<1> QED BY <1>1, <1>2, <1>3, <1>4, <1>5, TypeCorrect, Invariance, PTL DEF Spec, HandledOnce

\* Without admin work a drain that is back has left no task behind; the run with
\* merges shows that the hypothesis is needed (queue.py:178-180, 205-209).
THEOREM DrainCompletesAllWithoutAdmin ==
    ASSUME "admin" \notin Ops PROVE Spec => []DrainResolvesAll
<1>1. Init => trains = Issued
  BY DEF Init, Issued
<1>2. QueueInv /\ trains = Issued /\ [Next]_vars => (trains = Issued)'
  BY NoAdminStep DEF QueueInv
<1>3. QueueInv /\ trains = Issued => DrainResolvesAll
  BY DEF QueueInv, DrainResolvesTraining, DrainResolvesAll, Issued
<1> QED BY <1>1, <1>2, <1>3, Invariance, PTL DEF Spec

-----------------------------------------------------------------------------
(* Refinement. *)

\* Every step of the queue is a step of the abstract queue, or none.
LEMMA RefineStep ==
    ASSUME QueueInv, [Next]_vars
    PROVE  [Ordered!Next]_(Ordered!vars)
<1> USE DEF QueueInv
<1>0. CASE UNCHANGED <<trains, done, accepting>>
  BY <1>0 DEF Ordered!vars
<1>1. CASE TrySubmit
  <2>1. Issue /\ trains' = trains \cup {nextToken}
    BY <1>1 DEF TrySubmit
  <2>2. nextToken \in Token
    BY <2>1, TokenFacts DEF Issue, TypeOK
  <2>3. /\ accepting /\ accepting' = accepting /\ done' = done
        /\ nextToken \notin done /\ \A u \in trains : u < nextToken
    BY <2>1, IssueFacts DEF TokensIssued
  <2>4. Ordered!HandOut(nextToken)
    BY <2>1, <2>3 DEF Ordered!HandOut
  <2> QED BY <2>2, <2>4 DEF Ordered!Next
<1>2. ASSUME NEW ok \in BOOLEAN, WorkerFinishes(ok) PROVE [Ordered!Next]_(Ordered!vars)
  <2>1. /\ trains' = trains /\ accepting' = accepting /\ done' = done \cup {current}
        /\ current \in Token
    BY <1>2 DEF WorkerFinishes, TypeOK, entryVars
  <2>2. CASE current \in trains \ done
    <3>1. ASSUME NEW u \in trains \ done PROVE current <= u
      <4>1. Held(u) /\ u \in Int
        BY Numbers DEF OpenTrainingAhead
      <4>2. CASE u = current
        BY <4>1, <4>2
      <4>3. ASSUME NEW i \in DOMAIN q, q[i] = u PROVE current <= u
        BY <4>1, <4>3, Numbers DEF TrainingBehindSmaller
      <4> QED BY <4>1, <4>2, <4>3 DEF Held
    <3>2. Ordered!Resolve(current)
      BY <2>1, <2>2, <3>1 DEF Ordered!Resolve
    <3> QED BY <2>1, <3>2 DEF Ordered!Next
  <2>3. CASE current \notin trains \ done
    BY <2>1, <2>3 DEF Ordered!vars
  <2> QED BY <2>2, <2>3
<1>3. CASE Reap /\ ~accepting' /\ trains' = trains
  <2>1. trains' \ done' = {}
    BY <1>3, ReapResolves
  <2>2. Ordered!DropRest
    BY <1>3, <2>1 DEF Ordered!DropRest
  <2> QED BY <2>2 DEF Ordered!Next
<1>4. CASE DrainCall
  <2>1. CASE UNCHANGED <<error, completed, done, pending>>
    <3>1. Ordered!Close
      BY <1>4, <2>1 DEF DrainCall, Ordered!Close
    <3> QED BY <3>1 DEF Ordered!Next
  <2> QED BY <1>3, <1>4, <2>1 DEF DrainCall
<1>5. CASE DrainJoin \/ GraceExpires
  BY <1>3, <1>5 DEF DrainJoin, GraceExpires, entryVars
<1>6. CASE Submit
  BY <1>0, <1>6 DEF Submit, Issue, taskVars
<1>7. CASE PutterResume \/ WorkerStart \/ WorkerPoll \/ WorkerGet \/ Stop \/ DrainDeadline
  BY <1>0, <1>7
     DEF PutterResume, WorkerStart, WorkerPoll, WorkerGet, Stop, DrainDeadline,
         entryVars, taskVars
<1>8. ASSUME NEW r \in Readers, ReaderStep(r) PROVE [Ordered!Next]_(Ordered!vars)
  BY <1>0, <1>8
     DEF ReaderStep, WaitFor, WaitReturns, WaitTimesOut, entryVars, taskVars
<1>9. CASE UNCHANGED vars
  BY <1>0, <1>9 DEF vars, entryVars, taskVars
<1> QED
  BY <1>1, <1>2, <1>4, <1>5, <1>6, <1>7, <1>8, <1>9 DEF Next

\* The queue does to training what OrderedCommit promises: one at a time, in
\* the order of the tokens, and the rest together when it closes.
THEOREM Refinement == Spec => OrderedSpec
<1>1. Init => Ordered!Init
  BY DEF Init, Ordered!Init
<1>2. QueueInv /\ [Next]_vars => [Ordered!Next]_(Ordered!vars)
  BY RefineStep
<1> QED BY <1>1, <1>2, Invariance, PTL DEF Spec, OrderedSpec, Ordered!Spec

=============================================================================
