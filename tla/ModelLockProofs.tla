--------------------------- MODULE ModelLockProofs ---------------------------
(***************************************************************************)
(* Proofs about ModelLock.  LockInv is the inductive invariant of the      *)
(* exclusion: who holds the lock is at work, and who is at work holds it.  *)
(* WireInv says of every answer what is still on its way to the client.    *)
(***************************************************************************)
EXTENDS ModelLock, SequenceTheorems, TLAPS

\* The converse of WorkIsApart: a lock that is held has a holder at work.
HolderWorks ==
    /\ \A c \in Chats : lock = c => pc[c] \in {"gen", "stuck"}
    /\ lock = Handler => at \in Locked

LockInv == LockType /\ HolderWorks /\ WorkIsApart

-----------------------------------------------------------------------------
(* Types. *)

LEMMA InitialLockType == LockInit => LockType
BY LockParties DEF LockInit, LockType, Requests, Kinds

\* A chunk or the end of the answer is put on the wire.
LEMMA WireGrows ==
    ASSUME LockType, NEW c \in Chats, NEW x \in 0..MaxChunks
    PROVE  [wire EXCEPT ![c] = Append(@, x)] \in [Chats -> Seq(0..MaxChunks)]
<1>1. wire[c] \in Seq(0..MaxChunks)
  BY DEF LockType
<1>2. Append(wire[c], x) \in Seq(0..MaxChunks)
  BY <1>1
<1> QED BY <1>2 DEF LockType

LEMMA LockTypeStep == LockType /\ [LockNext]_lockVars => LockType'
<1> SUFFICES ASSUME LockType, [LockNext]_lockVars PROVE LockType'
  OBVIOUS
<1> USE LockParties
<1>1. CASE UNCHANGED lockVars
  BY <1>1 DEF LockType, lockVars, chatVars
<1>2. CASE HandlerTakes
  BY <1>2 DEF HandlerTakes, LockType, chatVars, Locked
<1>3. CASE HandlerProgress
  BY <1>3 DEF HandlerProgress, TrainLocks, RankLocks, LockType, chatVars, Locked
<1>4. CASE HandlerStep
  <2>1. CASE SampleInside \/ SampleRestore \/ ReferenceBegins \/ ReferenceEnds
    BY <2>1 DEF SampleInside, SampleRestore, ReferenceBegins, ReferenceEnds, LockType, chatVars, Locked
  <2>2. CASE TrainRaises \/ RankEnds
    BY <2>2 DEF TrainRaises, RankEnds, LockType, chatVars, Locked
  <2>3. CASE Update
    BY <2>3 DEF Update, Disturb, Generating, LockType
  <2>4. CASE Rewrite
    BY <2>4 DEF Rewrite, Disturb, Generating, LockType
  <2> QED BY <1>4, <2>1, <2>2, <2>3, <2>4 DEF HandlerStep
<1>5. ASSUME NEW c \in Chats, ChatCalled(c) PROVE LockType'
  <2>1. ask' \in [Chats -> Requests]
    BY <1>5 DEF ChatCalled, LockType
  <2>2. wire' \in [Chats -> Seq(0..MaxChunks)] /\ got' \in [Chats -> Seq(0..MaxChunks)]
    <3>1. <<>> \in Seq(0..MaxChunks)
      OBVIOUS
    <3> QED BY <1>5, <3>1 DEF ChatCalled, LockType
  <2> QED BY <1>5, <2>1, <2>2 DEF ChatCalled, LockType
<1>6. ASSUME NEW c \in Chats, EnterContext(c) \/ LeaveContext(c) PROVE LockType'
  <2>1. ask[c].base \in BOOLEAN
    BY DEF LockType, Requests
  <2> QED BY <1>6, <2>1 DEF EnterContext, LeaveContext, LockType
<1>7. ASSUME NEW c \in Chats, EarlyFailure(c) \/ TakeLock(c) PROVE LockType'
  BY <1>7 DEF EarlyFailure, TakeLock, LockType
<1>8. ASSUME NEW c \in Chats, Chunk(c) PROVE LockType'
  <2>1. sent[c] + 1 \in 0..MaxChunks
    BY <1>8 DEF Chunk, LockType
  <2>2. wire' \in [Chats -> Seq(0..MaxChunks)]
    BY <1>8, <2>1, WireGrows DEF Chunk
  <2> QED BY <1>8, <2>1, <2>2 DEF Chunk, LockType
<1>9. ASSUME NEW c \in Chats, GenerationEnds(c) \/ GenerationRaises(c) PROVE LockType'
  <2>1. CASE GenerationEnds(c)
    BY <2>1 DEF GenerationEnds, LockType
  <2>2. CASE GenerationRaises(c)
    BY <2>2 DEF GenerationRaises, LockType
  <2> QED BY <1>9, <2>1, <2>2
<1>10. ASSUME NEW c \in Chats, HandOver(c) PROVE LockType'
  <2>1. wire' \in [Chats -> Seq(0..MaxChunks)]
    BY <1>10, WireGrows DEF HandOver, Done
  <2> QED BY <1>10, <2>1 DEF HandOver, LockType
<1>11. ASSUME NEW c \in Chats, Deliver(c) PROVE LockType'
  <2>1. /\ wire[c] \in Seq(0..MaxChunks) /\ got[c] \in Seq(0..MaxChunks)
        /\ wire[c] # <<>>
    BY <1>11 DEF Deliver, LockType
  <2>2. Tail(wire[c]) \in Seq(0..MaxChunks) /\ Head(wire[c]) \in 0..MaxChunks
    BY <2>1, HeadTailProperties
  <2>3. Append(got[c], Head(wire[c])) \in Seq(0..MaxChunks)
    BY <2>1, <2>2
  <2>4. wire' \in [Chats -> Seq(0..MaxChunks)]
    BY <1>11, <2>2 DEF Deliver, LockType
  <2>5. got' \in [Chats -> Seq(0..MaxChunks)]
    BY <1>11, <2>3 DEF Deliver, LockType
  <2>6. end' \in [Chats -> {"never", "open", "stop", "error", "gone"}]
    BY <1>11 DEF Deliver, LockType
  <2> QED BY <1>11, <2>4, <2>5, <2>6 DEF Deliver, LockType
<1>12. ASSUME NEW c \in Chats, Abandon(c) PROVE LockType'
  BY <1>12 DEF Abandon, LockType
<1> QED
  BY <1>1, <1>2, <1>3, <1>4, <1>5, <1>6, <1>7, <1>8, <1>9, <1>10, <1>11, <1>12
     DEF LockNext, ThreadProgress

\* Every state is well typed.
THEOREM LockTypeCorrect == LockSpec => []LockType
<1>1. LockInit => LockType
  BY InitialLockType
<1>2. LockType /\ [LockNext]_lockVars => LockType'
  BY LockTypeStep
<1> QED BY <1>1, <1>2, PTL DEF LockSpec

-----------------------------------------------------------------------------
(* Exclusion. *)

LEMMA InitialLockInv == LockInit => LockInv
<1> SUFFICES ASSUME LockInit PROVE HolderWorks /\ WorkIsApart
  BY InitialLockType DEF LockInv
<1> QED BY LockParties DEF LockInit, HolderWorks, WorkIsApart, Locked

LEMMA LockInvStep == LockInv /\ [LockNext]_lockVars => LockInv'
<1> SUFFICES ASSUME LockInv, [LockNext]_lockVars PROVE HolderWorks' /\ WorkIsApart'
  BY LockTypeStep DEF LockInv
<1> USE LockParties DEF LockInv, LockType, Locked, HolderWorks, WorkIsApart, ModeOf
<1>1. CASE UNCHANGED lockVars
  BY <1>1 DEF lockVars, chatVars
<1>2. CASE HandlerTakes
  BY <1>2 DEF HandlerTakes, chatVars
<1>3. CASE HandlerProgress
  BY <1>3 DEF HandlerProgress, TrainLocks, RankLocks, chatVars
<1>4. CASE HandlerStep
  <2>1. CASE SampleInside \/ SampleRestore \/ ReferenceBegins \/ ReferenceEnds
    BY <2>1 DEF SampleInside, SampleRestore, ReferenceBegins, ReferenceEnds, chatVars
  <2>2. CASE TrainRaises \/ RankEnds
    BY <2>2 DEF TrainRaises, RankEnds, chatVars
  <2>3. CASE Update
    \* The handler holds the lock, so that no chat is generating.
    <3>1. Generating = {}
      BY <2>3 DEF Update, Generating
    <3>2. moved' = moved
      BY <2>3, <3>1 DEF Update, Disturb
    <3> QED BY <2>3, <3>2 DEF Update
  <2>4. CASE Rewrite
    <3>1. \A c \in Chats : moved'[c] \subseteq {"rewrite"}
      BY <2>4 DEF Rewrite, Disturb
    <3> QED BY <2>4, <3>1 DEF Rewrite
  <2> QED BY <1>4, <2>1, <2>2, <2>3, <2>4 DEF HandlerStep
<1>5. ASSUME NEW c \in Chats, ChatCalled(c) PROVE HolderWorks' /\ WorkIsApart'
  BY <1>5 DEF ChatCalled
<1>6. ASSUME NEW c \in Chats, EnterContext(c) \/ LeaveContext(c) \/ EarlyFailure(c)
      PROVE HolderWorks' /\ WorkIsApart'
  BY <1>6 DEF EnterContext, LeaveContext, EarlyFailure
<1>7. ASSUME NEW c \in Chats, TakeLock(c) PROVE HolderWorks' /\ WorkIsApart'
  BY <1>7 DEF TakeLock
<1>8. ASSUME NEW c \in Chats, Chunk(c) \/ HandOver(c) \/ Deliver(c) \/ Abandon(c)
      PROVE HolderWorks' /\ WorkIsApart'
  BY <1>8 DEF Chunk, HandOver, Deliver, Abandon
<1>9. ASSUME NEW c \in Chats, GenerationEnds(c) PROVE HolderWorks' /\ WorkIsApart'
  BY <1>9 DEF GenerationEnds
<1>10. ASSUME NEW c \in Chats, GenerationRaises(c) PROVE HolderWorks' /\ WorkIsApart'
  BY <1>10 DEF GenerationRaises
<1> QED
  BY <1>1, <1>2, <1>3, <1>4, <1>5, <1>6, <1>7, <1>8, <1>9, <1>10 DEF LockNext, ThreadProgress

\* Whoever computes on the model holds the lock and finds it in its mode.
THEOREM WorkStaysApart == LockSpec => []WorkIsApart
<1>1. LockInit => LockInv
  BY InitialLockInv
<1>2. LockInv /\ [LockNext]_lockVars => LockInv'
  BY LockInvStep
<1>3. LockInv => WorkIsApart
  BY DEF LockInv
<1> QED BY <1>1, <1>2, <1>3, PTL DEF LockSpec

-----------------------------------------------------------------------------
(* The adapter. *)

LEMMA AdapterStep == LockType /\ AdapterComesBack /\ [LockNext]_lockVars => AdapterComesBack'
<1> SUFFICES ASSUME LockType, AdapterComesBack, [LockNext]_lockVars,
                    at' # "reference", \A c \in Chats : ~InContext(c)'
             PROVE  adapterOn'
  BY DEF AdapterComesBack
<1> USE DEF LockType, AdapterComesBack, InContext
<1>1. CASE UNCHANGED lockVars
  BY <1>1 DEF lockVars, chatVars
<1>2. CASE HandlerTakes \/ HandlerProgress
  BY <1>2 DEF HandlerTakes, HandlerProgress, TrainLocks, RankLocks, chatVars
<1>3. CASE HandlerStep
  <2>1. CASE SampleInside \/ SampleRestore \/ ReferenceBegins \/ ReferenceEnds \/ TrainRaises \/ RankEnds
    BY <2>1
       DEF SampleInside, SampleRestore, ReferenceBegins, ReferenceEnds, TrainRaises, RankEnds, chatVars
  <2>2. CASE Update \/ Rewrite
    BY <2>2 DEF Update, Rewrite
  <2> QED BY <1>3, <2>1, <2>2 DEF HandlerStep
<1>4. ASSUME NEW c \in Chats, ChatCalled(c) PROVE adapterOn'
  BY <1>4 DEF ChatCalled
<1>5. ASSUME NEW c \in Chats, EnterContext(c) PROVE adapterOn'
  <2>1. ask'[c] = ask[c] /\ pc'[c] = "inside" /\ ask[c].base \in BOOLEAN
    BY <1>5 DEF EnterContext, Requests
  <2>2. ~ask[c].base
    BY <2>1
  <2> QED BY <1>5, <2>2 DEF EnterContext
<1>6. ASSUME NEW c \in Chats, LeaveContext(c) PROVE adapterOn'
  BY <1>6 DEF LeaveContext
<1>7. ASSUME NEW c \in Chats, EarlyFailure(c) \/ TakeLock(c) \/ Chunk(c) PROVE adapterOn'
  BY <1>7 DEF EarlyFailure, TakeLock, Chunk
<1>8. ASSUME NEW c \in Chats, GenerationEnds(c) \/ GenerationRaises(c) PROVE adapterOn'
  BY <1>8 DEF GenerationEnds, GenerationRaises
<1>9. ASSUME NEW c \in Chats, HandOver(c) \/ Deliver(c) \/ Abandon(c) PROVE adapterOn'
  BY <1>9 DEF HandOver, Deliver, Abandon
<1> QED
  BY <1>1, <1>2, <1>3, <1>4, <1>5, <1>6, <1>7, <1>8, <1>9 DEF LockNext, ThreadProgress

\* No exception and no overlap of contexts leaves the adapter off.
THEOREM AdapterAlwaysComesBack == LockSpec => []AdapterComesBack
<1>1. LockInit => LockType /\ AdapterComesBack
  BY InitialLockType DEF LockInit, AdapterComesBack
<1>2. LockType /\ AdapterComesBack /\ [LockNext]_lockVars => LockType' /\ AdapterComesBack'
  BY LockTypeStep, AdapterStep
<1> QED BY <1>1, <1>2, PTL DEF LockSpec

\* No request may ask for the base model, and none has.
BaseUnwanted == \A c \in Chats : \A w \in Wishes[c] : ~w.base
NoneAsks == BaseUnwanted /\ \A c \in Chats : ~ask[c].base

\* The comment of controller.py:423-426 holds where no request asks for the base
\* model: then no step of any thread takes the adapter out of a training pass.
THEOREM TrainingUnaffectedWithoutBase == BaseUnwanted /\ LockSpec => []TrainingUnaffected
<1>1. BaseUnwanted /\ LockInit => NoneAsks
  BY DEF LockInit, NoneAsks
<1>2. LockType /\ NoneAsks /\ [LockNext]_lockVars => NoneAsks'
  <2> SUFFICES ASSUME LockType, NoneAsks, [LockNext]_lockVars PROVE NoneAsks'
    OBVIOUS
  <2>1. CASE UNCHANGED ask
    BY <2>1 DEF NoneAsks, BaseUnwanted
  <2>2. ASSUME NEW c \in Chats, ChatCalled(c) PROVE NoneAsks'
    <3>1. PICK w \in Wishes[c] : ask' = [ask EXCEPT ![c] = w]
      BY <2>2 DEF ChatCalled
    <3>2. \A d \in Chats : ask'[d] = IF d = c THEN w ELSE ask[d]
      BY <3>1 DEF LockType
    <3> QED BY <3>2 DEF NoneAsks, BaseUnwanted
  <2> QED
    BY <2>1, <2>2
       DEF LockNext, HandlerTakes, HandlerProgress, TrainLocks, RankLocks, HandlerStep, SampleInside,
           SampleRestore, ReferenceBegins, ReferenceEnds, Update, TrainRaises, RankEnds, Rewrite,
           ThreadProgress, EnterContext, TakeLock, Chunk, GenerationEnds, LeaveContext, HandOver,
           EarlyFailure, GenerationRaises, Deliver, Abandon, lockVars, chatVars
<1>3. AdapterComesBack /\ NoneAsks => TrainingUnaffected
  BY DEF AdapterComesBack, TrainingUnaffected, InContext, NoneAsks
<1>4. LockInit => LockType
  BY InitialLockType
<1>5. LockType /\ [LockNext]_lockVars => LockType'
  BY LockTypeStep
<1> QED BY <1>1, <1>2, <1>3, <1>4, <1>5, AdapterAlwaysComesBack, PTL DEF LockSpec

-----------------------------------------------------------------------------
(* Answers. *)

\* What the client was sent is a prefix of what was generated; the rest, and
\* the end once the thread has put it, are on the wire in that order.
Unsent(c) == sent[c] - Len(got[c])

InOrder(c) ==
    /\ Len(got[c]) <= sent[c]
    /\ \A i \in 1..Len(got[c]) : got[c][i] = i
    /\ Unsent(c) <= Len(wire[c])
    /\ \A i \in 1..Len(wire[c]) : wire[c][i] = IF i <= Unsent(c) THEN Len(got[c]) + i ELSE Done

EndIsLast(c) ==
    /\ pc[c] # "idle" => Len(wire[c]) = Unsent(c) /\ end[c] \in {"open", "gone"}
    /\ pc[c] = "idle" /\ end[c] = "open" => Len(wire[c]) = Unsent(c) + 1 /\ err[c] = raised[c]
    /\ end[c] \in {"stop", "error"} => Len(wire[c]) = 0
    /\ end[c] = "stop" => ~raised[c]

WireInv == LockType /\ \A c \in Chats : InOrder(c) /\ EndIsLast(c)

LEMMA WireImpliesTruth == WireInv => StreamEndsTruthfully
<1> SUFFICES ASSUME WireInv, NEW c \in Chats
             PROVE  /\ got[c] = [i \in 1..Len(got[c]) |-> i]
                    /\ end[c] \in {"stop", "error"} => Len(got[c]) = sent[c] /\ pc[c] = "idle"
                    /\ end[c] = "stop" => ~raised[c]
  BY DEF StreamEndsTruthfully
<1>1. got[c] \in Seq(0..MaxChunks) /\ wire[c] \in Seq(0..MaxChunks) /\ sent[c] \in Nat
  BY LockParties DEF WireInv, LockType
<1>2. got[c] = [i \in 1..Len(got[c]) |-> got[c][i]]
  BY <1>1
<1>3. got[c] = [i \in 1..Len(got[c]) |-> i]
  BY <1>2 DEF WireInv, InOrder
<1>4. Len(got[c]) \in Nat /\ Len(wire[c]) \in Nat
  BY <1>1
<1>5. end[c] \in {"stop", "error"} => Len(got[c]) = sent[c] /\ pc[c] = "idle"
  BY <1>1, <1>4 DEF WireInv, InOrder, EndIsLast, Unsent
<1> QED BY <1>3, <1>5 DEF WireInv, EndIsLast

LEMMA InitialWire == LockInit => WireInv
<1> SUFFICES ASSUME LockInit, NEW c \in Chats PROVE InOrder(c) /\ EndIsLast(c)
  BY InitialLockType DEF WireInv
<1> QED BY DEF LockInit, InOrder, EndIsLast, Unsent

\* A step that leaves the answer of c alone.
LEMMA AnswerKept ==
    ASSUME NEW c \in Chats, InOrder(c), EndIsLast(c),
           sent'[c] = sent[c], wire'[c] = wire[c], got'[c] = got[c], end'[c] = end[c],
           (pc'[c] = "idle") = (pc[c] = "idle"),
           pc[c] = "idle" => err'[c] = err[c] /\ raised'[c] = raised[c]
    PROVE  InOrder(c)' /\ EndIsLast(c)'
BY DEF InOrder, EndIsLast, Unsent

LEMMA WireStep == WireInv /\ [LockNext]_lockVars => WireInv'
<1> SUFFICES ASSUME WireInv, [LockNext]_lockVars, NEW d \in Chats
             PROVE  InOrder(d)' /\ EndIsLast(d)'
  BY LockTypeStep DEF WireInv
<1>0. /\ InOrder(d) /\ EndIsLast(d)
      /\ wire[d] \in Seq(0..MaxChunks) /\ got[d] \in Seq(0..MaxChunks) /\ sent[d] \in Nat
      /\ Len(wire[d]) \in Nat /\ Len(got[d]) \in Nat
  <2>1. wire[d] \in Seq(0..MaxChunks) /\ got[d] \in Seq(0..MaxChunks) /\ sent[d] \in Nat
    BY LockParties DEF WireInv, LockType
  <2> QED BY <2>1 DEF WireInv
<1>1. CASE UNCHANGED lockVars
  BY <1>0, <1>1, AnswerKept DEF lockVars, chatVars
<1>2. CASE HandlerTakes \/ HandlerProgress
  BY <1>0, <1>2, AnswerKept DEF HandlerTakes, HandlerProgress, TrainLocks, RankLocks, chatVars
<1>3. CASE HandlerStep
  <2>1. UNCHANGED <<pc, ask, sent, wire, raised, err, got, end>>
    BY <1>3 DEF HandlerStep, SampleInside, SampleRestore, ReferenceBegins, ReferenceEnds, Update,
                TrainRaises, RankEnds, Rewrite, chatVars
  <2> QED BY <1>0, <2>1, AnswerKept
<1>4. ASSUME NEW c \in Chats, ChatCalled(c) PROVE InOrder(d)' /\ EndIsLast(d)'
  <2>1. CASE c = d
    <3>1. /\ sent'[d] = 0 /\ wire'[d] = <<>> /\ got'[d] = <<>>
          /\ pc'[d] = "called" /\ end'[d] = "open"
      BY <1>4, <2>1 DEF ChatCalled, WireInv, LockType
    <3>2. Len(<<>>) = 0
      OBVIOUS
    <3>3. Len(wire'[d]) = 0 /\ Len(got'[d]) = 0
      BY <3>1, <3>2, Zenon
    <3>4. Unsent(d)' = 0
      <4>1. sent'[d] = 0
        BY <3>1
      <4> QED BY <3>3, <4>1 DEF Unsent
    <3> QED BY <3>1, <3>3, <3>4 DEF InOrder, EndIsLast
  <2>2. CASE c # d
    BY <1>0, <1>4, <2>2, AnswerKept DEF ChatCalled, WireInv, LockType
  <2> QED BY <2>1, <2>2
<1>5. ASSUME NEW c \in Chats, EnterContext(c) \/ EarlyFailure(c) \/ TakeLock(c) \/ LeaveContext(c)
      PROVE  InOrder(d)' /\ EndIsLast(d)'
  BY <1>0, <1>5, AnswerKept DEF EnterContext, EarlyFailure, TakeLock, LeaveContext, WireInv, LockType
<1>6. ASSUME NEW c \in Chats, GenerationEnds(c) \/ GenerationRaises(c)
      PROVE  InOrder(d)' /\ EndIsLast(d)'
  BY <1>0, <1>6, AnswerKept DEF GenerationEnds, GenerationRaises, WireInv, LockType
<1>7. ASSUME NEW c \in Chats, Chunk(c) PROVE InOrder(d)' /\ EndIsLast(d)'
  <2>1. CASE c = d
    <3>1. /\ sent'[d] = sent[d] + 1 /\ wire'[d] = Append(wire[d], sent[d] + 1)
          /\ got'[d] = got[d] /\ pc'[d] = "gen" /\ pc[d] = "gen" /\ end'[d] = end[d]
      BY <1>7, <2>1 DEF Chunk, WireInv, LockType
    <3>2. Len(wire[d]) = Unsent(d) /\ Len(wire'[d]) = Unsent(d) + 1
      BY <1>0, <3>1 DEF EndIsLast
    <3>3. \A i \in 1..Len(wire[d]) : wire'[d][i] = Len(got[d]) + i
      <4>1. \A i \in 1..Len(wire[d]) : wire'[d][i] = wire[d][i]
        BY <1>0, <3>1
      <4> QED BY <1>0, <3>2, <4>1 DEF InOrder
    <3>4. wire'[d][Len(wire[d]) + 1] = Len(got[d]) + (Len(wire[d]) + 1)
      <4>1. wire'[d][Len(wire[d]) + 1] = sent[d] + 1
        BY <1>0, <3>1
      <4> QED BY <1>0, <3>2, <4>1 DEF Unsent
    <3>5. Unsent(d)' = Unsent(d) + 1
      BY <1>0, <3>1 DEF Unsent
    <3>6. \A i \in 1..Len(wire'[d]) : wire'[d][i] = Len(got[d]) + i
      <4> TAKE i \in 1..Len(wire'[d])
      <4>1. Len(wire'[d]) = Len(wire[d]) + 1
        BY <3>2
      <4>2. i \in 1..Len(wire[d]) \/ i = Len(wire[d]) + 1
        BY <1>0, <4>1
      <4>3. CASE i \in 1..Len(wire[d])
        BY <3>3, <4>3
      <4>4. CASE i = Len(wire[d]) + 1
        BY <3>4, <4>4
      <4> QED BY <4>2, <4>3, <4>4
    <3> QED BY <1>0, <3>1, <3>2, <3>5, <3>6 DEF InOrder, EndIsLast
  <2>2. CASE c # d
    BY <1>0, <1>7, <2>2, AnswerKept DEF Chunk, WireInv, LockType
  <2> QED BY <2>1, <2>2
<1>8. ASSUME NEW c \in Chats, HandOver(c) PROVE InOrder(d)' /\ EndIsLast(d)'
  <2>1. CASE c = d
    <3>1. /\ sent'[d] = sent[d] /\ wire'[d] = Append(wire[d], Done) /\ got'[d] = got[d]
          /\ pc[d] = "handing" /\ pc'[d] = "idle" /\ end'[d] = end[d]
          /\ err'[d] = raised[d] /\ raised'[d] = raised[d]
      BY <1>8, <2>1 DEF HandOver, WireInv, LockType
    <3>2. Len(wire[d]) = Unsent(d) /\ Len(wire'[d]) = Unsent(d) + 1 /\ end[d] \in {"open", "gone"}
      BY <1>0, <3>1 DEF EndIsLast
    <3>3. \A i \in 1..Len(wire'[d]) :
            wire'[d][i] = IF i <= Unsent(d) THEN Len(got[d]) + i ELSE Done
      <4>1. \A i \in 1..Len(wire[d]) : wire'[d][i] = wire[d][i]
        BY <1>0, <3>1
      <4>2. wire'[d][Len(wire[d]) + 1] = Done
        BY <1>0, <3>1
      <4> QED BY <1>0, <3>2, <4>1, <4>2 DEF InOrder
    <3> QED BY <1>0, <3>1, <3>2, <3>3 DEF InOrder, EndIsLast, Unsent
  <2>2. CASE c # d
    BY <1>0, <1>8, <2>2, AnswerKept DEF HandOver, WireInv, LockType
  <2> QED BY <2>1, <2>2
<1>9. ASSUME NEW c \in Chats, Deliver(c) PROVE InOrder(d)' /\ EndIsLast(d)'
  <2>1. CASE c = d
    <3>1. /\ end[d] = "open" /\ wire[d] # <<>> /\ wire'[d] = Tail(wire[d])
          /\ sent'[d] = sent[d] /\ pc'[d] = pc[d] /\ err'[d] = err[d] /\ raised'[d] = raised[d]
      BY <1>9, <2>1 DEF Deliver, WireInv, LockType
    <3>2. /\ Len(wire[d]) > 0 /\ Head(wire[d]) = wire[d][1]
          /\ Len(wire'[d]) = Len(wire[d]) - 1
          /\ \A i \in 1..Len(wire'[d]) : wire'[d][i] = wire[d][i + 1]
      BY <1>0, <3>1
    <3>0. wire[d][1] = IF 1 <= Unsent(d) THEN Len(got[d]) + 1 ELSE Done
      BY <1>0, <3>2 DEF InOrder
    <3>3. CASE Unsent(d) > 0
      <4>1. Head(wire[d]) = Len(got[d]) + 1 /\ Head(wire[d]) # Done
        BY <1>0, <3>0, <3>2, <3>3 DEF Done, Unsent
      <4>2. got'[d] = Append(got[d], Len(got[d]) + 1) /\ end'[d] = end[d]
        BY <1>9, <2>1, <4>1 DEF Deliver, WireInv, LockType
      <4>3. /\ Len(got'[d]) = Len(got[d]) + 1
            /\ \A i \in 1..Len(got'[d]) : got'[d][i] = i
        BY <1>0, <4>2 DEF InOrder
      <4>4. Unsent(d)' = Unsent(d) - 1
        BY <1>0, <3>1, <4>3 DEF Unsent
      <4>5. Unsent(d) <= Len(wire[d])
        BY <1>0 DEF InOrder
      <4>6. \A i \in 1..Len(wire'[d]) :
              wire'[d][i] = IF i <= Unsent(d)' THEN Len(got'[d]) + i ELSE Done
        BY <1>0, <3>2, <4>3, <4>4 DEF InOrder, Unsent
      <4>7. InOrder(d)'
        BY <1>0, <3>1, <3>2, <3>3, <4>3, <4>4, <4>5, <4>6 DEF InOrder, Unsent
      <4>8. EndIsLast(d)'
        BY <1>0, <3>1, <3>2, <4>2, <4>4 DEF EndIsLast, Unsent
      <4> QED BY <4>7, <4>8
    <3>4. CASE Unsent(d) <= 0
      <4>1. Unsent(d) = 0 /\ Head(wire[d]) = Done
        BY <1>0, <3>0, <3>2, <3>4 DEF InOrder, Unsent
      <4>2. got'[d] = got[d] /\ end'[d] \in IF err[d] THEN {"error"} ELSE {"stop", "error"}
        BY <1>9, <2>1, <4>1 DEF Deliver, WireInv, LockType
      <4>3. pc[d] = "idle" /\ Len(wire[d]) = 1 /\ err[d] = raised[d]
        BY <1>0, <3>1, <3>2, <4>1 DEF EndIsLast
      <4>4. InOrder(d)'
        BY <1>0, <3>1, <3>2, <4>1, <4>2, <4>3 DEF InOrder, Unsent
      <4>5. err[d] \in BOOLEAN
        BY DEF WireInv, LockType
      <4>6. EndIsLast(d)'
        BY <1>0, <3>1, <3>2, <4>1, <4>2, <4>3, <4>5 DEF EndIsLast, Unsent
      <4> QED BY <4>4, <4>6
    <3> QED BY <1>0, <3>3, <3>4 DEF Unsent
  <2>2. CASE c # d
    BY <1>0, <1>9, <2>2, AnswerKept DEF Deliver, WireInv, LockType
  <2> QED BY <2>1, <2>2
<1>10. ASSUME NEW c \in Chats, Abandon(c) PROVE InOrder(d)' /\ EndIsLast(d)'
  <2>1. CASE c = d
    <3>1. /\ end'[d] = "gone" /\ end[d] = "open"
          /\ sent'[d] = sent[d] /\ wire'[d] = wire[d] /\ got'[d] = got[d] /\ pc'[d] = pc[d]
      BY <1>10, <2>1 DEF Abandon, WireInv, LockType
    <3> QED BY <1>0, <3>1 DEF InOrder, EndIsLast, Unsent
  <2>2. CASE c # d
    BY <1>0, <1>10, <2>2, AnswerKept DEF Abandon, WireInv, LockType
  <2> QED BY <2>1, <2>2
<1> QED
  BY <1>1, <1>2, <1>3, <1>4, <1>5, <1>6, <1>7, <1>8, <1>9, <1>10 DEF LockNext, ThreadProgress

\* The client of a chat gets all its chunks in order before it is told of any end,
\* and is told "stop" only if the generation returned.
THEOREM StreamsEndTruthfully == LockSpec => []StreamEndsTruthfully
<1>1. LockInit => WireInv
  BY InitialWire
<1>2. WireInv /\ [LockNext]_lockVars => WireInv'
  BY WireStep
<1> QED BY <1>1, <1>2, WireImpliesTruth, PTL DEF LockSpec
=============================================================================
