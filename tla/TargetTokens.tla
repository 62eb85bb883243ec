---------------------------- MODULE TargetTokens ----------------------------
(***************************************************************************)
(* Which tokens the objectives put a gradient on: prompts and responses    *)
(* are tokenized, cut to a maximal length, masked, padded to a batch and   *)
(* shifted by one; push-downs and their anchor meet at the last token of a *)
(* prefix; a teacher that saw more context is laid over its student        *)
(* (objectives/_utils.py, sft.py, coh.py, kto.py, hinge.py, unlike.py,     *)
(* kl.py, ccd.py, safety.py).                                              *)
(*                                                                         *)
(* A token is <<sample, piece, number>>.  Tensor indices count from 0 as   *)
(* in the code; PyAt reads a row at such an index, a negative one from the *)
(* end.  The numbers a loss computes there are not modelled.               *)
(***************************************************************************)
EXTENDS Integers, Sequences, FiniteSets

CONSTANTS
    Samples,   \* shapes of samples: how many tokens each piece has
    MaxBatch,  \* bound on the samples of a batch
    MaxLen     \* max_len of build_chat_inputs

NoSpan == 0    \* no span_prefix

\* span: tokens of the response in its accepted prefix; aligned: the prefix
\* ends where a token ends; fused: without a template the tokenizer may merge
\* the last token of one piece and the first of the next; found: lengths of the
\* slices behind the prompt whose decoded text ends with span_prefix, its true
\* end among them or not; good: the sample of `unlike` has a positive teacher.
Shape == [head : Nat, context : Nat, prompt : Nat, gen : Nat, hidden : Nat, resp : Nat, tail : Nat,
          span : Nat, found : SUBSET Nat, aligned : BOOLEAN, fused : BOOLEAN, good : BOOLEAN]

ASSUME TokenBounds ==
    /\ \A s \in Samples :
         /\ s \in Shape /\ s.span <= s.resp /\ (s.fused => s.resp > 0)
         /\ 0 \notin s.found /\ (s.span = NoSpan => s.found = {})
         /\ s.span # NoSpan /\ s.aligned /\ ~s.fused => s.hidden + s.span \in s.found
    /\ MaxBatch \in Nat \ {0} /\ MaxLen \in Nat \ {0}

VARIABLES
    samples,   \* the batch
    objective, \* the loss that was computed on it
    trained    \* what it put its gradient on, a record per objective

tokenVars == <<samples, objective, trained>>

TokensInit ==
    /\ samples = <<>>
    /\ objective = "none"
    /\ trained = [rows |-> <<>>]

-----------------------------------------------------------------------------
Piece(i, name, n) == [j \in 1..n |-> <<i, name, j>>]
Pad == <<0, "pad", 0>>
Ignored == <<0, "ignored", 0>>   \* the label -100
Shorter(a, b) == IF a <= b THEN a ELSE b

\* row[k] of Python
PyAt(row, k) == row[IF k < 0 THEN Len(row) + k + 1 ELSE k + 1]

\* The context of a sample as the model sees it when it starts to answer.
PromptIds(s, i) ==
    Piece(i, "head", s.head) \o Piece(i, "prompt", s.prompt) \o Piece(i, "gen", s.gen)

\* The whole exchange; a fused tokenizer merges prompt and response where
\* they meet, into a token that is the response's first.
FullIds(s, i) ==
    LET given == PromptIds(s, i)
        before == IF s.fused /\ given # <<>> THEN SubSeq(given, 1, Len(given) - 1) ELSE given
    IN  before \o Piece(i, "hidden", s.hidden) \o Piece(i, "resp", s.resp) \o Piece(i, "tail", s.tail)

\* build_chat_inputs: cut, then find where the labels begin.
ChatInputs(s, i) ==
    LET full == SubSeq(FullIds(s, i), 1, Shorter(MaxLen, Len(FullIds(s, i))))
        n == Shorter(Len(PromptIds(s, i)), Len(full))
        \* the shortest slice of full[n:] whose text ends with span_prefix
        ends == {l \in s.found : n + l <= Len(full)}
        prefix == IF ends # {} THEN n + (CHOOSE l \in ends : \A m \in ends : l <= m) ELSE n
    IN  [ids |-> full, prefix |-> prefix,
         labels |-> [k \in 1..Len(full) |-> IF k <= prefix THEN Ignored ELSE full[k]]]

Longest(seqs) == CHOOSE n \in {Len(seqs[i]) : i \in DOMAIN seqs} : \A i \in DOMAIN seqs : Len(seqs[i]) <= n

\* pad_and_stack and _pad_prefixes: right padding to the longest row.
Padded(seqs, fill) ==
    [i \in DOMAIN seqs |-> [k \in 1..Longest(seqs) |-> IF k <= Len(seqs[i]) THEN seqs[i][k] ELSE fill]]

UnshiftedTargets(labels) ==
    [i \in DOMAIN labels |-> {p \in 0..(Len(labels[i]) - 2) : labels[i][p + 1] # Ignored}]

\* extract_target_positions, and the mask of sequence_logprob: the logits at p
\* are scored against the label at p + 1.
Targets(labels) ==
    [i \in DOMAIN labels |-> {p \in 0..(Len(labels[i]) - 2) : labels[i][p + 2] # Ignored}]

-----------------------------------------------------------------------------
Batches == UNION {[1..n -> Samples] : n \in 1..MaxBatch}

\* A loss is called on a batch; its result is used up before the next call.
Called(name, b) ==
    /\ objective = "none"
    /\ objective' = name
    /\ samples' = b

Return ==
    /\ objective # "none"
    /\ objective' = "none"
    /\ samples' = <<>>
    /\ trained' = [rows |-> <<>>]

\* sft, weighted_sft, coh, kto and either side of hinge; safety_monitor gets
\* the positions.  No sample, or one without a token, makes it raise.
TrainResponses(b) ==
    /\ Called("responses", b)
    /\ LET inputs == [i \in DOMAIN b |-> ChatInputs(b[i], i)]
           labels == Padded([i \in DOMAIN inputs |-> inputs[i].labels], Ignored)
           targets == Targets(labels)
       IN  trained' = [rows |-> Padded([i \in DOMAIN inputs |-> inputs[i].ids], Pad),
                       prefix |-> [i \in DOMAIN inputs |-> inputs[i].prefix],
                       targets |-> targets,
                       tokens |-> [i \in DOMAIN labels |->
                                     {<<p, PyAt(labels[i], p + 1)>> : p \in targets[i]}],
                       norm |-> [i \in DOMAIN labels |->
                                     IF targets[i] = {} THEN 1 ELSE Cardinality(targets[i])]]

\* unlike: the push-down of every sample at last_idx; a positive teacher at the
\* same position is what safety_monitor looks at.  kl_anchor with the scope
\* target_position tokenizes prefixes again, an empty one as a pad.  In a
\* combined loss unlike may have samples of its own, and the anchor is given the
\* default samples or, without any, those of the first objective that has some:
\* `front`, if there are such before unlike.
NoOwn == <<0>>
Lists(b) == {[j \in 1..r[2] |-> r[1] + j] : r \in {x \in (0..Len(b)) \X (0..Len(b)) : x[1] + x[2] <= Len(b)}}

PushedDown(b, default, own, front) ==
    LET of == IF own = NoOwn THEN default ELSE own
        anchorOf == IF default # <<>> THEN default ELSE IF front # <<>> THEN front ELSE of
        prefixes == [i \in DOMAIN of |-> PromptIds(b[of[i]], of[i])]
        held == [i \in DOMAIN anchorOf |-> PromptIds(b[anchorOf[i]], anchorOf[i])]
        anchored == [i \in DOMAIN held |-> IF held[i] = <<>> THEN <<Pad>> ELSE held[i]]
    IN  /\ of # <<>> /\ Longest(prefixes) > 0
        /\ trained' = [rows |-> Padded(prefixes, Pad),
                       of |-> of,
                       pushed |-> [i \in DOMAIN prefixes |-> Len(prefixes[i]) - 1],
                       monitored |-> [i \in DOMAIN prefixes |->
                                        IF b[of[i]].good THEN {Len(prefixes[i]) - 1} ELSE {}],
                       request |-> [default |-> default, own |-> own, front |-> front],
                       anchorRows |-> Padded(anchored, Pad),
                       anchorOf |-> anchorOf,
                       anchor |-> [i \in DOMAIN anchored |-> Len(anchored[i]) - 1]]

PushDown(b) ==
    /\ Called("push_down", b)
    /\ \E default, front \in Lists(b), own \in Lists(b) \cup {NoOwn} :
         PushedDown(b, default, own, front)

\* ccd: the student reads the prompt, the teacher context and prompt; the
\* student's positions are laid over the end of the teacher's.  Slices of
\* different lengths make the divergence raise.
TeacherIds(s, i) ==
    LET before == Piece(i, "head", s.head) \o Piece(i, "context", s.context)
        kept == IF s.fused /\ before # <<>> THEN SubSeq(before, 1, Len(before) - 1) ELSE before
    IN  kept \o Piece(i, "prompt", s.prompt) \o Piece(i, "gen", s.gen)

Overlay(lt, ls) == lt - ls

Distil(b) ==
    /\ Called("distil", b)
    /\ \A i \in DOMAIN b : Len(TeacherIds(b[i], i)) >= Len(PromptIds(b[i], i))
    /\ trained' =
         [rows |-> [i \in DOMAIN b |-> PromptIds(b[i], i)],
          pairs |-> [i \in DOMAIN b |->
            LET teacher == TeacherIds(b[i], i)
                student == PromptIds(b[i], i)
                start == Overlay(Len(teacher), Len(student))
            IN  [j \in 0..(Len(student) - 1) |->
                    <<PyAt(student, j), PyAt(teacher, start + j)>>]]]

TokensNext ==
    \/ Return
    \/ \E b \in Batches : TrainResponses(b) \/ PushDown(b) \/ Distil(b)

TokensSpec == TokensInit /\ [][TokensNext]_tokenVars

-----------------------------------------------------------------------------
TokensType ==
    /\ samples \in UNION {[1..n -> Samples] : n \in 0..MaxBatch}
    /\ objective \in {"none", "responses", "push_down", "distil"}
    /\ Len(trained.rows) <= Len(samples)

\* A row as long as it has tokens; pads are on its right.
Unpadded(row) == SubSeq(row, 1, Cardinality({k \in DOMAIN row : row[k] # Pad}))

Mine(i, pieces) == {i} \X pieces \X (1..MaxLen)

\* What a loss is to reach: the response behind its accepted prefix.
Infill(s, i) == {t \in Mine(i, {"resp", "tail"}) : t[2] = "tail" \/ t[3] > s.span}

\* Nothing the model or the template wrote before the true end of the accepted
\* prefix reads like it, and the end is not in the middle of a token.
FoundFirst(s) ==
    /\ s.span # NoSpan /\ s.aligned /\ ~s.fused
    /\ \A l \in s.found : l >= s.hidden + s.span

\* Every position that is trained predicts a token the row really has next,
\* of the same sample and of its answer: no prompt, no padding, no token of a
\* neighbour; nothing of the answer behind the boundary that survived the cut
\* is left out, and the mean is taken over exactly these.  The boundary never
\* lies behind the accepted prefix, so no token of the infill is lost; it lies
\* right there, so that the prefix and hidden template content are spared,
\* when the prefix survived the cut and no earlier text reads like its end.  A
\* tokenizer that merges tokens may break both (_utils.py:94-125, 145-178,
\* 207-221).
SupervisedExactly ==
    objective = "responses" =>
        \A i \in DOMAIN samples :
            LET s == samples[i]
                row == Unpadded(trained.rows[i])
                given == s.head + s.prompt + s.gen
            IN  /\ trained.targets[i] = {p \in 0..(Len(row) - 2) : p + 1 >= trained.prefix[i]}
                /\ \A x \in trained.tokens[i] :
                     /\ x[2] = PyAt(row, x[1] + 1)
                     /\ x[2] \in Mine(i, {"hidden", "resp", "tail"})
                     /\ FoundFirst(s) /\ given + s.hidden + s.span <= Len(row) => x[2] \in Infill(s, i)
                /\ s.aligned /\ ~s.fused =>
                     \A k \in 2..Len(row) : row[k] \in Infill(s, i) => <<k - 2, row[k]>> \in trained.tokens[i]
                /\ trained.norm[i] >= 1
                /\ trained.targets[i] # {} => trained.norm[i] = Cardinality(trained.tokens[i])
                /\ trained.prefix[i] >= Shorter(given, Len(row))

\* Where the sidecar has a sample that is pushed down, the anchor holds the very
\* position that is pushed, the last token the model sees of it before it answers.
\* It has all of them in a single-objective step, and in a combined one where
\* unlike uses the default samples, or nobody else before it has any; otherwise
\* the step may anchor samples that are not the pushed ones (unlike.py:199-208,
\* kl.py:128-185, train.py:346-358).  A prefix of no token is the exception: its
\* push-down wraps to the padding.
AnchorSitsOnPush ==
    objective = "push_down" =>
        /\ (\/ trained.request.own = NoOwn
            \/ trained.request.default = <<>> /\ trained.request.front = <<>>)
              => trained.anchorOf = trained.of
        /\ \A i \in DOMAIN trained.of :
             LET s == samples[trained.of[i]]
                 at == PyAt(trained.rows[i], trained.pushed[i])
             IN  s.head + s.prompt + s.gen > 0 =>
                   /\ at[1] = trained.of[i]
                   /\ trained.monitored[i] \subseteq {trained.pushed[i]}
                   /\ \A j \in DOMAIN trained.anchorOf : trained.anchorOf[j] = trained.of[i] =>
                        /\ trained.pushed[i] = trained.anchor[j]
                        /\ at = PyAt(trained.anchorRows[j], trained.anchor[j])

\* Student and teacher are compared at the same token of prompt and generation
\* prompt, except the one a tokenizer fused with the context; only template
\* tokens before the prompt meet something else (ccd.py:96-108, 198-217).
DistilledOnItself ==
    objective = "distil" =>
        \A i \in DOMAIN samples : \A j \in DOMAIN trained.pairs[i] :
            LET pair == trained.pairs[i][j] IN
            pair[1] = pair[2] \/ pair[1][2] = "head"

\* What is trained is what was meant to be.
GradientsMeetTheirTokens == SupervisedExactly /\ AnchorSitsOnPush /\ DistilledOnItself
=============================================================================
