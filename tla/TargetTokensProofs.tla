------------------------- MODULE TargetTokensProofs -------------------------
(***************************************************************************)
(* Theorems about TargetTokens, for all shapes of samples, batch sizes and *)
(* lengths.  A row is laid out piece by piece (PromptLayout, Exchange,     *)
(* TeacherLayout); the invariant follows step by step from where a         *)
(* position falls in that layout, in the row that was cut, padded and      *)
(* shifted.                                                                *)
(***************************************************************************)
EXTENDS TargetTokens, SequenceTheorems, FiniteSetTheorems, WellFoundedInduction, TLAPS

\* A set of numbers has a least one.
LEMMA Least ==
    ASSUME NEW D \in SUBSET Nat, D # {}
    PROVE  \E m \in D : \A n \in D : m <= n
<1> DEFINE T == {0..n : n \in D}
<1>1. T \subseteq FiniteSubsetsOf(Nat) /\ T # {}
  <2>1. \A n \in D : IsFiniteSet(0..n) /\ 0..n \subseteq Nat
    BY FS_Interval
  <2> QED BY <2>1 DEF FiniteSubsetsOf
<1>2. IsWellFoundedOn(StrictSubsetOrdering(Nat), FiniteSubsetsOf(Nat))
  BY FS_StrictSubsetOrderingWellFounded
<1> HIDE DEF T
<1>3. PICK x \in T : \A y \in T : ~(<<y, x>> \in StrictSubsetOrdering(Nat))
  BY <1>1, <1>2, WFMin
<1>4. PICK m \in D : x = 0..m
  BY <1>3 DEF T
<1>5. ASSUME NEW n \in D, n < m PROVE FALSE
  <2>1. 0..n \in T /\ 0..n \in SUBSET Nat /\ 0..m \in SUBSET Nat
    BY DEF T
  <2>2. 0..n \subseteq 0..m /\ 0..n # 0..m
    <3>1. m \in 0..m /\ m \notin 0..n
      BY <1>5
    <3> QED BY <3>1, <1>5
  <2> QED BY <1>3, <1>4, <2>1, <2>2 DEF StrictSubsetOrdering
<1> QED BY <1>5

-----------------------------------------------------------------------------
(* Rows and batches. *)

\* x is p, then q, then r, all over S.
Parts2(S, x, p, q) ==
    /\ Len(p) \in Nat /\ Len(q) \in Nat
    /\ x \in Seq(S) /\ Len(x) = Len(p) + Len(q)
    /\ \A i \in 1..Len(p) : x[i] = p[i]
    /\ \A i \in 1..Len(q) : x[Len(p) + i] = q[i]

Parts3(S, x, p, q, r) ==
    /\ Len(p) \in Nat /\ Len(q) \in Nat /\ Len(r) \in Nat
    /\ x \in Seq(S) /\ Len(x) = Len(p) + Len(q) + Len(r)
    /\ \A i \in 1..Len(p) : x[i] = p[i]
    /\ \A i \in 1..Len(q) : x[Len(p) + i] = q[i]
    /\ \A i \in 1..Len(r) : x[Len(p) + Len(q) + i] = r[i]

LEMMA JoinedParts ==
    ASSUME NEW S, NEW p \in Seq(S), NEW q \in Seq(S)
    PROVE  Parts2(S, p \o q, p, q)
<1>1. Len(p) \in Nat /\ Len(q) \in Nat
  BY LenProperties
<1> DEFINE x == p \o q
<1>2. /\ x \in Seq(S) /\ Len(x) = Len(p) + Len(q)
      /\ \A i \in 1..(Len(p) + Len(q)) : x[i] = IF i <= Len(p) THEN p[i] ELSE q[i - Len(p)]
  BY ConcatProperties
<1> HIDE DEF x
<1>3. ASSUME NEW i \in 1..Len(p) PROVE x[i] = p[i]
  BY <1>1, <1>2
<1>4. ASSUME NEW i \in 1..Len(q) PROVE x[Len(p) + i] = q[i]
  <2>1. Len(p) + i \in 1..(Len(p) + Len(q)) /\ ~(Len(p) + i <= Len(p)) /\ Len(p) + i - Len(p) = i
    BY <1>1
  <2> QED BY <1>2, <2>1
<1>5. Parts2(S, x, p, q)
  BY <1>1, <1>2, <1>3, <1>4 DEF Parts2
<1> QED BY <1>5 DEF x

LEMMA ThreeParts ==
    ASSUME NEW S, NEW p \in Seq(S), NEW q \in Seq(S), NEW r \in Seq(S)
    PROVE  Parts3(S, p \o q \o r, p, q, r)
<1> DEFINE y == p \o q
<1> DEFINE x == y \o r
<1>1. Parts2(S, y, p, q)
  BY JoinedParts
<1>2. y \in Seq(S)
  BY <1>1 DEF Parts2
<1> HIDE DEF y
<1>3. Parts2(S, x, y, r)
  BY <1>2, JoinedParts
<1> HIDE DEF x
<1>4. ASSUME NEW i \in 1..Len(p) PROVE x[i] = p[i]
  <2>1. i \in 1..Len(y)
    BY ONLY <1>1, <1>4 DEF Parts2
  <2> QED BY ONLY <2>1, <1>1, <1>3, <1>4 DEF Parts2
<1>5. ASSUME NEW i \in 1..Len(q) PROVE x[Len(p) + i] = q[i]
  <2>1. Len(p) + i \in 1..Len(y)
    BY ONLY <1>1, <1>5 DEF Parts2
  <2> QED BY ONLY <2>1, <1>1, <1>3, <1>5 DEF Parts2
<1>6. /\ x \in Seq(S) /\ Len(x) = Len(p) + Len(q) + Len(r)
      /\ \A i \in 1..Len(r) : x[Len(p) + Len(q) + i] = r[i]
  BY ONLY <1>1, <1>3 DEF Parts2
<1>7. Parts3(S, x, p, q, r)
  BY ONLY <1>1, <1>3, <1>4, <1>5, <1>6 DEF Parts2, Parts3
<1> QED BY <1>7 DEF x, y

\* Of finitely many rows one is the longest.
LEMMA LongestBounds ==
    ASSUME NEW n \in Nat, n > 0, NEW seqs, DOMAIN seqs = 1..n,
           \A i \in 1..n : Len(seqs[i]) \in Nat
    PROVE  /\ Longest(seqs) \in Nat
           /\ \A i \in 1..n : Len(seqs[i]) <= Longest(seqs)
<1> DEFINE Above(k) == {j \in 1..n : Len(seqs[j]) > Len(seqs[k])}
<1> DEFINE T == {Above(k) : k \in 1..n}
<1>1. T \subseteq FiniteSubsetsOf(1..n) /\ T # {}
  <2>1. IsFiniteSet(1..n)
    BY FS_Interval
  <2>2. \A k \in 1..n : IsFiniteSet(Above(k)) /\ Above(k) \subseteq 1..n
    BY <2>1, FS_Subset
  <2>3. 1 \in 1..n
    OBVIOUS
  <2> QED BY <2>2, <2>3 DEF FiniteSubsetsOf
<1>2. IsWellFoundedOn(StrictSubsetOrdering(1..n), FiniteSubsetsOf(1..n))
  BY FS_StrictSubsetOrderingWellFounded
<1> HIDE DEF T
<1>3. PICK x \in T : \A y \in T : ~(<<y, x>> \in StrictSubsetOrdering(1..n))
  BY <1>1, <1>2, WFMin
<1>4. PICK k \in 1..n : x = Above(k)
  BY <1>3 DEF T
<1>5. ASSUME NEW j \in 1..n, Len(seqs[j]) > Len(seqs[k]) PROVE FALSE
  <2>1. Above(j) \in T /\ Above(j) \in SUBSET (1..n) /\ Above(k) \in SUBSET (1..n)
    BY DEF T
  <2>2. Above(j) \subseteq Above(k)
    BY <1>5
  <2>3. j \in Above(k) /\ j \notin Above(j)
    BY <1>5
  <2> HIDE DEF Above
  <2> QED BY <1>3, <1>4, <2>1, <2>2, <2>3 DEF StrictSubsetOrdering
<1> DEFINE Best(m) == m \in {Len(seqs[i]) : i \in 1..n} /\ \A i \in 1..n : Len(seqs[i]) <= m
<1>6. Best(Len(seqs[k]))
  BY <1>5
<1>7. Longest(seqs) = CHOOSE m \in {Len(seqs[i]) : i \in 1..n} : \A i \in 1..n : Len(seqs[i]) <= m
  BY DEF Longest
<1>8. Best(Longest(seqs))
  BY <1>6, <1>7
<1> QED BY <1>8

\* Each padded row is the row, then the fill.
PadsOf(padded, seqs, fill, n) ==
    /\ DOMAIN padded = 1..n /\ Longest(seqs) \in Nat
    /\ \A i \in 1..n :
         /\ Len(seqs[i]) <= Longest(seqs)
         /\ DOMAIN padded[i] = 1..Longest(seqs) /\ Len(padded[i]) = Longest(seqs)
         /\ \A k \in 1..Longest(seqs) :
              padded[i][k] = IF k <= Len(seqs[i]) THEN seqs[i][k] ELSE fill

LEMMA PaddedRows ==
    ASSUME NEW n \in Nat, n > 0, NEW seqs, DOMAIN seqs = 1..n,
           \A j \in 1..n : Len(seqs[j]) \in Nat, NEW fill
    PROVE  PadsOf(Padded(seqs, fill), seqs, fill, n)
<1> DEFINE M == Longest(seqs)
<1>1. M \in Nat /\ \A i \in 1..n : Len(seqs[i]) <= M
  BY LongestBounds
<1> DEFINE f(i) == [k \in 1..M |-> IF k <= Len(seqs[i]) THEN seqs[i][k] ELSE fill]
<1>2. DOMAIN Padded(seqs, fill) = 1..n /\ \A i \in 1..n : Padded(seqs, fill)[i] = f(i)
  BY DEF Padded
<1> DEFINE padded == Padded(seqs, fill)
<1> HIDE DEF M, padded
<1>3. ASSUME NEW i \in 1..n
      PROVE  /\ DOMAIN padded[i] = 1..M /\ Len(padded[i]) = M
             /\ \A k \in 1..M : padded[i][k] = IF k <= Len(seqs[i]) THEN seqs[i][k] ELSE fill
  <2>1. padded[i] = f(i)
    BY <1>2 DEF padded
  <2>2. DOMAIN f(i) = 1..M /\ Len(f(i)) = M
    BY <1>1
  <2>3. \A k \in 1..M : f(i)[k] = IF k <= Len(seqs[i]) THEN seqs[i][k] ELSE fill
    OBVIOUS
  <2> HIDE DEF f
  <2> QED BY <2>1, <2>2, <2>3
<1>4. DOMAIN padded = 1..n
  BY <1>2 DEF padded
<1>5. PadsOf(padded, seqs, fill, n)
  BY <1>1, <1>3, <1>4 DEF PadsOf, M
<1> QED BY <1>5 DEF padded

-----------------------------------------------------------------------------
(* Pieces. *)

PromptNames == {"head", "context", "prompt", "gen"}
AnswerNames == {"hidden", "resp", "tail"}

\* The tokens of sample i.
TokensOf(i) == {<<i, name, j>> : name \in PromptNames \cup AnswerNames, j \in Nat}

LEMMA PieceIs ==
    ASSUME NEW i, NEW name \in PromptNames \cup AnswerNames, NEW n \in Nat
    PROVE  /\ Piece(i, name, n) \in Seq(TokensOf(i)) /\ Len(Piece(i, name, n)) = n
           /\ \A k \in 1..n : Piece(i, name, n)[k] = <<i, name, k>>
<1> DEFINE f == Piece(i, name, n)
<1>1. f = [j \in 1..n |-> <<i, name, j>>]
  BY DEF Piece
<1>2. \A j \in 1..n : <<i, name, j>> \in TokensOf(i)
  BY DEF TokensOf
<1>3. f \in [1..n -> TokensOf(i)]
  BY <1>1, <1>2
<1>4. f \in Seq(TokensOf(i))
  BY <1>3, SeqDef
<1> HIDE DEF f
<1>5. Len(f) = n
  BY <1>3
<1> QED BY <1>1, <1>4, <1>5 DEF f

\* No token is a pad or an ignored label.
LEMMA TokenIs ==
    ASSUME NEW i, NEW t \in TokensOf(i)
    PROVE  t[1] = i /\ t[2] \in PromptNames \cup AnswerNames /\ t # Pad /\ t # Ignored
<1>1. PICK name \in PromptNames \cup AnswerNames, j \in Nat : t = <<i, name, j>>
  BY DEF TokensOf
<1>2. t[1] = i /\ t[2] = name /\ name # "pad" /\ name # "ignored"
  BY <1>1 DEF PromptNames, AnswerNames
<1>3. Pad[2] = "pad" /\ Ignored[2] = "ignored"
  BY DEF Pad, Ignored
<1> QED BY <1>2, <1>3

LEMMA ShapeOf ==
    ASSUME NEW s \in Samples
    PROVE  /\ s.head \in Nat /\ s.context \in Nat /\ s.prompt \in Nat /\ s.gen \in Nat
           /\ s.hidden \in Nat /\ s.resp \in Nat /\ s.tail \in Nat /\ s.span \in Nat
           /\ s.span <= s.resp /\ s.found \in SUBSET Nat
           /\ s.found # {} => s.span # NoSpan
           /\ s.span # NoSpan /\ s.aligned /\ ~s.fused => s.hidden + s.span \in s.found
<1>1. s \in Shape
  BY TokenBounds
<1>2. /\ s.head \in Nat /\ s.context \in Nat /\ s.prompt \in Nat /\ s.gen \in Nat
      /\ s.hidden \in Nat /\ s.resp \in Nat /\ s.tail \in Nat /\ s.span \in Nat
      /\ s.found \in SUBSET Nat
  BY <1>1 DEF Shape
<1> QED BY <1>2, TokenBounds

\* head, prompt, gen
LEMMA PromptLayout ==
    ASSUME NEW s \in Samples, NEW i
    PROVE  /\ PromptIds(s, i) \in Seq(TokensOf(i))
           /\ Len(PromptIds(s, i)) = s.head + s.prompt + s.gen
           /\ \A k \in 1..s.head : PromptIds(s, i)[k] = <<i, "head", k>>
           /\ \A k \in 1..s.prompt : PromptIds(s, i)[s.head + k] = <<i, "prompt", k>>
           /\ \A k \in 1..s.gen : PromptIds(s, i)[s.head + s.prompt + k] = <<i, "gen", k>>
<1> DEFINE p == Piece(i, "head", s.head)
<1> DEFINE q == Piece(i, "prompt", s.prompt)
<1> DEFINE r == Piece(i, "gen", s.gen)
<1>1. /\ p \in Seq(TokensOf(i)) /\ Len(p) = s.head /\ \A k \in 1..s.head : p[k] = <<i, "head", k>>
      /\ q \in Seq(TokensOf(i)) /\ Len(q) = s.prompt /\ \A k \in 1..s.prompt : q[k] = <<i, "prompt", k>>
      /\ r \in Seq(TokensOf(i)) /\ Len(r) = s.gen /\ \A k \in 1..s.gen : r[k] = <<i, "gen", k>>
  BY ShapeOf, PieceIs DEF PromptNames
<1> DEFINE x == PromptIds(s, i)
<1>2. x = p \o q \o r
  BY DEF PromptIds
<1> HIDE DEF p, q, r, x
<1>3. Parts3(TokensOf(i), x, p, q, r)
  <2>1. Parts3(TokensOf(i), p \o q \o r, p, q, r)
    BY <1>1, ThreeParts
  <2> QED BY <1>2, <2>1
<1>4. /\ x \in Seq(TokensOf(i)) /\ Len(x) = s.head + s.prompt + s.gen
      /\ \A k \in 1..s.head : x[k] = <<i, "head", k>>
      /\ \A k \in 1..s.prompt : x[s.head + k] = <<i, "prompt", k>>
      /\ \A k \in 1..s.gen : x[s.head + s.prompt + k] = <<i, "gen", k>>
  BY <1>1, <1>3 DEF Parts3
<1> QED BY <1>4 DEF x

\* Each of its tokens is of one of the three.
LEMMA PromptNamed ==
    ASSUME NEW s \in Samples, NEW i, NEW k \in 1..(s.head + s.prompt + s.gen)
    PROVE  PromptIds(s, i)[k][2] \in {"head", "prompt", "gen"}
<1> DEFINE x == PromptIds(s, i)
<1>1. /\ \A j \in 1..s.head : x[j] = <<i, "head", j>>
      /\ \A j \in 1..s.prompt : x[s.head + j] = <<i, "prompt", j>>
      /\ \A j \in 1..s.gen : x[s.head + s.prompt + j] = <<i, "gen", j>>
  BY PromptLayout
<1>2. s.head \in Nat /\ s.prompt \in Nat /\ s.gen \in Nat
  BY ShapeOf
<1> HIDE DEF x
<1>3. CASE k <= s.head
  <2>1. k \in 1..s.head
    BY <1>2, <1>3
  <2>2. x[k] = <<i, "head", k>>
    BY <1>1, <2>1
  <2> QED BY <2>2 DEF x
<1>4. CASE k > s.head /\ k <= s.head + s.prompt
  <2>1. PICK j \in 1..s.prompt : k = s.head + j
    <3>1. k - s.head \in 1..s.prompt /\ k = s.head + (k - s.head)
      BY <1>2, <1>4
    <3> QED BY <3>1
  <2>2. x[k] = <<i, "prompt", j>>
    BY <1>1, <2>1
  <2> QED BY <2>2 DEF x
<1>5. CASE k > s.head + s.prompt
  <2>1. PICK j \in 1..s.gen : k = s.head + s.prompt + j
    <3>1. k - (s.head + s.prompt) \in 1..s.gen /\ k = s.head + s.prompt + (k - (s.head + s.prompt))
      BY <1>2, <1>5
    <3> QED BY <3>1
  <2>2. x[k] = <<i, "gen", j>>
    BY <1>1, <2>1
  <2> QED BY <2>2 DEF x
<1> QED BY <1>2, <1>3, <1>4, <1>5

\* A slice from the start.
Prefixes(S, x, p, n) ==
    p \in Seq(S) /\ Len(p) = n /\ \A k \in 1..n : p[k] = x[k]

LEMMA CutAt ==
    ASSUME NEW S, NEW x \in Seq(S), NEW n \in Nat, n <= Len(x)
    PROVE  Prefixes(S, x, SubSeq(x, 1, n), n)
<1>1. Len(x) \in Nat
  BY LenProperties
<1>2. \A k \in 1..n : x[k] \in S
  <2>1. \A k \in 1..n : k \in 1..Len(x)
    BY <1>1
  <2> QED BY <2>1, ElementOfSeq
<1> DEFINE y == SubSeq(x, 1, n)
<1>3. /\ y \in Seq(S) /\ Len(y) = (IF 1 <= n THEN n - 1 + 1 ELSE 0)
      /\ \A k \in 1..(n - 1 + 1) : y[k] = x[1 + k - 1]
  BY <1>2, SubSeqProperties
<1> HIDE DEF y
<1>4. (IF 1 <= n THEN n - 1 + 1 ELSE 0) = n /\ n - 1 + 1 = n /\ \A k \in 1..n : 1 + k - 1 = k
  OBVIOUS
<1>5. Prefixes(S, x, y, n)
  BY <1>3, <1>4 DEF Prefixes
<1> QED BY <1>5 DEF y

\* What a tokenizer that fuses two pieces leaves of the first.
Kept1(fused, x) == IF fused /\ x # <<>> THEN SubSeq(x, 1, Len(x) - 1) ELSE x

LEMMA KeptIs ==
    ASSUME NEW S, NEW x \in Seq(S), NEW fused
    PROVE  \E n \in Nat : /\ n <= Len(x) /\ Len(x) <= n + 1 /\ (~fused => n = Len(x))
                         /\ Prefixes(S, x, Kept1(fused, x), n)
<1>1. Len(x) \in Nat
  BY LenProperties
<1>2. CASE fused /\ x # <<>>
  <2>1. Len(x) - 1 \in Nat /\ Len(x) - 1 <= Len(x) /\ Len(x) <= Len(x) - 1 + 1
    BY <1>1, <1>2, EmptySeq
  <2>2. Prefixes(S, x, SubSeq(x, 1, Len(x) - 1), Len(x) - 1)
    BY <2>1, CutAt
  <2>3. Kept1(fused, x) = SubSeq(x, 1, Len(x) - 1)
    BY <1>2 DEF Kept1
  <2> QED BY <1>2, <2>1, <2>2, <2>3
<1>3. CASE ~(fused /\ x # <<>>)
  <2>1. Kept1(fused, x) = x
    BY <1>3 DEF Kept1
  <2>2. Prefixes(S, x, x, Len(x))
    BY DEF Prefixes
  <2> QED BY <1>1, <2>1, <2>2
<1> QED BY <1>2, <1>3

\* The exchange: B tokens of the prompt, then the answer.
Exchange(s, i, x, B) ==
    /\ B \in Nat /\ B <= s.head + s.prompt + s.gen /\ s.head + s.prompt + s.gen <= B + 1
    /\ ~s.fused => B = s.head + s.prompt + s.gen
    /\ x \in Seq(TokensOf(i)) /\ Len(x) = B + s.hidden + s.resp + s.tail
    /\ \A k \in 1..B : x[k][2] \in {"head", "prompt", "gen"}
    /\ \A k \in 1..s.hidden : x[B + k] = <<i, "hidden", k>>
    /\ \A k \in 1..s.resp : x[B + s.hidden + k] = <<i, "resp", k>>
    /\ \A k \in 1..s.tail : x[B + s.hidden + s.resp + k] = <<i, "tail", k>>

LEMMA ExchangeLayout ==
    ASSUME NEW s \in Samples, NEW i
    PROVE  \E B : Exchange(s, i, FullIds(s, i), B)
<1> DEFINE S == TokensOf(i)
<1> DEFINE given == PromptIds(s, i)
<1> DEFINE p == Kept1(s.fused, given)
<1> DEFINE h == Piece(i, "hidden", s.hidden)
<1> DEFINE r == Piece(i, "resp", s.resp)
<1> DEFINE t == Piece(i, "tail", s.tail)
<1>1. given \in Seq(S) /\ Len(given) = s.head + s.prompt + s.gen
  BY PromptLayout
<1>2. \A k \in 1..(s.head + s.prompt + s.gen) : given[k][2] \in {"head", "prompt", "gen"}
  BY PromptNamed
<1>3. FullIds(s, i) = p \o h \o r \o t
  BY DEF FullIds, Kept1
<1>4. /\ h \in Seq(S) /\ Len(h) = s.hidden /\ \A k \in 1..s.hidden : h[k] = <<i, "hidden", k>>
      /\ r \in Seq(S) /\ Len(r) = s.resp /\ \A k \in 1..s.resp : r[k] = <<i, "resp", k>>
      /\ t \in Seq(S) /\ Len(t) = s.tail /\ \A k \in 1..s.tail : t[k] = <<i, "tail", k>>
  BY ShapeOf, PieceIs DEF AnswerNames
<1> DEFINE g == s.head + s.prompt + s.gen
<1>5. g \in Nat /\ s.hidden \in Nat /\ s.resp \in Nat /\ s.tail \in Nat
  BY ShapeOf
<1> HIDE DEF S, given
<1>6. PICK B \in Nat : /\ B <= g /\ g <= B + 1 /\ (~s.fused => B = g)
                       /\ Prefixes(S, given, p, B)
  BY <1>1, KeptIs
<1> HIDE DEF p, h, r, t
<1> DEFINE y == p \o h \o r
<1> DEFINE x == y \o t
<1>7. Parts3(S, y, p, h, r)
  BY <1>4, <1>6, ThreeParts DEF Prefixes
<1> HIDE DEF y
<1>8. Parts2(S, x, y, t)
  BY <1>4, <1>7, JoinedParts DEF Parts3
<1>9. x = FullIds(s, i)
  BY <1>3 DEF y
<1> HIDE DEF x
<1> DEFINE n == s.hidden
<1> DEFINE m == s.resp
<1>10. /\ Len(p) = B /\ Len(h) = n /\ Len(r) = m /\ Len(y) = B + n + m
       /\ Len(x) = B + n + m + s.tail /\ x \in Seq(S) /\ B \in Nat /\ n \in Nat /\ m \in Nat
  BY <1>4, <1>5, <1>6, <1>7, <1>8 DEF Prefixes, Parts2, Parts3
<1>11. \A k \in 1..(B + n + m) : x[k] = y[k]
  BY <1>8, <1>10 DEF Parts2
<1>12. ASSUME NEW k \in 1..B PROVE x[k][2] \in {"head", "prompt", "gen"}
  <2>1. k \in 1..(B + n + m) /\ k \in 1..g
    BY <1>5, <1>6, <1>10
  <2>2. x[k] = given[k]
    BY <1>6, <1>7, <1>10, <1>11, <2>1 DEF Prefixes, Parts3
  <2> HIDE DEF g
  <2> QED BY <1>2, <2>1, <2>2 DEF g
<1>13. ASSUME NEW k \in 1..n PROVE x[B + k] = <<i, "hidden", k>>
  <2>1. B + k \in 1..(B + n + m)
    BY <1>10
  <2>2. y[B + k] = h[k]
    BY <1>7, <1>10 DEF Parts3
  <2> QED BY <1>4, <1>11, <2>1, <2>2
<1>14. ASSUME NEW k \in 1..m PROVE x[B + n + k] = <<i, "resp", k>>
  <2>1. B + n + k \in 1..(B + n + m)
    BY <1>10
  <2>2. y[B + n + k] = r[k]
    BY <1>7, <1>10 DEF Parts3
  <2> QED BY <1>4, <1>11, <2>1, <2>2
<1>15. ASSUME NEW k \in 1..s.tail PROVE x[B + n + m + k] = <<i, "tail", k>>
  BY <1>4, <1>8, <1>10 DEF Parts2
<1>16. Exchange(s, i, x, B)
  BY <1>6, <1>10, <1>12, <1>13, <1>14, <1>15 DEF Exchange, S
<1> QED BY <1>9, <1>16

\* Behind the prompt every token is one of the answer, numbered no higher than
\* where it stands; hidden content, the response in order, and the tail follow
\* each other.
LEMMA AnswerToken ==
    ASSUME NEW s \in Samples, NEW i, NEW x, NEW B, Exchange(s, i, x, B), NEW k \in Nat, B < k, k <= Len(x)
    PROVE  \E name \in {"hidden", "resp", "tail"}, j \in 1..k :
             /\ x[k] = <<i, name, j>>
             /\ name = "hidden" => k <= B + s.hidden
             /\ name = "resp" => k = B + s.hidden + j
             /\ name = "tail" => k > B + s.hidden + s.resp
<1>1. /\ B \in Nat /\ s.hidden \in Nat /\ s.resp \in Nat /\ s.tail \in Nat
      /\ Len(x) = B + s.hidden + s.resp + s.tail
  BY ShapeOf DEF Exchange
<1>2. CASE k <= B + s.hidden
  <2>1. k - B \in 1..s.hidden /\ k = B + (k - B) /\ k - B \in 1..k
    BY <1>1, <1>2
  <2>2. x[k] = <<i, "hidden", k - B>>
    BY <2>1 DEF Exchange
  <2> QED BY <1>2, <2>1, <2>2
<1>3. CASE k > B + s.hidden /\ k <= B + s.hidden + s.resp
  <2> DEFINE j == k - (B + s.hidden)
  <2>1. j \in 1..s.resp /\ k = B + s.hidden + j /\ j \in 1..k
    BY <1>1, <1>3
  <2> HIDE DEF j
  <2>2. x[k] = <<i, "resp", j>>
    BY <2>1 DEF Exchange
  <2> QED BY <2>1, <2>2
<1>4. CASE k > B + s.hidden + s.resp
  <2> DEFINE j == k - (B + s.hidden + s.resp)
  <2>1. j \in 1..s.tail /\ k = B + s.hidden + s.resp + j /\ j \in 1..k
    BY <1>1, <1>4
  <2> HIDE DEF j
  <2>2. x[k] = <<i, "tail", j>>
    BY <2>1 DEF Exchange
  <2> QED BY <1>4, <2>1, <2>2
<1> QED BY <1>1, <1>2, <1>3, <1>4

-----------------------------------------------------------------------------
(* The inputs of a loss. *)

\* What build_chat_inputs makes of a sample: the row, where the labels begin,
\* and that they are the rest of the answer.  Where tokens end with the accepted
\* prefix, the infill is behind that place; where its text is found first at its
\* true end, there is nothing else.
Labelled(s, i, c) ==
    /\ c.ids \in Seq(TokensOf(i)) /\ Len(c.ids) \in Nat
    /\ c.prefix \in Nat /\ c.prefix >= Shorter(s.head + s.prompt + s.gen, Len(c.ids))
    /\ Len(c.labels) = Len(c.ids)
    /\ \A k \in 1..Len(c.ids) : c.labels[k] = IF k <= c.prefix THEN Ignored ELSE c.ids[k]
    /\ \A k \in 1..Len(c.ids) : k > c.prefix =>
         /\ c.ids[k] \in Mine(i, {"hidden", "resp", "tail"})
         /\ FoundFirst(s) /\ s.head + s.prompt + s.gen + s.hidden + s.span <= Len(c.ids)
              => c.ids[k] \in Infill(s, i)
    /\ s.aligned /\ ~s.fused => \A k \in 1..Len(c.ids) : c.ids[k] \in Infill(s, i) => k > c.prefix

LEMMA ChatInputsLabel ==
    ASSUME NEW s \in Samples, NEW i
    PROVE  Labelled(s, i, ChatInputs(s, i))
<1> DEFINE g == Len(PromptIds(s, i))
<1>0. g = s.head + s.prompt + s.gen
  BY PromptLayout
<1> DEFINE whole == FullIds(s, i)
<1> DEFINE L == Shorter(MaxLen, Len(whole))
<1> DEFINE full == SubSeq(whole, 1, L)
<1> DEFINE n == Shorter(g, Len(full))
<1> DEFINE ends == {l \in s.found : n + l <= Len(full)}
<1> DEFINE prefix == IF ends # {} THEN n + (CHOOSE l \in ends : \A m \in ends : l <= m) ELSE n
<1> DEFINE labels == [k \in 1..Len(full) |-> IF k <= prefix THEN Ignored ELSE full[k]]
<1>1. ChatInputs(s, i) = [ids |-> full, prefix |-> prefix, labels |-> labels]
  BY DEF ChatInputs
<1>2. PICK B : Exchange(s, i, whole, B)
  BY ExchangeLayout
<1> HIDE DEF whole
<1>3. /\ g \in Nat /\ B \in Nat /\ B <= g /\ (~s.fused => B = g)
      /\ s.hidden \in Nat /\ s.span \in Nat /\ s.resp \in Nat /\ s.span <= s.resp
      /\ whole \in Seq(TokensOf(i)) /\ Len(whole) \in Nat /\ MaxLen \in Nat
  BY <1>0, <1>2, ShapeOf, LenProperties, TokenBounds DEF Exchange
<1> HIDE DEF g
<1>4. L \in Nat /\ L <= MaxLen /\ L <= Len(whole)
  BY <1>3 DEF Shorter
<1> HIDE DEF L
<1>5. Prefixes(TokensOf(i), whole, full, L)
  BY <1>3, <1>4, CutAt
<1> HIDE DEF full
<1>6. full \in Seq(TokensOf(i)) /\ Len(full) = L /\ \A k \in 1..L : full[k] = whole[k]
  BY <1>5 DEF Prefixes
<1>7. n \in Nat /\ n <= L /\ n <= g /\ (n = g \/ n = L)
  BY <1>3, <1>4, <1>6 DEF Shorter
<1>8. /\ ends \in SUBSET Nat
      /\ ends = {} => prefix = n
      /\ ends # {} => \E l \in ends : prefix = n + l /\ \A m \in ends : l <= m
  <2>1. ends \in SUBSET Nat
    BY ShapeOf
  <2>2. CASE ends # {}
    <3> DEFINE D == ends
    <3>0. D \in SUBSET Nat /\ D # {}
      BY <2>1, <2>2
    <3>1. prefix = n + CHOOSE l \in D : \A m \in D : l <= m
      BY <2>2
    <3> HIDE DEF D
    <3>2. \E l \in D : \A m \in D : l <= m
      BY <3>0, Least
    <3> DEFINE l0 == CHOOSE l \in D : \A m \in D : l <= m
    <3>3. l0 \in D /\ \A m \in D : l0 <= m
      BY <3>2
    <3>4. prefix = n + l0
      BY <3>1
    <3> HIDE DEF l0, prefix, n
    <3>5. \E l \in D : prefix = n + l /\ \A m \in D : l <= m
      BY <3>3, <3>4
    <3> QED BY <2>1, <2>2, <3>5 DEF D
  <2> QED BY <2>1, <2>2
<1>9. \A l \in s.found : n + l <= L => l \in ends
  BY <1>6
<1>10. \A l \in ends : l \in s.found /\ n + l <= L
  BY <1>6
<1>11. /\ Len(labels) = L
       /\ \A k \in 1..L : labels[k] = IF k <= prefix THEN Ignored ELSE full[k]
  <2> HIDE DEF prefix
  <2> QED BY <1>4, <1>6
<1>12. n = Shorter(g, L)
  BY <1>6
<1> HIDE DEF n, ends, prefix, labels
<1>13. prefix \in Nat /\ prefix >= n /\ prefix <= L
  <2>1. CASE ends = {}
    BY <1>7, <1>8, <2>1
  <2>2. CASE ends # {}
    <3>1. PICK l \in ends : prefix = n + l
      BY <1>8, <2>2
    <3>2. l \in Nat /\ n + l <= L
      BY <1>8, <1>10
    <3> QED BY <1>7, <3>1, <3>2
  <2> QED BY <2>1, <2>2
\* A token behind the prompt, by its piece.
<1>14. ASSUME NEW k \in 1..L, k > n
       PROVE  /\ n = g
              /\ \E name \in {"hidden", "resp", "tail"}, j \in 1..MaxLen :
                   /\ full[k] = <<i, name, j>>
                   /\ name = "hidden" => k <= B + s.hidden
                   /\ name = "resp" => k = B + s.hidden + j
                   /\ name = "tail" => k > B + s.hidden + s.resp
  <2>1. n = g /\ k > B /\ k \in Nat /\ k <= Len(whole) /\ k <= MaxLen
    BY <1>3, <1>4, <1>7, <1>14
  <2>2. PICK name \in {"hidden", "resp", "tail"}, j \in 1..k :
          /\ whole[k] = <<i, name, j>>
          /\ name = "hidden" => k <= B + s.hidden
          /\ name = "resp" => k = B + s.hidden + j
          /\ name = "tail" => k > B + s.hidden + s.resp
    BY <1>2, <2>1, AnswerToken
  <2>3. full[k] = <<i, name, j>> /\ j \in 1..MaxLen
    BY <1>3, <1>6, <2>1, <2>2
  <2> QED BY <2>1, <2>2, <2>3
<1>15. ASSUME NEW k \in 1..L, k > prefix
       PROVE  full[k] \in Mine(i, {"hidden", "resp", "tail"})
  <2>1. k > n
    BY <1>4, <1>7, <1>13, <1>15
  <2>2. PICK name \in {"hidden", "resp", "tail"}, j \in 1..MaxLen : full[k] = <<i, name, j>>
    BY <1>14, <2>1
  <2> QED BY <2>2 DEF Mine
<1>16. ASSUME NEW k \in 1..L, k > prefix, FoundFirst(s), g + s.hidden + s.span <= L
       PROVE  full[k] \in Infill(s, i)
  <2>1. n = g
    BY <1>3, <1>4, <1>12, <1>16 DEF Shorter
  <2>2. s.hidden + s.span \in s.found /\ s.span # NoSpan /\ ~s.fused
    BY <1>16, ShapeOf DEF FoundFirst
  <2>3. s.hidden + s.span \in ends
    BY <1>3, <1>9, <1>16, <2>1, <2>2
  <2>4. PICK l \in ends : prefix = n + l
    BY <1>8, <2>3
  <2>5. l \in Nat /\ l >= s.hidden + s.span
    BY <1>8, <1>10, <1>16, <2>4 DEF FoundFirst
  <2>6. k > B + s.hidden + s.span /\ k > n
    BY <1>3, <1>4, <1>7, <1>13, <1>16, <2>1, <2>2, <2>4, <2>5
  <2>7. PICK name \in {"hidden", "resp", "tail"}, j \in 1..MaxLen :
          /\ full[k] = <<i, name, j>>
          /\ name = "hidden" => k <= B + s.hidden
          /\ name = "resp" => k = B + s.hidden + j
    BY <1>14, <2>6
  <2>8. name # "hidden" /\ (name = "resp" => j > s.span)
    BY <1>3, <1>4, <2>6, <2>7
  <2>9. full[k] \in Mine(i, {"resp", "tail"}) /\ full[k][2] = name /\ full[k][3] = j
    BY <2>7, <2>8 DEF Mine
  <2> QED BY <2>7, <2>8, <2>9 DEF Infill
<1>17. ASSUME s.aligned, ~s.fused, NEW k \in 1..L, full[k] \in Infill(s, i)
       PROVE  k > prefix
  <2>1. full[k][2] \in {"resp", "tail"} /\ (full[k][2] = "tail" \/ full[k][3] > s.span)
    BY <1>17 DEF Infill, Mine
  <2>2. k > B
    <3>1. ASSUME k <= B PROVE FALSE
      <4>1. k \in 1..B /\ full[k] = whole[k]
        BY <1>3, <1>6, <3>1
      <4>2. whole[k][2] \in {"head", "prompt", "gen"}
        BY <1>2, <4>1 DEF Exchange
      <4> QED BY <2>1, <4>1, <4>2
    <3> QED BY <1>3, <1>4, <3>1
  <2>3. k > n
    BY <1>3, <1>4, <1>7, <1>17, <2>2
  <2>4. PICK name \in {"hidden", "resp", "tail"}, j \in 1..MaxLen :
          /\ full[k] = <<i, name, j>>
          /\ name = "resp" => k = B + s.hidden + j
          /\ name = "tail" => k > B + s.hidden + s.resp
    BY <1>14, <2>3
  <2>5. n = g /\ B = g
    BY <1>3, <1>14, <1>17, <2>3
  <2>6. k > g + s.hidden + s.span
    <3>1. name \in {"resp", "tail"} /\ (name = "tail" \/ j > s.span)
      BY <2>1, <2>4
    <3> QED BY <1>3, <1>4, <2>4, <2>5, <3>1
  <2>7. CASE ends = {}
    BY <1>8, <2>3, <2>7
  <2>8. CASE ends # {}
    <3>1. PICK l \in ends : prefix = n + l /\ \A m \in ends : l <= m
      BY <1>8, <2>8
    <3>2. s.hidden + s.span \in s.found
      BY <1>10, <1>17, <3>1, ShapeOf
    <3>3. s.hidden + s.span \in ends
      BY <1>3, <1>4, <1>9, <2>5, <2>6, <3>2
    <3>4. l \in Nat /\ l <= s.hidden + s.span
      BY <1>8, <3>1, <3>3
    <3> QED BY <1>3, <1>4, <2>5, <2>6, <3>1, <3>4
  <2> QED BY <2>7, <2>8
<1> DEFINE c == [ids |-> full, prefix |-> prefix, labels |-> labels]
<1>18. c.ids = full /\ c.prefix = prefix /\ c.labels = labels
  OBVIOUS
<1> HIDE DEF c
<1>19. /\ prefix >= Shorter(s.head + s.prompt + s.gen, Len(full))
       /\ g = s.head + s.prompt + s.gen
  BY <1>0, <1>6, <1>12, <1>13
<1>20. Labelled(s, i, c)
  BY ONLY <1>4, <1>6, <1>11, <1>13, <1>15, <1>16, <1>17, <1>18, <1>19 DEF Labelled
<1> QED BY <1>1, <1>20 DEF c

-----------------------------------------------------------------------------
(* The objectives. *)

LEMMA BatchIs ==
    ASSUME NEW b \in Batches
    PROVE  \E n \in Nat : n > 0 /\ DOMAIN b = 1..n /\ \A i \in 1..n : b[i] \in Samples
<1>1. PICK n \in 1..MaxBatch : b \in [1..n -> Samples]
  BY DEF Batches
<1>2. n \in Nat /\ n > 0
  BY TokenBounds
<1> QED BY <1>1, <1>2

\* A row without its pads is the row that was padded.
LEMMA UnpaddedRow ==
    ASSUME NEW i, NEW x \in Seq(TokensOf(i)), NEW M \in Nat, Len(x) <= M, NEW row,
           DOMAIN row = 1..M, \A k \in 1..M : row[k] = IF k <= Len(x) THEN x[k] ELSE Pad
    PROVE  Unpadded(row) = x
<1>1. Len(x) \in Nat
  BY LenProperties
<1>2. \A k \in 1..Len(x) : k \in 1..M /\ x[k] # Pad /\ row[k] = x[k]
  BY <1>1, ElementOfSeq, TokenIs
<1>3. {k \in DOMAIN row : row[k] # Pad} = 1..Len(x)
  BY <1>1, <1>2
<1>4. Cardinality(1..Len(x)) = Len(x)
  <2>1. \A m \in Nat : Cardinality(1..m) = m
    BY FS_Interval
  <2> QED BY <1>1, <2>1
<1> DEFINE y == SubSeq(row, 1, Len(x))
<1>5. Unpadded(row) = y
  BY <1>3, <1>4 DEF Unpadded
<1>6. \A k \in 1..Len(x) : row[k] \in TokensOf(i)
  BY <1>2, ElementOfSeq
<1>7. /\ y \in Seq(TokensOf(i)) /\ Len(y) = (IF 1 <= Len(x) THEN Len(x) - 1 + 1 ELSE 0)
      /\ \A k \in 1..(Len(x) - 1 + 1) : y[k] = row[1 + k - 1]
  BY <1>1, <1>6, SubSeqProperties
<1> HIDE DEF y
<1>8. Len(y) = Len(x) /\ \A k \in 1..Len(x) : y[k] = x[k]
  <2>1. /\ (IF 1 <= Len(x) THEN Len(x) - 1 + 1 ELSE 0) = Len(x) /\ Len(x) - 1 + 1 = Len(x)
        /\ \A k \in 1..Len(x) : 1 + k - 1 = k
    BY <1>1
  <2> QED BY <1>2, <1>7, <2>1
<1>9. y = x
  BY <1>7, <1>8, SeqEqual
<1> QED BY <1>5, <1>9

\* One row of a batch whose responses are trained.
SupervisedRow(s, i, row, prefix, targets, tokens, norm) ==
    /\ targets = {p \in 0..(Len(row) - 2) : p + 1 >= prefix}
    /\ \A x \in tokens :
         /\ x[2] = PyAt(row, x[1] + 1)
         /\ x[2] \in Mine(i, {"hidden", "resp", "tail"})
         /\ FoundFirst(s) /\ s.head + s.prompt + s.gen + s.hidden + s.span <= Len(row)
              => x[2] \in Infill(s, i)
    /\ s.aligned /\ ~s.fused =>
         \A k \in 2..Len(row) : row[k] \in Infill(s, i) => <<k - 2, row[k]>> \in tokens
    /\ norm >= 1
    /\ targets # {} => norm = Cardinality(tokens)
    /\ prefix >= Shorter(s.head + s.prompt + s.gen, Len(row))

LEMMA RowIsSupervised ==
    ASSUME NEW s \in Samples, NEW i, NEW c, Labelled(s, i, c), NEW M \in Nat, Len(c.ids) <= M,
           NEW labels, Len(labels) = M,
           \A k \in 1..M : labels[k] = IF k <= Len(c.labels) THEN c.labels[k] ELSE Ignored,
           NEW targets, targets = {p \in 0..(Len(labels) - 2) : labels[p + 2] # Ignored},
           NEW tokens, tokens = {<<p, PyAt(labels, p + 1)>> : p \in targets},
           NEW norm, norm = IF targets = {} THEN 1 ELSE Cardinality(targets)
    PROVE  SupervisedRow(s, i, c.ids, c.prefix, targets, tokens, norm)
<1> DEFINE x == c.ids
<1> DEFINE n == Len(c.ids)
<1>1. /\ x \in Seq(TokensOf(i)) /\ n \in Nat /\ Len(c.labels) = n /\ n <= M /\ c.prefix \in Nat
      /\ DOMAIN x = 1..n /\ Len(x) = n
  BY LenProperties DEF Labelled
<1>2. \A k \in 1..n : x[k] # Ignored
  BY <1>1, ElementOfSeq, TokenIs
<1>3. \A k \in 1..M : labels[k] = IF k <= n /\ k > c.prefix THEN x[k] ELSE Ignored
  BY <1>1 DEF Labelled
<1> HIDE DEF x, n
<1>4. \A k \in 1..M : labels[k] # Ignored <=> k <= n /\ k > c.prefix
  BY <1>1, <1>2, <1>3
<1>5. targets = {p \in 0..(n - 2) : p + 1 >= c.prefix}
  <2>1. ASSUME NEW p \in Nat PROVE p \in targets <=> p \in 0..(n - 2) /\ p + 1 >= c.prefix
    <3>1. p \in 0..(M - 2) <=> p + 2 \in 1..M
      OBVIOUS
    <3>2. p + 2 <= n /\ p + 2 > c.prefix <=> p \in 0..(n - 2) /\ p + 1 >= c.prefix
      BY <1>1
    <3>3. p \in targets <=> p + 2 \in 1..M /\ labels[p + 2] # Ignored
      BY <3>1
    <3>4. p + 2 <= n => p + 2 \in 1..M
      BY <1>1
    <3> QED BY <1>4, <3>2, <3>3, <3>4
  <2>2. targets \subseteq Nat /\ {p \in 0..(n - 2) : p + 1 >= c.prefix} \subseteq Nat
    BY <1>1
  <2> QED BY <2>1, <2>2
<1>6. ASSUME NEW p \in targets
      PROVE  /\ p \in Nat /\ p + 2 \in 1..n /\ p + 2 > c.prefix
             /\ PyAt(labels, p + 1) = x[p + 2] /\ PyAt(x, p + 1) = x[p + 2]
  <2>1. p \in Nat /\ p + 2 \in 1..n /\ p + 2 > c.prefix
    <3>1. p \in 0..(n - 2) /\ p + 1 >= c.prefix
      BY ONLY <1>5, <1>6
    <3> QED BY ONLY <1>1, <3>1
  <2>2. ~(p + 1 < 0) /\ p + 1 + 1 = p + 2
    BY <2>1
  <2>3. PyAt(labels, p + 1) = labels[p + 2] /\ PyAt(x, p + 1) = x[p + 2]
    BY <2>2 DEF PyAt
  <2>4. labels[p + 2] = x[p + 2]
    <3>1. p + 2 \in 1..M /\ p + 2 <= n
      BY ONLY <1>1, <2>1, M \in Nat
    <3> QED BY ONLY <1>3, <2>1, <3>1
  <2> QED BY <2>1, <2>3, <2>4
<1>7. ASSUME NEW z \in tokens
      PROVE  /\ z[2] = PyAt(x, z[1] + 1)
             /\ z[2] \in Mine(i, {"hidden", "resp", "tail"})
             /\ FoundFirst(s) /\ s.head + s.prompt + s.gen + s.hidden + s.span <= n
                  => z[2] \in Infill(s, i)
  <2>1. PICK p \in targets : z = <<p, PyAt(labels, p + 1)>>
    OBVIOUS
  <2>2. z[1] = p /\ z[2] = x[p + 2] /\ z[2] = PyAt(x, z[1] + 1)
    BY <1>6, <2>1
  <2>3. p + 2 \in 1..n /\ p + 2 > c.prefix
    BY <1>6
  <2> DEFINE k == p + 2
  <2> HIDE DEF k
  <2>4. k \in 1..n /\ k > c.prefix /\ z[2] = x[k]
    BY <2>2, <2>3 DEF k
  <2>5. /\ x[k] \in Mine(i, {"hidden", "resp", "tail"})
        /\ FoundFirst(s) /\ s.head + s.prompt + s.gen + s.hidden + s.span <= n
             => x[k] \in Infill(s, i)
    BY <2>4 DEF Labelled, x, n
  <2> QED BY <1>1, <2>2, <2>4, <2>5
<1>8. IsFiniteSet(targets) /\ Cardinality(targets) \in Nat
  <2>1. IsFiniteSet(0..(n - 2))
    BY <1>1, FS_Interval
  <2>2. targets \in SUBSET (0..(n - 2))
    BY <1>5
  <2> QED BY <2>1, <2>2, FS_Subset, FS_CardinalityType
<1>9. norm >= 1
  <2>1. targets # {} => Cardinality(targets) # 0
    BY <1>8, FS_EmptySet
  <2> QED BY <1>8, <2>1
<1>10. Cardinality(tokens) = Cardinality(targets)
  <2> DEFINE f == [p \in targets |-> <<p, PyAt(labels, p + 1)>>]
  <2>1. f \in [targets -> tokens] /\ \A p \in targets : f[p] = <<p, PyAt(labels, p + 1)>>
    OBVIOUS
  <2>2. \A p, q \in targets : f[p] = f[q] => p = q
    OBVIOUS
  <2>3. \A z \in tokens : \E p \in targets : f[p] = z
    OBVIOUS
  <2> HIDE DEF f
  <2>4. f \in Bijection(targets, tokens)
    BY <2>1, <2>2, <2>3 DEF Bijection, Injection, Surjection, IsInjective
  <2>5. ExistsBijection(targets, tokens)
    BY <2>4 DEF ExistsBijection
  <2> QED BY <1>8, <2>5, FS_Bijection
<1>11. c.prefix >= Shorter(s.head + s.prompt + s.gen, n)
  BY DEF Labelled, n
<1>12. targets # {} => norm = Cardinality(tokens)
  BY <1>10
<1>13. ASSUME s.aligned, ~s.fused, NEW k \in 2..n, x[k] \in Infill(s, i)
       PROVE  <<k - 2, x[k]>> \in tokens
  <2>1. k \in 1..n /\ k - 2 \in 0..(n - 2) /\ k - 2 + 2 = k /\ k - 2 + 1 = k - 1
    BY <1>1
  <2>2. k > c.prefix
    BY <1>13, <2>1 DEF Labelled, x, n
  <2>3. PICK p : p = k - 2
    OBVIOUS
  <2>4. p \in 0..(n - 2) /\ p + 1 >= c.prefix
    BY <1>1, <2>1, <2>2, <2>3
  <2>5. p \in targets
    BY ONLY <1>5, <2>4
  <2>6. PyAt(labels, p + 1) = x[p + 2] /\ p + 2 = k
    BY <1>6, <2>1, <2>3, <2>5
  <2> QED BY <2>3, <2>5, <2>6
<1>14. SupervisedRow(s, i, x, c.prefix, targets, tokens, norm)
  <2>1. Len(x) = n
    BY <1>1
  <2> HIDE DEF n
  <2> QED BY ONLY <1>5, <1>7, <1>9, <1>11, <1>12, <1>13, <2>1 DEF SupervisedRow
<1> QED BY <1>14 DEF x

\* A batch of sft, coh, kto or hinge: row by row what RowIsSupervised says.
LEMMA ResponsesStep ==
    ASSUME NEW b \in Batches, TrainResponses(b)
    PROVE  TokensType' /\ GradientsMeetTheirTokens'
<1> DEFINE inputs == [i \in DOMAIN b |-> ChatInputs(b[i], i)]
<1> DEFINE ids == [i \in DOMAIN inputs |-> inputs[i].ids]
<1> DEFINE lbs == [i \in DOMAIN inputs |-> inputs[i].labels]
<1> DEFINE labels == Padded(lbs, Ignored)
<1> DEFINE targets == Targets(labels)
<1> DEFINE tokens == [i \in DOMAIN labels |-> {<<p, PyAt(labels[i], p + 1)>> : p \in targets[i]}]
<1> DEFINE norm == [i \in DOMAIN labels |-> IF targets[i] = {} THEN 1 ELSE Cardinality(targets[i])]
<1> DEFINE prefix == [i \in DOMAIN inputs |-> inputs[i].prefix]
<1> DEFINE rows == Padded(ids, Pad)
<1>1. /\ objective' = "responses" /\ samples' = b
      /\ trained' = [rows |-> rows, prefix |-> prefix, targets |-> targets, tokens |-> tokens,
                     norm |-> norm]
  BY DEF TrainResponses, Called
<1>2. PICK n \in Nat : n > 0 /\ DOMAIN b = 1..n /\ \A i \in 1..n : b[i] \in Samples
  BY BatchIs
<1>3. /\ DOMAIN inputs = 1..n /\ \A i \in 1..n : inputs[i] = ChatInputs(b[i], i)
  BY <1>2
<1> HIDE DEF inputs
<1>4. \A i \in 1..n : Labelled(b[i], i, inputs[i])
  BY <1>2, <1>3, ChatInputsLabel
<1>5. /\ DOMAIN ids = 1..n /\ \A i \in 1..n : ids[i] = inputs[i].ids
      /\ DOMAIN lbs = 1..n /\ \A i \in 1..n : lbs[i] = inputs[i].labels
      /\ DOMAIN prefix = 1..n /\ \A i \in 1..n : prefix[i] = inputs[i].prefix
  BY <1>3
<1> HIDE DEF ids, lbs, prefix
<1>6. \A i \in 1..n : Len(ids[i]) \in Nat /\ Len(lbs[i]) = Len(ids[i])
  BY <1>4, <1>5 DEF Labelled
<1>7. PadsOf(labels, lbs, Ignored, n)
  BY ONLY <1>2, <1>5, <1>6, PaddedRows
<1>8. PadsOf(rows, ids, Pad, n)
  BY ONLY <1>2, <1>5, <1>6, PaddedRows
<1>10. DOMAIN labels = 1..n /\ DOMAIN rows = 1..n
  BY <1>7, <1>8 DEF PadsOf
<1> HIDE DEF labels
<1>11. \A i \in 1..n :
         /\ targets[i] = {p \in 0..(Len(labels[i]) - 2) : labels[i][p + 2] # Ignored}
         /\ tokens[i] = {<<p, PyAt(labels[i], p + 1)>> : p \in targets[i]}
         /\ norm[i] = IF targets[i] = {} THEN 1 ELSE Cardinality(targets[i])
  BY <1>10 DEF Targets
<1> HIDE DEF targets, tokens, norm, rows
<1>12. ASSUME NEW i \in 1..n
       PROVE  SupervisedRow(b[i], i, Unpadded(rows[i]), prefix[i], targets[i], tokens[i], norm[i])
  <2> DEFINE c == inputs[i]
  <2> DEFINE s == b[i]
  <2> DEFINE M == Longest(lbs)
  <2> DEFINE lb == labels[i]
  <2> DEFINE tg == targets[i]
  <2> DEFINE tk == tokens[i]
  <2> DEFINE nm == norm[i]
  <2>1. /\ s \in Samples /\ Labelled(s, i, c) /\ M \in Nat /\ Len(c.ids) <= M /\ Len(lb) = M
        /\ \A k \in 1..M : lb[k] = IF k <= Len(c.labels) THEN c.labels[k] ELSE Ignored
    BY <1>2, <1>4, <1>5, <1>6, <1>7 DEF PadsOf
  <2>2. /\ tg = {p \in 0..(Len(lb) - 2) : lb[p + 2] # Ignored}
        /\ tk = {<<p, PyAt(lb, p + 1)>> : p \in tg}
        /\ nm = IF tg = {} THEN 1 ELSE Cardinality(tg)
    BY <1>11
  <2> HIDE DEF c, s, M, lb, tg, tk, nm
  <2>3. SupervisedRow(s, i, c.ids, c.prefix, tg, tk, nm)
    BY ONLY <2>1, <2>2, RowIsSupervised
  <2>4. c.ids = ids[i] /\ c.prefix = prefix[i]
    BY <1>5 DEF c
  <2>5. Unpadded(rows[i]) = ids[i]
    <3> DEFINE x == ids[i]
    <3> DEFINE row == rows[i]
    <3> DEFINE M2 == Longest(ids)
    <3>1. x \in Seq(TokensOf(i))
      BY <2>1, <2>4 DEF Labelled
    <3>2. /\ M2 \in Nat /\ Len(x) <= M2 /\ DOMAIN row = 1..M2
          /\ \A k \in 1..M2 : row[k] = IF k <= Len(x) THEN x[k] ELSE Pad
      BY <1>8 DEF PadsOf
    <3> HIDE DEF x, row, M2
    <3>3. Unpadded(row) = x
      BY ONLY <3>1, <3>2, UnpaddedRow
    <3> QED BY <3>3 DEF x, row
  <2>6. SupervisedRow(b[i], i, ids[i], prefix[i], targets[i], tokens[i], norm[i])
    BY <2>3, <2>4 DEF s, tg, tk, nm
  <2> QED BY <2>5, <2>6
<1>13. /\ trained'.rows = rows /\ trained'.prefix = prefix /\ trained'.targets = targets
       /\ trained'.tokens = tokens /\ trained'.norm = norm
  BY <1>1
<1>14. SupervisedExactly'
  <2>1. DOMAIN samples' = 1..n
    BY <1>1, <1>2
  <2>2. ASSUME NEW i \in 1..n
        PROVE  LET s == samples'[i]
                   row == Unpadded(trained'.rows[i])
                   given == s.head + s.prompt + s.gen
               IN  /\ trained'.targets[i] = {p \in 0..(Len(row) - 2) : p + 1 >= trained'.prefix[i]}
                   /\ \A x \in trained'.tokens[i] :
                        /\ x[2] = PyAt(row, x[1] + 1)
                        /\ x[2] \in Mine(i, {"hidden", "resp", "tail"})
                        /\ FoundFirst(s) /\ given + s.hidden + s.span <= Len(row) => x[2] \in Infill(s, i)
                   /\ s.aligned /\ ~s.fused =>
                        \A k \in 2..Len(row) :
                          row[k] \in Infill(s, i) => <<k - 2, row[k]>> \in trained'.tokens[i]
                   /\ trained'.norm[i] >= 1
                   /\ trained'.targets[i] # {} => trained'.norm[i] = Cardinality(trained'.tokens[i])
                   /\ trained'.prefix[i] >= Shorter(given, Len(row))
    <3>1. SupervisedRow(samples'[i], i, Unpadded(trained'.rows[i]), trained'.prefix[i],
                        trained'.targets[i], trained'.tokens[i], trained'.norm[i])
      BY ONLY <1>1, <1>12, <1>13
    <3> QED BY ONLY <3>1 DEF SupervisedRow
  <2> QED BY ONLY <2>1, <2>2 DEF SupervisedExactly
<1>15. (AnchorSitsOnPush /\ DistilledOnItself)'
  BY <1>1 DEF AnchorSitsOnPush, DistilledOnItself
<1>16. TokensType'
  <2>1. Len(rows) = n
    BY <1>10 DEF rows, Padded
  <2>2. Len(b) = n
    BY <1>2 DEF Batches
  <2>3. samples' \in UNION {[1..m -> Samples] : m \in 0..MaxBatch}
    BY <1>1, TokenBounds DEF Batches
  <2> QED BY <1>1, <1>13, <2>1, <2>2, <2>3 DEF TokensType
<1> QED BY <1>14, <1>15, <1>16 DEF GradientsMeetTheirTokens

\* A list of samples of a batch.
LEMMA ListIs ==
    ASSUME NEW n \in Nat, NEW b, b \in Seq(Samples), Len(b) = n, NEW l \in Lists(b)
    PROVE  /\ l \in Seq(1..n) /\ Len(l) \in Nat /\ DOMAIN l = 1..Len(l) /\ Len(l) <= n
           /\ \A j \in 1..Len(l) : l[j] \in 1..n
<1>1. PICK m \in 0..n, k \in 0..n : m + k <= n /\ l = [j \in 1..k |-> m + j]
  BY DEF Lists
<1>2. k \in Nat /\ m \in Nat /\ k <= n /\ \A j \in 1..k : m + j \in 1..n
  BY <1>1
<1>3. l \in [1..k -> 1..n]
  BY <1>1, <1>2
<1>4. l \in Seq(1..n)
  BY <1>2, <1>3, SeqDef
<1>5. Len(l) = k /\ DOMAIN l = 1..k
  BY <1>2, <1>3
<1> QED BY <1>2, <1>3, <1>4, <1>5

\* The prefixes of the samples of a list.
LEMMA PrefixesOf ==
    ASSUME NEW b, NEW n \in Nat, \A i \in 1..n : b[i] \in Samples,
           NEW of, NEW m \in Nat, DOMAIN of = 1..m, \A j \in 1..m : of[j] \in 1..n,
           NEW j \in 1..m
    PROVE  /\ PromptIds(b[of[j]], of[j]) \in Seq(TokensOf(of[j]))
           /\ Len(PromptIds(b[of[j]], of[j])) \in Nat
           /\ Len(PromptIds(b[of[j]], of[j])) = b[of[j]].head + b[of[j]].prompt + b[of[j]].gen
<1>1. b[of[j]] \in Samples
  OBVIOUS
<1>2. /\ PromptIds(b[of[j]], of[j]) \in Seq(TokensOf(of[j]))
      /\ Len(PromptIds(b[of[j]], of[j])) = b[of[j]].head + b[of[j]].prompt + b[of[j]].gen
  BY <1>1, PromptLayout
<1> QED BY <1>2, LenProperties

\* The last token of a row, in the row padded.
LEMMA LastOfPadded ==
    ASSUME NEW n \in Nat, NEW seqs, NEW padded, PadsOf(padded, seqs, Pad, n),
           NEW i \in 1..n, Len(seqs[i]) \in Nat, Len(seqs[i]) > 0
    PROVE  PyAt(padded[i], Len(seqs[i]) - 1) = seqs[i][Len(seqs[i])]
<1> DEFINE L == Len(seqs[i])
<1>1. L \in Nat /\ L > 0
  OBVIOUS
<1>2. Longest(seqs) \in Nat /\ L <= Longest(seqs)
  BY DEF PadsOf
<1> HIDE DEF L
<1>3. L \in 1..Longest(seqs) /\ ~(L - 1 < 0) /\ L - 1 + 1 = L
  BY <1>1, <1>2
<1>4. padded[i][L] = seqs[i][L]
  BY <1>1, <1>3 DEF PadsOf, L
<1> QED BY <1>3, <1>4 DEF PyAt, L

\* A batch of unlike with its anchor.
LEMMA PushDownStep ==
    ASSUME NEW b \in Batches, NEW default \in Lists(b), NEW front \in Lists(b),
           NEW own \in Lists(b) \cup {NoOwn},
           Called("push_down", b), PushedDown(b, default, own, front)
    PROVE  TokensType' /\ GradientsMeetTheirTokens'
<1> DEFINE of == IF own = NoOwn THEN default ELSE own
<1> DEFINE anchorOf == IF default # <<>> THEN default ELSE IF front # <<>> THEN front ELSE of
<1> DEFINE prefixes == [i \in DOMAIN of |-> PromptIds(b[of[i]], of[i])]
<1> DEFINE held == [i \in DOMAIN anchorOf |-> PromptIds(b[anchorOf[i]], anchorOf[i])]
<1> DEFINE anchored == [i \in DOMAIN held |-> IF held[i] = <<>> THEN <<Pad>> ELSE held[i]]
<1> DEFINE rows == Padded(prefixes, Pad)
<1> DEFINE pushed == [i \in DOMAIN prefixes |-> Len(prefixes[i]) - 1]
<1> DEFINE monitored == [i \in DOMAIN prefixes |-> IF b[of[i]].good THEN {Len(prefixes[i]) - 1} ELSE {}]
<1> DEFINE request == [default |-> default, own |-> own, front |-> front]
<1> DEFINE anchorRows == Padded(anchored, Pad)
<1> DEFINE anchor == [i \in DOMAIN anchored |-> Len(anchored[i]) - 1]
<1>1. /\ objective' = "push_down" /\ samples' = b /\ of # <<>>
      /\ trained' = [rows |-> rows, of |-> of, pushed |-> pushed, monitored |-> monitored,
                     request |-> request, anchorRows |-> anchorRows, anchorOf |-> anchorOf,
                     anchor |-> anchor]
  BY DEF PushedDown, Called
<1>2. PICK n \in Nat : n > 0 /\ DOMAIN b = 1..n /\ \A i \in 1..n : b[i] \in Samples
  BY BatchIs
<1>3. b \in Seq(Samples) /\ Len(b) = n
  <2>1. b \in [1..n -> Samples]
    BY <1>2 DEF Batches
  <2> QED BY <2>1, SeqDef
<1>4. of \in Lists(b) /\ anchorOf \in Lists(b) /\ anchorOf # <<>>
  BY <1>1
<1>5. own = NoOwn \/ (default = <<>> /\ front = <<>>) => anchorOf = of
  BY <1>1
<1> HIDE DEF of, anchorOf
<1>6. PICK m \in Nat : m > 0 /\ m <= n /\ DOMAIN of = 1..m /\ \A j \in 1..m : of[j] \in 1..n
  <2>1. of \in Seq(1..n) /\ Len(of) \in Nat /\ DOMAIN of = 1..Len(of) /\ Len(of) <= n
        /\ \A j \in 1..Len(of) : of[j] \in 1..n
    BY <1>3, <1>4, ListIs
  <2>2. Len(of) > 0
    BY <1>1, <2>1, EmptySeq
  <2> QED BY <2>1, <2>2
<1>7. PICK a \in Nat : a > 0 /\ DOMAIN anchorOf = 1..a /\ \A j \in 1..a : anchorOf[j] \in 1..n
  <2>1. anchorOf \in Seq(1..n) /\ Len(anchorOf) \in Nat /\ DOMAIN anchorOf = 1..Len(anchorOf)
        /\ \A j \in 1..Len(anchorOf) : anchorOf[j] \in 1..n
    BY <1>3, <1>4, ListIs
  <2>2. Len(anchorOf) > 0
    BY <1>4, <2>1, EmptySeq
  <2> QED BY <2>1, <2>2
<1>8. /\ DOMAIN prefixes = 1..m /\ \A i \in 1..m : prefixes[i] = PromptIds(b[of[i]], of[i])
      /\ DOMAIN held = 1..a /\ \A i \in 1..a : held[i] = PromptIds(b[anchorOf[i]], anchorOf[i])
      /\ DOMAIN anchored = 1..a
      /\ \A i \in 1..a : anchored[i] = IF held[i] = <<>> THEN <<Pad>> ELSE held[i]
      /\ \A i \in 1..m : pushed[i] = Len(prefixes[i]) - 1
      /\ \A i \in 1..a : anchor[i] = Len(anchored[i]) - 1
      /\ \A i \in 1..m : monitored[i] \subseteq {pushed[i]}
  BY <1>6, <1>7
<1> HIDE DEF prefixes, held, anchored, pushed, anchor, monitored, request
<1>9. ASSUME NEW i \in 1..m
      PROVE  /\ prefixes[i] \in Seq(TokensOf(of[i])) /\ Len(prefixes[i]) \in Nat
             /\ Len(prefixes[i]) = b[of[i]].head + b[of[i]].prompt + b[of[i]].gen
  <2>1. /\ PromptIds(b[of[i]], of[i]) \in Seq(TokensOf(of[i])) /\ Len(PromptIds(b[of[i]], of[i])) \in Nat
        /\ Len(PromptIds(b[of[i]], of[i])) = b[of[i]].head + b[of[i]].prompt + b[of[i]].gen
    <3>1. i \in 1..m
      BY <1>9
    <3>2. PICK o : o = of[i]
      OBVIOUS
    <3>3. o \in 1..n /\ b[o] \in Samples
      BY ONLY <1>2, <1>6, <3>1, <3>2
    <3>4. /\ PromptIds(b[o], o) \in Seq(TokensOf(o)) /\ Len(PromptIds(b[o], o)) = b[o].head + b[o].prompt + b[o].gen
      BY ONLY <3>3, PromptLayout
    <3>5. Len(PromptIds(b[o], o)) \in Nat
      BY ONLY <3>4, LenProperties
    <3> QED BY ONLY <3>2, <3>4, <3>5
  <2> QED BY ONLY <1>8, <1>9, <2>1
<1>10. ASSUME NEW i \in 1..a PROVE Len(held[i]) \in Nat /\ Len(anchored[i]) \in Nat
  <2>1. Len(held[i]) \in Nat
    BY <1>2, <1>7, <1>8, PrefixesOf
  <2>2. Len(<<Pad>>) = 1
    OBVIOUS
  <2> QED BY <1>8, <2>1, <2>2
<1>11. PadsOf(rows, prefixes, Pad, m)
  BY ONLY <1>6, <1>8, <1>9, PaddedRows
<1>12. PadsOf(anchorRows, anchored, Pad, a)
  BY ONLY <1>7, <1>8, <1>10, PaddedRows
<1>13. Len(rows) = m
  BY <1>6, <1>8 DEF Padded
<1> HIDE DEF rows, anchorRows
<1>14. /\ trained'.rows = rows /\ trained'.of = of /\ trained'.pushed = pushed
       /\ trained'.monitored = monitored /\ trained'.request = request
       /\ trained'.anchorRows = anchorRows /\ trained'.anchorOf = anchorOf /\ trained'.anchor = anchor
  BY <1>1
<1>15. ASSUME NEW i \in 1..m, b[of[i]].head + b[of[i]].prompt + b[of[i]].gen > 0
       PROVE  /\ PyAt(rows[i], pushed[i])[1] = of[i]
              /\ \A j \in 1..a : anchorOf[j] = of[i] =>
                    /\ pushed[i] = anchor[j]
                    /\ PyAt(rows[i], pushed[i]) = PyAt(anchorRows[j], anchor[j])
  <2>1. PICK L : L = Len(prefixes[i]) /\ L \in Nat /\ L > 0 /\ prefixes[i] # <<>>
    <3>1. Len(prefixes[i]) \in Nat /\ Len(prefixes[i]) > 0
      BY ONLY <1>9, <1>15
    <3>2. prefixes[i] # <<>>
      BY ONLY <3>1, EmptySeq
    <3> QED BY <3>1, <3>2
  <2>2. PyAt(rows[i], pushed[i]) = prefixes[i][L]
    <3>1. i \in 1..m /\ m \in Nat
      BY <1>15, <1>6
    <3>2. Len(prefixes[i]) \in Nat /\ Len(prefixes[i]) > 0 /\ pushed[i] = Len(prefixes[i]) - 1
      BY ONLY <1>8, <2>1, <3>1
    <3>3. PyAt(rows[i], Len(prefixes[i]) - 1) = prefixes[i][Len(prefixes[i])]
      BY ONLY <1>11, <3>1, <3>2, LastOfPadded
    <3> QED BY ONLY <2>1, <3>2, <3>3
  <2>3. prefixes[i][L][1] = of[i]
    <3>1. L \in 1..Len(prefixes[i])
      BY <2>1
    <3>2. prefixes[i][L] \in TokensOf(of[i])
      BY <1>9, <3>1, ElementOfSeq
    <3> QED BY <3>2, TokenIs
  <2>4. ASSUME NEW j \in 1..a, anchorOf[j] = of[i]
        PROVE  pushed[i] = anchor[j] /\ PyAt(rows[i], pushed[i]) = PyAt(anchorRows[j], anchor[j])
    <3>1. anchored[j] = prefixes[i]
      BY <1>8, <2>1, <2>4
    <3>2. anchor[j] = L - 1 /\ pushed[i] = L - 1 /\ Len(anchored[j]) = L
      BY <1>8, <2>1, <3>1
    <3>3. PyAt(anchorRows[j], L - 1) = anchored[j][L]
      <4>1. j \in 1..a /\ a \in Nat
        BY <2>4, <1>7
      <4>2. Len(anchored[j]) \in Nat /\ Len(anchored[j]) > 0
        BY ONLY <2>1, <3>2
      <4>3. PyAt(anchorRows[j], Len(anchored[j]) - 1) = anchored[j][Len(anchored[j])]
        BY ONLY <1>12, <4>1, <4>2, LastOfPadded
      <4> QED BY ONLY <3>2, <4>3
    <3> QED BY <2>2, <3>1, <3>2, <3>3
  <2> QED BY <2>2, <2>3, <2>4
<1>16. AnchorSitsOnPush'
  <2>1. /\ DOMAIN trained'.of = 1..m /\ DOMAIN trained'.anchorOf = 1..a
        /\ trained'.request.own = own /\ trained'.request.default = default
        /\ trained'.request.front = front
    BY <1>6, <1>7, <1>14 DEF request
  <2>2. (\/ trained'.request.own = NoOwn
         \/ trained'.request.default = <<>> /\ trained'.request.front = <<>>)
            => trained'.anchorOf = trained'.of
    BY ONLY <1>5, <1>14, <2>1
  <2>3. ASSUME NEW i \in DOMAIN trained'.of
        PROVE  LET s == samples'[trained'.of[i]]
                   at == PyAt(trained'.rows[i], trained'.pushed[i])
               IN  s.head + s.prompt + s.gen > 0 =>
                     /\ at[1] = trained'.of[i]
                     /\ trained'.monitored[i] \subseteq {trained'.pushed[i]}
                     /\ \A j \in DOMAIN trained'.anchorOf : trained'.anchorOf[j] = trained'.of[i] =>
                          /\ trained'.pushed[i] = trained'.anchor[j]
                          /\ at = PyAt(trained'.anchorRows[j], trained'.anchor[j])
    <3>1. i \in 1..m
      BY ONLY <2>1, <2>3
    <3> QED BY ONLY <1>1, <1>8, <1>14, <1>15, <2>1, <3>1
  <2> QED BY ONLY <2>2, <2>3 DEF AnchorSitsOnPush
<1>17. (SupervisedExactly /\ DistilledOnItself)'
  BY <1>1 DEF SupervisedExactly, DistilledOnItself
<1>18. TokensType'
  <2>1. samples' \in UNION {[1..k -> Samples] : k \in 0..MaxBatch}
    BY <1>1, TokenBounds DEF Batches
  <2> QED BY <1>1, <1>3, <1>6, <1>13, <1>14, <2>1 DEF TokensType
<1> QED BY <1>16, <1>17, <1>18 DEF GradientsMeetTheirTokens

\* What the teacher reads ends with the same prompt and generation prompt.
LEMMA TeacherLayout ==
    ASSUME NEW s \in Samples, NEW i
    PROVE  \E K \in Nat :
             /\ Len(TeacherIds(s, i)) = K + s.prompt + s.gen
             /\ \A k \in 1..s.prompt : TeacherIds(s, i)[K + k] = <<i, "prompt", k>>
             /\ \A k \in 1..s.gen : TeacherIds(s, i)[K + s.prompt + k] = <<i, "gen", k>>
<1> DEFINE S == TokensOf(i)
<1> DEFINE h == Piece(i, "head", s.head)
<1> DEFINE c == Piece(i, "context", s.context)
<1> DEFINE before == h \o c
<1> DEFINE p == Kept1(s.fused, before)
<1> DEFINE q == Piece(i, "prompt", s.prompt)
<1> DEFINE r == Piece(i, "gen", s.gen)
<1>1. /\ h \in Seq(S) /\ c \in Seq(S)
      /\ q \in Seq(S) /\ Len(q) = s.prompt /\ \A k \in 1..s.prompt : q[k] = <<i, "prompt", k>>
      /\ r \in Seq(S) /\ Len(r) = s.gen /\ \A k \in 1..s.gen : r[k] = <<i, "gen", k>>
  BY ShapeOf, PieceIs DEF PromptNames
<1>2. TeacherIds(s, i) = p \o q \o r
  BY DEF TeacherIds, Kept1
<1> HIDE DEF S, h, c, q, r
<1>3. before \in Seq(S)
  BY <1>1, JoinedParts DEF Parts2
<1> HIDE DEF before
<1>4. PICK K \in Nat : Prefixes(S, before, p, K)
  BY <1>3, KeptIs
<1> HIDE DEF p
<1>5. Parts3(S, p \o q \o r, p, q, r)
  BY <1>1, <1>4, ThreeParts DEF Prefixes
<1>6. Len(p) = K
  BY <1>4 DEF Prefixes
<1> DEFINE x == TeacherIds(s, i)
<1>7. Parts3(S, x, p, q, r)
  BY <1>2, <1>5
<1> HIDE DEF x
<1>8. /\ Len(x) = K + s.prompt + s.gen
      /\ \A k \in 1..s.prompt : x[K + k] = <<i, "prompt", k>>
      /\ \A k \in 1..s.gen : x[K + s.prompt + k] = <<i, "gen", k>>
  BY <1>1, <1>6, <1>7 DEF Parts3
<1> QED BY <1>8 DEF x

\* A position of the student against the one the overlay gives it of the teacher.
LEMMA OverlaidPair ==
    ASSUME NEW s \in Samples, NEW i, Len(TeacherIds(s, i)) >= Len(PromptIds(s, i)),
           NEW j \in 0..(Len(PromptIds(s, i)) - 1)
    PROVE  LET student == PromptIds(s, i)
               teacher == TeacherIds(s, i)
           IN  \/ PyAt(student, j) = PyAt(teacher, Overlay(Len(teacher), Len(student)) + j)
               \/ PyAt(student, j)[2] = "head"
<1> DEFINE x == PromptIds(s, i)
<1> DEFINE y == TeacherIds(s, i)
<1> DEFINE h == s.head
<1> DEFINE p == s.prompt
<1> DEFINE g == s.gen
<1>1. h \in Nat /\ p \in Nat /\ g \in Nat
  BY ShapeOf
<1>2. /\ Len(x) = h + p + g
      /\ \A k \in 1..h : x[k] = <<i, "head", k>>
      /\ \A k \in 1..p : x[h + k] = <<i, "prompt", k>>
      /\ \A k \in 1..g : x[h + p + k] = <<i, "gen", k>>
  BY PromptLayout
<1>3. PICK K \in Nat :
        /\ Len(y) = K + p + g
        /\ \A k \in 1..p : y[K + k] = <<i, "prompt", k>>
        /\ \A k \in 1..g : y[K + p + k] = <<i, "gen", k>>
  BY TeacherLayout
<1>4. Len(y) >= Len(x) /\ j \in 0..(Len(x) - 1)
  OBVIOUS
<1> HIDE DEF x, y, h, p, g
<1> DEFINE o == Overlay(Len(y), Len(x)) + j
<1>5. o = K - h + j /\ o >= 0 /\ ~(o < 0) /\ j >= 0 /\ ~(j < 0) /\ o + 1 = K - h + j + 1 /\ j <= h + p + g - 1 /\ j \in Nat
  BY <1>1, <1>2, <1>3, <1>4 DEF Overlay
<1> HIDE DEF o
<1>6. PyAt(x, j) = x[j + 1] /\ PyAt(y, o) = y[o + 1]
  BY <1>5 DEF PyAt
<1>7. CASE j + 1 <= h
  <2>1. j + 1 \in 1..h
    BY <1>1, <1>5, <1>7
  <2>2. x[j + 1] = <<i, "head", j + 1>>
    BY <1>2, <2>1
  <2>3. x[j + 1][2] = "head"
    BY <2>2
  <2> QED BY <1>6, <2>3 DEF x, y, o
<1>8. CASE j + 1 > h /\ j + 1 <= h + p
  <2>1. PICK k \in 1..p : j + 1 = h + k /\ o + 1 = K + k
    <3>1. j + 1 - h \in 1..p /\ j + 1 = h + (j + 1 - h) /\ o + 1 = K + (j + 1 - h)
      BY <1>1, <1>5, <1>8
    <3> QED BY <3>1
  <2>2. x[j + 1] = <<i, "prompt", k>> /\ y[o + 1] = <<i, "prompt", k>>
    BY <1>2, <1>3, <2>1
  <2> QED BY <1>6, <2>2 DEF x, y, o
<1>9. CASE j + 1 > h + p
  <2>1. PICK k \in 1..g : j + 1 = h + p + k /\ o + 1 = K + p + k
    <3>1. /\ j + 1 - (h + p) \in 1..g /\ j + 1 = h + p + (j + 1 - (h + p))
          /\ o + 1 = K + p + (j + 1 - (h + p))
      BY <1>1, <1>5, <1>9
    <3> QED BY <3>1
  <2>2. x[j + 1] = <<i, "gen", k>> /\ y[o + 1] = <<i, "gen", k>>
    BY <1>2, <1>3, <2>1
  <2> QED BY <1>6, <2>2 DEF x, y, o
<1> QED BY <1>1, <1>5, <1>7, <1>8, <1>9

\* A batch of ccd.
LEMMA DistilStep ==
    ASSUME NEW b \in Batches, Distil(b)
    PROVE  TokensType' /\ GradientsMeetTheirTokens'
<1> DEFINE row(i) == [j \in 0..(Len(PromptIds(b[i], i)) - 1) |->
                        <<PyAt(PromptIds(b[i], i), j),
                          PyAt(TeacherIds(b[i], i),
                               Overlay(Len(TeacherIds(b[i], i)), Len(PromptIds(b[i], i))) + j)>>]
<1> DEFINE pairs == [i \in DOMAIN b |-> row(i)]
<1> DEFINE rows == [i \in DOMAIN b |-> PromptIds(b[i], i)]
<1>1. /\ objective' = "distil" /\ samples' = b
      /\ trained' = [rows |-> rows, pairs |-> pairs]
      /\ \A i \in DOMAIN b : Len(TeacherIds(b[i], i)) >= Len(PromptIds(b[i], i))
  BY DEF Distil, Called
<1>2. PICK n \in Nat : n > 0 /\ DOMAIN b = 1..n /\ \A i \in 1..n : b[i] \in Samples
  BY BatchIs
<1>3. Len(rows) = n
  BY <1>2
<1>4. \A i \in 1..n : pairs[i] = row(i)
  BY <1>2
<1> HIDE DEF rows, pairs
<1>5. trained'.rows = rows /\ trained'.pairs = pairs
  BY <1>1
<1>6. ASSUME NEW i \in 1..n, NEW j \in DOMAIN pairs[i]
      PROVE  pairs[i][j][1] = pairs[i][j][2] \/ pairs[i][j][1][2] = "head"
  <2> DEFINE x == PyAt(PromptIds(b[i], i), j)
  <2> DEFINE y == PyAt(TeacherIds(b[i], i),
                       Overlay(Len(TeacherIds(b[i], i)), Len(PromptIds(b[i], i))) + j)
  <2>1. j \in 0..(Len(PromptIds(b[i], i)) - 1) /\ pairs[i][j] = <<x, y>>
    BY <1>4, <1>6
  <2>2. x = y \/ x[2] = "head"
    BY <1>1, <1>2, <2>1, OverlaidPair
  <2> HIDE DEF x, y
  <2>3. pairs[i][j][1] = x /\ pairs[i][j][2] = y
    BY <2>1
  <2> QED BY <2>2, <2>3
<1>7. DistilledOnItself'
  <2>1. DOMAIN samples' = 1..n
    BY <1>1, <1>2
  <2> QED BY <1>5, <1>6, <2>1 DEF DistilledOnItself
<1>8. (SupervisedExactly /\ AnchorSitsOnPush)'
  BY <1>1 DEF SupervisedExactly, AnchorSitsOnPush
<1>9. TokensType'
  <2>1. Len(b) = n
    BY <1>2 DEF Batches
  <2>2. samples' \in UNION {[1..m -> Samples] : m \in 0..MaxBatch}
    BY <1>1, TokenBounds DEF Batches
  <2> QED BY <1>1, <1>3, <1>5, <2>1, <2>2 DEF TokensType
<1> QED BY <1>7, <1>8, <1>9 DEF GradientsMeetTheirTokens

-----------------------------------------------------------------------------
(* The specification. *)

LEMMA TokensInvariant == TokensSpec => [](TokensType /\ GradientsMeetTheirTokens)
<1>1. TokensInit => TokensType /\ GradientsMeetTheirTokens
  <2> SUFFICES ASSUME TokensInit PROVE TokensType /\ GradientsMeetTheirTokens
    OBVIOUS
  <2>1. samples = <<>> /\ objective = "none" /\ trained.rows = <<>>
    BY DEF TokensInit
  <2>2. <<>> \in [1..0 -> Samples] /\ 0 \in 0..MaxBatch
    BY TokenBounds
  <2> QED BY <2>1, <2>2 DEF TokensType, GradientsMeetTheirTokens, SupervisedExactly,
                           AnchorSitsOnPush, DistilledOnItself
<1>2. TokensType /\ GradientsMeetTheirTokens /\ [TokensNext]_tokenVars
        => TokensType' /\ GradientsMeetTheirTokens'
  <2> SUFFICES ASSUME TokensType, GradientsMeetTheirTokens, [TokensNext]_tokenVars
               PROVE  TokensType' /\ GradientsMeetTheirTokens'
    OBVIOUS
  <2>1. CASE Return
    <3>1. samples' = <<>> /\ objective' = "none" /\ trained'.rows = <<>>
      BY <2>1 DEF Return
    <3>2. <<>> \in [1..0 -> Samples] /\ 0 \in 0..MaxBatch
      BY TokenBounds
    <3> QED BY <3>1, <3>2 DEF TokensType, GradientsMeetTheirTokens, SupervisedExactly,
                             AnchorSitsOnPush, DistilledOnItself
  <2>2. ASSUME NEW b \in Batches, TrainResponses(b) \/ Distil(b)
        PROVE  TokensType' /\ GradientsMeetTheirTokens'
    BY <2>2, ResponsesStep, DistilStep
  <2>4. ASSUME NEW b \in Batches, PushDown(b)
        PROVE  TokensType' /\ GradientsMeetTheirTokens'
    BY <2>4, PushDownStep DEF PushDown
  <2>3. CASE UNCHANGED tokenVars
    <3>1. samples' = samples /\ objective' = objective /\ trained' = trained
      BY <2>3 DEF tokenVars
    <3>2. TokensType'
      BY <3>1 DEF TokensType
    <3>3. SupervisedExactly'
      BY <3>1 DEF GradientsMeetTheirTokens, SupervisedExactly
    <3>4. AnchorSitsOnPush' /\ DistilledOnItself'
      BY <3>1 DEF GradientsMeetTheirTokens, AnchorSitsOnPush, DistilledOnItself
    <3> QED BY <3>2, <3>3, <3>4 DEF GradientsMeetTheirTokens
  <2> QED BY <2>1, <2>2, <2>3, <2>4 DEF TokensNext
<1> QED BY <1>1, <1>2, PTL DEF TokensSpec

\* Each row of what was trained belongs to a sample of the batch (_utils.py:81-125).
THEOREM TokensTyped == TokensSpec => []TokensType
BY TokensInvariant, PTL

\* For samples of every shape, batches of every size and every max_len: supervised
\* positions predict the answer's tokens behind the accepted prefix and nothing else
\* (_utils.py:81-125, 145-178, 207-221); the anchor sits on the position that is
\* pushed down (unlike.py:199-208, kl.py:128-185); student and teacher are compared
\* at the same token (ccd.py:198-217).
THEOREM GradientsMeetTokens == TokensSpec => []GradientsMeetTheirTokens
BY TokensInvariant, PTL
=============================================================================
