------------------------ MODULE ReasoningParserProofs ------------------------
(***************************************************************************)
(* Theorems about ReasoningParser, for all tags, alphabets and lengths.    *)
(* The invariant says what each mode has released of the text and what it  *)
(* holds back: too little for a tag to begin in what was released.  From   *)
(* there a tag that a chunk completes is found where the whole text has it *)
(* first.                                                                  *)
(***************************************************************************)
EXTENDS ReasoningParser, SequenceTheorems, FiniteSetTheorems, WellFoundedInduction, TLAPS

\* A set of numbers has a least one.
LEMMA Least ==
    ASSUME NEW D \in SUBSET Nat, D # {}
    PROVE  \E m \in D : \A n \in D : m <= n
<1> DEFINE T == {0..n : n \in D}
<1>1. T \subseteq FiniteSubsetsOf(Nat) /\ T # {}
  <2>1. \A n \in D : IsFiniteSet(0..n) /\ 0..n \subseteq Nat
    BY FS_Interval
  <2> QED BY <2>1 DEF FiniteSubsetsOf
<1>2. IsWellFoundedOn(StrictSubsetOrdering(Nat), FiniteSubsetsOf(Nat))
  BY FS_StrictSubsetOrderingWellFounded
<1> HIDE DEF T
<1>3. PICK x \in T : \A y \in T : ~(<<y, x>> \in StrictSubsetOrdering(Nat))
  BY <1>1, <1>2, WFMin
<1>4. PICK m \in D : x = 0..m
  BY <1>3 DEF T
<1>5. ASSUME NEW n \in D, n < m PROVE FALSE
  <2>1. 0..n \in T /\ 0..n \in SUBSET Nat /\ 0..m \in SUBSET Nat
    BY DEF T
  <2>2. 0..n \subseteq 0..m /\ 0..n # 0..m
    <3>1. m \in 0..m /\ m \notin 0..n
      BY <1>5
    <3> QED BY <3>1, <1>5
  <2> QED BY <1>3, <1>4, <2>1, <2>2 DEF StrictSubsetOrdering
<1> QED BY <1>5

-----------------------------------------------------------------------------
(* Where a tag occurs. *)

\* The tag stands in t behind the first i characters.
OccursAt(tag, t, i) ==
    i \in Nat /\ i + Len(tag) <= Len(t) /\ \A k \in 1..Len(tag) : t[i + k] = tag[k]

Tags == {tag \in Seq(Chars) : Len(tag) > 1}

\* Slices of a text are texts.
LEMMA Slice ==
    ASSUME NEW t \in Seq(Chars), NEW m \in Int, NEW n \in Int, m >= 1, n <= Len(t)
    PROVE  /\ SubSeq(t, m, n) \in Seq(Chars)
           /\ Len(SubSeq(t, m, n)) = IF m <= n THEN n - m + 1 ELSE 0
           /\ \A i \in 1..(n - m + 1) : SubSeq(t, m, n)[i] = t[m + i - 1]
<1>1. Len(t) \in Nat
  BY LenProperties
<1>2. ASSUME NEW i \in m..n PROVE t[i] \in Chars
  <2>1. i \in 1..Len(t)
    BY <1>1
  <2> QED BY <2>1, ElementOfSeq
<1> QED BY <1>2, SubSeqProperties

\* What str.find looks for, character by character.
LEMMA FoundIsOccurrence ==
    ASSUME NEW tag \in Tags, NEW t \in Seq(Chars), NEW i
    PROVE  i \in Found(tag, t) <=> OccursAt(tag, t, i)
<1>1. tag \in Seq(Chars) /\ Len(tag) \in Nat /\ Len(t) \in Nat /\ Len(tag) > 1
  BY LenProperties DEF Tags
<1>2. i \in 0..(Len(t) - Len(tag)) <=> i \in Nat /\ i + Len(tag) <= Len(t)
  BY <1>1
<1>3. ASSUME i \in Nat, i + Len(tag) <= Len(t)
      PROVE  SubSeq(t, i + 1, i + Len(tag)) = tag <=> \A k \in 1..Len(tag) : t[i + k] = tag[k]
  <2> DEFINE s == SubSeq(t, i + 1, i + Len(tag))
  <2>1. /\ s \in Seq(Chars) /\ Len(s) = Len(tag)
        /\ \A k \in 1..Len(tag) : s[k] = t[i + k]
    <3>1. /\ i + 1 \in Int /\ i + Len(tag) \in Int /\ i + 1 >= 1
          /\ (i + Len(tag)) - (i + 1) + 1 = Len(tag) /\ i + 1 <= i + Len(tag)
          /\ \A k \in 1..Len(tag) : i + 1 + k - 1 = i + k
      BY <1>1, <1>3
    <3> QED BY <3>1, <1>3, Slice
  <2> HIDE DEF s
  <2>2. s = tag <=> \A k \in 1..Len(tag) : s[k] = tag[k]
    BY <2>1, <1>1, SeqEqual
  <2>3. s = tag <=> \A k \in 1..Len(tag) : t[i + k] = tag[k]
    BY <2>1, <2>2
  <2> QED BY <2>3 DEF s
<1> QED BY <1>2, <1>3 DEF Found, OccursAt

LEMMA HasIsOccurrence ==
    ASSUME NEW tag \in Tags, NEW t \in Seq(Chars)
    PROVE  Has(tag, t) <=> \E i \in Nat : OccursAt(tag, t, i)
<1>1. Len(tag) \in Nat /\ Len(t) \in Nat
  BY LenProperties DEF Tags
<1>2. \A i : OccursAt(tag, t, i) => i \in Nat /\ Len(t) >= Len(tag)
  BY <1>1 DEF OccursAt
<1> QED BY <1>2, FoundIsOccurrence DEF Has

\* str.find: the first occurrence, and only that one.
LEMMA FirstIsLeast ==
    ASSUME NEW tag \in Tags, NEW t \in Seq(Chars), Has(tag, t)
    PROVE  /\ OccursAt(tag, t, First(tag, t))
           /\ \A j : OccursAt(tag, t, j) => First(tag, t) <= j
<1> DEFINE D == Found(tag, t)
<1>1. D \in SUBSET Nat /\ D # {}
  BY FoundIsOccurrence DEF Has, OccursAt
<1> HIDE DEF D
<1>2. \E i \in D : \A j \in D : i <= j
  BY <1>1, Least
<1>3. First(tag, t) = CHOOSE i \in D : \A j \in D : i <= j
  BY DEF First, D
<1>4. First(tag, t) \in D /\ \A j \in D : First(tag, t) <= j
  BY <1>2, <1>3
<1> QED BY <1>4, FoundIsOccurrence DEF D

LEMMA FirstUnique ==
    ASSUME NEW tag \in Tags, NEW t \in Seq(Chars), NEW i, OccursAt(tag, t, i),
           \A j : OccursAt(tag, t, j) => i <= j
    PROVE  Has(tag, t) /\ First(tag, t) = i
<1>1. i \in Nat
  BY DEF OccursAt
<1>2. Has(tag, t)
  BY <1>1, HasIsOccurrence
<1>3. /\ OccursAt(tag, t, First(tag, t)) /\ First(tag, t) \in Nat
      /\ First(tag, t) <= i /\ i <= First(tag, t)
  BY <1>2, FirstIsLeast DEF OccursAt
<1> QED BY <1>1, <1>2, <1>3

\* What is before and after the first tag.
LEMMA Split ==
    ASSUME NEW tag \in Tags, NEW t \in Seq(Chars), Has(tag, t)
    PROVE  LET f == First(tag, t)
               n == Len(t) - (f + Len(tag))
           IN  /\ f \in Nat /\ n \in Nat /\ f + Len(tag) + n = Len(t)
               /\ Before(tag, t) \in Seq(Chars) /\ Len(Before(tag, t)) = f
               /\ \A i \in 1..f : Before(tag, t)[i] = t[i]
               /\ After(tag, t) \in Seq(Chars) /\ Len(After(tag, t)) = n
               /\ \A i \in 1..n : After(tag, t)[i] = t[f + Len(tag) + i]
<1> DEFINE f == First(tag, t)
<1>1. f \in Nat /\ f + Len(tag) <= Len(t)
  BY FirstIsLeast DEF OccursAt
<1>2. Len(tag) \in Nat /\ Len(t) \in Nat
  BY LenProperties DEF Tags
<1>3. Before(tag, t) = SubSeq(t, 1, f) /\ After(tag, t) = SubSeq(t, f + Len(tag) + 1, Len(t))
  BY DEF Before, After
<1> HIDE DEF f
<1> DEFINE n == Len(t) - (f + Len(tag))
<1>4. n \in Nat /\ f + Len(tag) + n = Len(t)
  BY <1>1, <1>2
<1>5. /\ Before(tag, t) \in Seq(Chars) /\ Len(Before(tag, t)) = f
      /\ \A i \in 1..f : Before(tag, t)[i] = t[i]
  <2>1. /\ 1 \in Int /\ f \in Int /\ f <= Len(t) /\ f - 1 + 1 = f
        /\ \A i \in 1..f : 1 + i - 1 = i
        /\ (IF 1 <= f THEN f - 1 + 1 ELSE 0) = f
    BY <1>1, <1>2
  <2> QED BY <1>3, <2>1, Slice
<1>6. /\ After(tag, t) \in Seq(Chars) /\ Len(After(tag, t)) = n
      /\ \A i \in 1..n : After(tag, t)[i] = t[f + Len(tag) + i]
  <2> DEFINE m == f + Len(tag) + 1
  <2>1. /\ m \in Int /\ m >= 1 /\ Len(t) - m + 1 = n
        /\ \A i \in 1..n : m + i - 1 = f + Len(tag) + i
        /\ (IF m <= Len(t) THEN Len(t) - m + 1 ELSE 0) = n
    BY <1>1, <1>2
  <2> HIDE DEF n
  <2>2. After(tag, t) = SubSeq(t, m, Len(t))
    BY <1>3
  <2> HIDE DEF m
  <2> QED BY <1>2, <2>1, <2>2, Slice
<1> QED BY <1>4, <1>5, <1>6 DEF f

\* A text in two parts.
LEMMA Joined ==
    ASSUME NEW p \in Seq(Chars), NEW q \in Seq(Chars), NEW x, x = p \o q
    PROVE  /\ Len(p) \in Nat /\ Len(q) \in Nat
           /\ x \in Seq(Chars) /\ Len(x) = Len(p) + Len(q)
           /\ \A i \in 1..(Len(p) + Len(q)) : x[i] = IF i <= Len(p) THEN p[i] ELSE q[i - Len(p)]
           /\ \A i \in 1..Len(p) : x[i] = p[i]
           /\ \A i \in 1..Len(q) : x[Len(p) + i] = q[i]
<1>1. Len(p) \in Nat /\ Len(q) \in Nat
  BY LenProperties
<1>2. /\ x \in Seq(Chars) /\ Len(x) = Len(p) + Len(q)
      /\ \A i \in 1..(Len(p) + Len(q)) : x[i] = IF i <= Len(p) THEN p[i] ELSE q[i - Len(p)]
  BY ConcatProperties
<1>3. ASSUME NEW i \in 1..Len(p) PROVE x[i] = p[i]
  BY <1>1, <1>2
<1>4. ASSUME NEW i \in 1..Len(q) PROVE x[Len(p) + i] = q[i]
  <2>1. Len(p) + i \in 1..(Len(p) + Len(q)) /\ ~(Len(p) + i <= Len(p)) /\ Len(p) + i - Len(p) = i
    BY <1>1
  <2> QED BY <1>2, <2>1
<1> QED BY <1>1, <1>2, <1>3, <1>4

-----------------------------------------------------------------------------
(* A text that grows. *)

\* More text moves no tag that is already there.
LEMMA Grown ==
    ASSUME NEW tag \in Tags, NEW t \in Seq(Chars), NEW d \in Seq(Chars), Has(tag, t)
    PROVE  /\ Has(tag, t \o d)
           /\ Before(tag, t \o d) = Before(tag, t)
           /\ After(tag, t \o d) = After(tag, t) \o d
<1> DEFINE u == t \o d
<1> DEFINE f == First(tag, t)
<1>0. Len(tag) \in Nat /\ Len(t) \in Nat /\ Len(d) \in Nat /\ Len(tag) > 1
  BY LenProperties DEF Tags
<1>1. /\ u \in Seq(Chars) /\ Len(u) = Len(t) + Len(d)
      /\ \A i \in 1..Len(t) : u[i] = t[i]
      /\ \A i \in 1..Len(d) : u[Len(t) + i] = d[i]
  BY Joined
<1>2. f \in Nat /\ OccursAt(tag, t, f) /\ f + Len(tag) <= Len(t)
  BY FirstIsLeast DEF OccursAt
<1> HIDE DEF u, f
<1>3. OccursAt(tag, u, f)
  <2>1. \A k \in 1..Len(tag) : f + k \in 1..Len(t)
    BY <1>0, <1>2
  <2>2. f + Len(tag) <= Len(u)
    BY <1>0, <1>1, <1>2
  <2> QED BY <1>1, <1>2, <2>1, <2>2 DEF OccursAt
<1>4. ASSUME NEW j, OccursAt(tag, u, j) PROVE f <= j
  <2>1. j \in Nat /\ j + Len(tag) <= Len(u) /\ \A k \in 1..Len(tag) : u[j + k] = tag[k]
    BY <1>4 DEF OccursAt
  <2>2. CASE j + Len(tag) <= Len(t)
    <3>1. \A k \in 1..Len(tag) : j + k \in 1..Len(t)
      BY <1>0, <2>1, <2>2
    <3>2. OccursAt(tag, t, j)
      BY <1>1, <2>1, <2>2, <3>1 DEF OccursAt
    <3> QED BY <3>2, FirstIsLeast DEF f
  <2>3. CASE j + Len(tag) > Len(t)
    BY <1>0, <1>2, <2>1, <2>3
  <2> QED BY <2>1, <2>2, <2>3, <1>0
<1>5. Has(tag, u) /\ First(tag, u) = f
  BY <1>1, <1>3, <1>4, FirstUnique
<1>6. Before(tag, u) = Before(tag, t)
  <2>1. /\ Before(tag, t) \in Seq(Chars) /\ Len(Before(tag, t)) = f
        /\ \A i \in 1..f : Before(tag, t)[i] = t[i]
    BY Split DEF f
  <2>2. /\ Before(tag, u) \in Seq(Chars) /\ Len(Before(tag, u)) = f
        /\ \A i \in 1..f : Before(tag, u)[i] = u[i]
    BY <1>1, <1>5, Split
  <2>3. \A i \in 1..f : i \in 1..Len(t)
    BY <1>0, <1>2
  <2> QED BY <1>1, <2>1, <2>2, <2>3, SeqEqual
<1>7. After(tag, u) = After(tag, t) \o d
  <2> DEFINE n == Len(t) - (f + Len(tag))
  <2> DEFINE a == After(tag, t)
  <2>1. n \in Nat /\ f + Len(tag) + n = Len(t) /\ a \in Seq(Chars) /\ Len(a) = n
        /\ \A i \in 1..n : a[i] = t[f + Len(tag) + i]
    BY Split DEF f
  <2> DEFINE z == After(tag, u)
  <2> DEFINE n2 == Len(u) - (f + Len(tag))
  <2>2. n2 = n + Len(d)
    BY <1>0, <1>1, <1>2
  <2>3. /\ z \in Seq(Chars) /\ Len(z) = n2
        /\ \A i \in 1..n2 : z[i] = u[f + Len(tag) + i]
    BY <1>1, <1>5, Split
  <2> HIDE DEF n, a, n2, z
  <2>4. /\ a \o d \in Seq(Chars) /\ Len(a \o d) = Len(a) + Len(d)
        /\ \A i \in 1..(Len(a) + Len(d)) : (a \o d)[i] = IF i <= Len(a) THEN a[i] ELSE d[i - Len(a)]
    BY <2>1, ConcatProperties
  <2>5. ASSUME NEW i \in 1..n2 PROVE u[f + Len(tag) + i] = (a \o d)[i]
    <3>0. i \in 1..(Len(a) + Len(d))
      BY <2>1, <2>2
    <3>1. CASE i <= n
      <4>1. i \in 1..n /\ f + Len(tag) + i \in 1..Len(t)
        BY <1>0, <1>2, <2>1, <3>1
      <4> QED BY <1>1, <2>1, <2>4, <3>0, <3>1, <4>1
    <3>2. CASE ~(i <= n)
      <4>1. i - n \in 1..Len(d) /\ f + Len(tag) + i = Len(t) + (i - n)
        <5>1. /\ i \in 1..(n + Len(d)) /\ n \in Nat /\ Len(d) \in Nat /\ Len(t) \in Nat
              /\ f \in Nat /\ Len(tag) \in Nat /\ f + Len(tag) + n = Len(t)
          BY <1>0, <1>2, <2>1, <3>0
        <5> QED BY ONLY <5>1, <3>2
      <4> QED BY <1>1, <2>1, <2>4, <3>0, <3>2, <4>1
    <3> QED BY <3>1, <3>2
  <2>6. Len(z) = Len(a \o d) /\ \A i \in 1..Len(z) : z[i] = (a \o d)[i]
    BY <2>1, <2>2, <2>3, <2>4, <2>5
  <2>7. z = a \o d
    BY <2>3, <2>4, <2>6, SeqEqual
  <2> QED BY <2>7 DEF a, z
<1> QED BY <1>5, <1>6, <1>7 DEF u

-----------------------------------------------------------------------------
(* What is held back. *)

\* Of the text T, which has no tag, e has been released and b is held back:
\* too little for a tag to begin in e and end behind T.
Holding(tag, e, b, T) ==
    /\ e \in Seq(Chars) /\ b \in Seq(Chars) /\ T = e \o b /\ ~Has(tag, T)
    /\ Len(b) = IF Len(T) < Hold(tag) THEN Len(T) ELSE Hold(tag)

\* A tag that more text completes lies in what is held back and the new text.
LEMMA Window ==
    ASSUME NEW tag \in Tags, NEW e, NEW b, NEW T, Holding(tag, e, b, T), NEW d \in Seq(Chars)
    PROVE  /\ Len(e) \in Nat
           /\ \A j : OccursAt(tag, T \o d, j) => j \in Nat /\ j >= Len(e)
           /\ \A i \in Nat : OccursAt(tag, T \o d, Len(e) + i) <=> OccursAt(tag, b \o d, i)
<1> DEFINE u == T \o d
<1> DEFINE w == b \o d
<1>0. /\ e \in Seq(Chars) /\ b \in Seq(Chars) /\ T \in Seq(Chars) /\ T = e \o b
      /\ Len(T) = Len(e) + Len(b) /\ ~Has(tag, T)
      /\ Len(b) = IF Len(T) < Hold(tag) THEN Len(T) ELSE Hold(tag)
  BY ConcatProperties DEF Holding
<1>1. /\ Len(e) \in Nat /\ Len(b) \in Nat /\ Len(d) \in Nat /\ Len(tag) \in Nat /\ Len(tag) > 1
      /\ Hold(tag) = Len(tag) - 1
  BY <1>0, LenProperties DEF Tags, Hold
<1>2. u = e \o w
  BY <1>0, ConcatAssociative
<1>3. /\ u \in Seq(Chars) /\ Len(u) = Len(e) + Len(w)
      /\ \A i \in 1..(Len(e) + Len(w)) : u[i] = IF i <= Len(e) THEN e[i] ELSE w[i - Len(e)]
      /\ w \in Seq(Chars) /\ Len(w) = Len(b) + Len(d)
  <2>1. w \in Seq(Chars) /\ Len(w) = Len(b) + Len(d)
    BY <1>0, Joined
  <2>2. e \in Seq(Chars)
    BY <1>0
  <2> HIDE DEF u, w
  <2>3. /\ u \in Seq(Chars) /\ Len(u) = Len(e) + Len(w)
        /\ \A i \in 1..(Len(e) + Len(w)) : u[i] = IF i <= Len(e) THEN e[i] ELSE w[i - Len(e)]
    BY ONLY <1>2, <2>1, <2>2, Joined
  <2> QED BY <2>1, <2>3
<1>4. \A i \in 1..Len(T) : u[i] = T[i]
  <2>1. \A i \in 1..(Len(T) + Len(d)) : u[i] = IF i <= Len(T) THEN T[i] ELSE d[i - Len(T)]
    BY <1>0, ConcatProperties
  <2>2. \A i \in 1..Len(T) : i \in 1..(Len(T) + Len(d)) /\ i <= Len(T)
    BY <1>0, <1>1
  <2> HIDE DEF u
  <2> QED BY <2>1, <2>2
<1> HIDE DEF u, w
<1>5. ASSUME NEW j, OccursAt(tag, u, j) PROVE j \in Nat /\ j >= Len(e)
  <2>1. j \in Nat /\ j + Len(tag) <= Len(u) /\ \A k \in 1..Len(tag) : u[j + k] = tag[k]
    BY <1>5 DEF OccursAt
  <2>2. CASE j + Len(tag) <= Len(T)
    <3>1. \A k \in 1..Len(tag) : j + k \in 1..Len(T)
      BY <1>0, <1>1, <2>1, <2>2
    <3>2. OccursAt(tag, T, j)
      BY <1>4, <2>1, <2>2, <3>1 DEF OccursAt
    <3> QED BY <1>0, <2>1, <3>2, HasIsOccurrence
  <2>3. CASE j + Len(tag) > Len(T)
    <3>1. Len(T) < Hold(tag) \/ Len(b) = Hold(tag)
      BY <1>0
    <3>2. Len(T) < Hold(tag) => Len(e) = 0
      BY <1>0, <1>1
    <3> QED BY <1>0, <1>1, <2>1, <2>3, <3>1, <3>2
  <2> QED BY <1>0, <1>1, <2>1, <2>2, <2>3
<1>6. ASSUME NEW i \in Nat
      PROVE  OccursAt(tag, u, Len(e) + i) <=> OccursAt(tag, w, i)
  <2>1. Len(e) + i + Len(tag) <= Len(u) <=> i + Len(tag) <= Len(w)
    BY <1>1, <1>3
  <2>2. ASSUME i + Len(tag) <= Len(w), NEW k \in 1..Len(tag)
        PROVE  u[Len(e) + i + k] = w[i + k]
    <3> DEFINE p == Len(e) + i + k
    <3>1. p \in 1..(Len(e) + Len(w)) /\ ~(p <= Len(e)) /\ p - Len(e) = i + k
      BY <1>1, <1>3, <2>2
    <3> HIDE DEF p
    <3>2. u[p] = w[i + k]
      BY <1>3, <3>1
    <3> QED BY <3>2 DEF p
  <2> QED BY <1>1, <2>1, <2>2 DEF OccursAt
<1> QED BY <1>1, <1>5, <1>6 DEF u, w

\* What looking for the tag in w tells about u, of which e has been released: where
\* the tag splits u, or what may be released next.
Scanned(tag, e, w, u) ==
    /\ w \in Seq(Chars)
    /\ Has(tag, w) => /\ Has(tag, u)
                      /\ e \o Before(tag, w) = Before(tag, u)
                      /\ After(tag, w) = After(tag, u)
    /\ ~Has(tag, w) => Holding(tag, e \o Emitted(tag, w), Kept(tag, w), u)

\* Looking for the tag in what is held back and the new text is looking for it
\* in the whole, and what is kept then is again enough.
LEMMA Scan ==
    ASSUME NEW tag \in Tags, NEW e, NEW b, NEW T, Holding(tag, e, b, T), NEW d \in Seq(Chars)
    PROVE  Scanned(tag, e, b \o d, T \o d)
<1> DEFINE u == T \o d
<1> DEFINE w == b \o d
<1>0. /\ e \in Seq(Chars) /\ b \in Seq(Chars) /\ T \in Seq(Chars) /\ T = e \o b
      /\ Len(T) = Len(e) + Len(b) /\ ~Has(tag, T)
      /\ Len(b) = IF Len(T) < Hold(tag) THEN Len(T) ELSE Hold(tag)
  BY ConcatProperties DEF Holding
<1>1. /\ Len(e) \in Nat /\ Len(b) \in Nat /\ Len(d) \in Nat /\ Len(tag) \in Nat /\ Len(tag) > 1
      /\ Hold(tag) = Len(tag) - 1
  BY <1>0, LenProperties DEF Tags, Hold
<1>2. u = e \o w
  BY <1>0, ConcatAssociative
<1>3. /\ u \in Seq(Chars) /\ Len(u) = Len(e) + Len(w)
      /\ \A i \in 1..(Len(e) + Len(w)) : u[i] = IF i <= Len(e) THEN e[i] ELSE w[i - Len(e)]
      /\ w \in Seq(Chars) /\ Len(w) = Len(b) + Len(d)
  <2>1. w \in Seq(Chars) /\ Len(w) = Len(b) + Len(d)
    BY <1>0, Joined
  <2> HIDE DEF u, w
  <2>2. e \in Seq(Chars)
    BY <1>0
  <2>3. /\ u \in Seq(Chars) /\ Len(u) = Len(e) + Len(w)
        /\ \A i \in 1..(Len(e) + Len(w)) : u[i] = IF i <= Len(e) THEN e[i] ELSE w[i - Len(e)]
    BY ONLY <1>2, <2>1, <2>2, Joined
  <2> QED BY <2>1, <2>3
<1>4. /\ \A j : OccursAt(tag, u, j) => j \in Nat /\ j >= Len(e)
      /\ \A i \in Nat : OccursAt(tag, u, Len(e) + i) <=> OccursAt(tag, w, i)
  BY Window
<1> HIDE DEF u, w
<1>5. Has(tag, u) => Has(tag, w)
  <2> SUFFICES ASSUME NEW j \in Nat, OccursAt(tag, u, j) PROVE Has(tag, w)
    BY <1>3, HasIsOccurrence
  <2>1. j - Len(e) \in Nat /\ Len(e) + (j - Len(e)) = j
    BY <1>1, <1>4
  <2> QED BY <1>3, <1>4, <2>1, HasIsOccurrence
<1>6. ASSUME Has(tag, w)
      PROVE  /\ Has(tag, u) /\ e \o Before(tag, w) = Before(tag, u)
             /\ After(tag, w) = After(tag, u)
  <2> DEFINE f == First(tag, w)
  <2>1. f \in Nat /\ OccursAt(tag, w, f) /\ \A j : OccursAt(tag, w, j) => f <= j
    BY <1>3, <1>6, FirstIsLeast DEF OccursAt
  <2>2. /\ f + Len(tag) <= Len(w) /\ Len(w) \in Nat
        /\ Before(tag, w) \in Seq(Chars) /\ Len(Before(tag, w)) = f
        /\ \A i \in 1..f : Before(tag, w)[i] = w[i]
        /\ After(tag, w) \in Seq(Chars) /\ Len(After(tag, w)) = Len(w) - (f + Len(tag))
        /\ \A i \in 1..(Len(w) - (f + Len(tag))) : After(tag, w)[i] = w[f + Len(tag) + i]
    BY <1>3, <1>6, <2>1, Split, LenProperties DEF OccursAt
  <2> HIDE DEF f
  <2>3. OccursAt(tag, u, Len(e) + f)
    BY <1>4, <2>1
  <2>4. ASSUME NEW j, OccursAt(tag, u, j) PROVE Len(e) + f <= j
    <3>0. j \in Nat /\ j >= Len(e)
      BY <1>4, <2>4
    <3>1. j - Len(e) \in Nat /\ Len(e) + (j - Len(e)) = j
      BY ONLY <1>1, <3>0
    <3>2. OccursAt(tag, w, j - Len(e))
      BY <1>4, <2>4, <3>1
    <3>3. f <= j - Len(e)
      BY <2>1, <3>2
    <3> QED BY <1>1, <2>1, <3>0, <3>3
  <2>5. Has(tag, u) /\ First(tag, u) = Len(e) + f
    BY <1>3, <2>3, <2>4, FirstUnique
  <2>6. Len(u) - (Len(e) + f + Len(tag)) = Len(w) - (f + Len(tag))
    BY <1>1, <1>3, <2>1, <2>2
  <2>7. /\ Before(tag, u) \in Seq(Chars) /\ Len(Before(tag, u)) = Len(e) + f
        /\ \A i \in 1..(Len(e) + f) : Before(tag, u)[i] = u[i]
        /\ After(tag, u) \in Seq(Chars) /\ Len(After(tag, u)) = Len(w) - (f + Len(tag))
        /\ \A i \in 1..(Len(w) - (f + Len(tag))) : After(tag, u)[i] = u[Len(e) + f + Len(tag) + i]
    <3> DEFINE g == First(tag, u)
    <3>1. /\ Before(tag, u) \in Seq(Chars) /\ Len(Before(tag, u)) = g
          /\ \A i \in 1..g : Before(tag, u)[i] = u[i]
          /\ After(tag, u) \in Seq(Chars) /\ Len(After(tag, u)) = Len(u) - (g + Len(tag))
          /\ \A i \in 1..(Len(u) - (g + Len(tag))) : After(tag, u)[i] = u[g + Len(tag) + i]
      BY <1>3, <2>5, Split
    <3>2. g = Len(e) + f
      BY <2>5
    <3> HIDE DEF g
    <3> QED BY ONLY <3>1, <3>2, <2>6
  <2>8. e \o Before(tag, w) = Before(tag, u)
    <3>1. /\ e \o Before(tag, w) \in Seq(Chars) /\ Len(e \o Before(tag, w)) = Len(e) + f
          /\ \A i \in 1..(Len(e) + f) : (e \o Before(tag, w))[i] =
                 IF i <= Len(e) THEN e[i] ELSE Before(tag, w)[i - Len(e)]
      BY <1>0, <2>2, ConcatProperties
    <3>2. ASSUME NEW i \in 1..(Len(e) + f) PROVE (e \o Before(tag, w))[i] = Before(tag, u)[i]
      <4>1. i \in 1..(Len(e) + Len(w))
        BY <1>1, <2>1, <2>2
      <4>2. ~(i <= Len(e)) => i - Len(e) \in 1..f
        BY <1>1, <2>1
      <4> QED BY <1>3, <2>2, <2>7, <3>1, <4>1, <4>2
    <3> QED BY <2>7, <3>1, <3>2, SeqEqual
  <2>9. After(tag, w) = After(tag, u)
    <3>1. ASSUME NEW i \in 1..(Len(w) - (f + Len(tag)))
          PROVE  After(tag, w)[i] = After(tag, u)[i]
      <4> DEFINE p == Len(e) + f + Len(tag) + i
      <4>1. p \in 1..(Len(e) + Len(w)) /\ ~(p <= Len(e)) /\ p - Len(e) = f + Len(tag) + i
        BY <1>1, <2>1, <2>2
      <4>2. After(tag, u)[i] = u[p]
        BY <2>7
      <4> HIDE DEF p
      <4>3. u[p] = w[f + Len(tag) + i]
        BY <1>3, <4>1
      <4> QED BY <2>2, <4>2, <4>3
    <3> QED BY <2>2, <2>7, <3>1, SeqEqual
  <2> QED BY <2>5, <2>8, <2>9
<1>7. ASSUME ~Has(tag, w)
      PROVE  Holding(tag, e \o Emitted(tag, w), Kept(tag, w), u)
  <2> DEFINE h == Hold(tag)
  <2>1. h \in Nat /\ Len(w) \in Nat
    BY <1>1, <1>3, LenProperties
  <2>2. /\ Emitted(tag, w) \in Seq(Chars) /\ Kept(tag, w) \in Seq(Chars)
        /\ Emitted(tag, w) \o Kept(tag, w) = w
        /\ Len(Kept(tag, w)) = IF Len(w) < h THEN Len(w) ELSE h
    <3>1. CASE Len(w) > h
      <4>1. /\ Emitted(tag, w) = SubSeq(w, 1, Len(w) - h)
            /\ Kept(tag, w) = SubSeq(w, Len(w) - h + 1, Len(w))
        BY <3>1 DEF Emitted, Kept
      <4> DEFINE k == Len(w) - h
      <4> HIDE DEF h
      <4>2. /\ k \in Int /\ k + 1 \in Int /\ 1 \in Int /\ 1 \in 1..Len(w) + 1 /\ k \in 0..Len(w)
            /\ k <= Len(w) /\ k + 1 >= 1 /\ Len(w) \in k..Len(w)
            /\ Len(w) - (k + 1) + 1 = h
            /\ (IF k + 1 <= Len(w) THEN Len(w) - (k + 1) + 1 ELSE 0) = h
        BY <2>1, <3>1
      <4>3. Emitted(tag, w) = SubSeq(w, 1, k) /\ Kept(tag, w) = SubSeq(w, k + 1, Len(w))
        BY <4>1 DEF h
      <4> HIDE DEF k
      <4>4. /\ Emitted(tag, w) \in Seq(Chars) /\ Kept(tag, w) \in Seq(Chars)
            /\ Len(Kept(tag, w)) = h
        BY <1>3, <2>1, <4>2, <4>3, Slice
      <4>5. SubSeq(w, 1, k) \o SubSeq(w, k + 1, Len(w)) = SubSeq(w, 1, Len(w))
        <5>1. k \in (1 - 1)..Len(w)
          BY <4>2
        <5> QED BY <1>3, <4>2, <5>1, ConcatAdjacentSubSeq
      <4>6. SubSeq(w, 1, Len(w)) = w
        BY <1>3, SubSeqFull
      <4>7. Emitted(tag, w) \o Kept(tag, w) = w
        BY <4>3, <4>5, <4>6
      <4>8. ~(Len(w) < h)
        BY <2>1, <3>1 DEF h
      <4> QED BY <4>4, <4>7, <4>8
    <3>2. CASE ~(Len(w) > h)
      <4>1. Kept(tag, w) = w
        BY <3>2 DEF Kept
      <4>2. Len(w) - h \in Int /\ Len(w) - h < 1 /\ 1 \in Int
        BY <2>1, <3>2
      <4>3. Emitted(tag, w) = <<>>
        BY <4>2, SubSeqEmpty DEF Emitted
      <4>4. <<>> \in Seq(Chars) /\ <<>> \o w = w
        BY <1>3, EmptySeq, ConcatEmptySeq
      <4> QED BY <1>3, <2>1, <3>2, <4>1, <4>3, <4>4
    <3> QED BY <3>1, <3>2
  <2>3. /\ e \o Emitted(tag, w) \in Seq(Chars)
        /\ u = (e \o Emitted(tag, w)) \o Kept(tag, w)
    <3>1. e \o Emitted(tag, w) \in Seq(Chars)
      BY <1>0, <2>2, ConcatProperties
    <3>2. (e \o Emitted(tag, w)) \o Kept(tag, w) = e \o (Emitted(tag, w) \o Kept(tag, w))
      <4>1. \A x, y, z \in Seq(Chars) : (x \o y) \o z = x \o (y \o z)
        BY ConcatAssociative
      <4>2. e \in Seq(Chars) /\ Emitted(tag, w) \in Seq(Chars) /\ Kept(tag, w) \in Seq(Chars)
        BY <1>0, <2>2
      <4> QED BY ONLY <4>1, <4>2, Zenon
    <3> QED BY <1>2, <2>2, <3>1, <3>2
  <2>4. ~Has(tag, u)
    BY <1>5, <1>7
  <2>5. Len(Kept(tag, w)) = IF Len(u) < h THEN Len(u) ELSE h
    <3>1. CASE Len(w) < h
      <4>1. Len(b) < h
        BY <1>1, <1>3, <2>1, <3>1
      <4>2. Len(e) = 0
        BY <1>0, <1>1, <4>1
      <4> QED BY <1>1, <1>3, <2>1, <2>2, <3>1, <4>2
    <3>2. CASE ~(Len(w) < h)
      <4>1. ~(Len(u) < h)
        BY <1>1, <1>3, <2>1, <3>2
      <4> QED BY <2>2, <3>2, <4>1
    <3> QED BY <3>1, <3>2
  <2> QED BY <2>2, <2>3, <2>4, <2>5 DEF Holding
<1>8. Scanned(tag, e, w, u)
  BY <1>3, <1>6, <1>7 DEF Scanned
<1> QED BY <1>8 DEF u, w

\* At the start nothing has been released and nothing is held back.
LEMMA NothingHeld ==
    ASSUME NEW tag \in Tags PROVE Holding(tag, <<>>, <<>>, <<>>)
<1>1. <<>> \in Seq(Chars) /\ Len(<<>>) = 0 /\ <<>> \o <<>> = <<>>
  BY EmptySeq, ConcatEmptySeq
<1>2. Len(tag) \in Nat /\ Len(tag) > 1
  BY LenProperties DEF Tags
<1>3. ~Has(tag, <<>>)
  BY <1>1, <1>2 DEF Has
<1> QED BY <1>1, <1>2, <1>3 DEF Holding, Hold

-----------------------------------------------------------------------------
(* The parser. *)

\* Whether the reasoning has begun, what came before it and what since.
Opened(p, t) == p \/ Has(StartTag, t)
Lead(p, t) == IF p THEN <<>> ELSE Before(StartTag, t)
Span(p, t) == IF p THEN t ELSE After(StartTag, t)

\* Each mode has released what it may release of the text that belongs to it
\* and holds back the rest.
Splitting(p, s, t) ==
    \/ /\ s.mode = "pending_start" /\ ~p
       /\ s.r = <<>> /\ Holding(StartTag, s.c, s.buf, t)
    \/ /\ s.mode = "reasoning" /\ Opened(p, t)
       /\ s.c = Lead(p, t) /\ Holding(EndTag, s.r, s.buf, Span(p, t))
    \/ /\ s.mode = "content" /\ Opened(p, t) /\ Has(EndTag, Span(p, t))
       /\ s.buf = <<>> /\ s.r = Before(EndTag, Span(p, t))
       /\ s.c = Lead(p, t) \o After(EndTag, Span(p, t))

States == [mode : Modes, buf : Seq(Chars), r : Seq(Chars), c : Seq(Chars)]

ParserInv == ParserType /\ Splitting(inPrompt, state, text)

LEMMA BothTags == StartTag \in Tags /\ EndTag \in Tags
BY ParserTags DEF Tags

\* Once the reasoning has begun, more text moves neither its start nor what came before.
LEMMA OpenedGrows ==
    ASSUME NEW p \in BOOLEAN, NEW t \in Seq(Chars), Opened(p, t), NEW d \in Seq(Chars)
    PROVE  /\ Opened(p, t \o d) /\ Lead(p, t \o d) = Lead(p, t) /\ Span(p, t \o d) = Span(p, t) \o d
           /\ Lead(p, t) \in Seq(Chars) /\ Span(p, t) \in Seq(Chars)
<1>1. CASE p
  BY <1>1, EmptySeq DEF Opened, Lead, Span
<1>2. CASE ~p
  <2>1. Has(StartTag, t)
    BY <1>2 DEF Opened
  <2>2. Before(StartTag, t) \in Seq(Chars) /\ After(StartTag, t) \in Seq(Chars)
    BY <2>1, BothTags, Split
  <2>3. /\ Has(StartTag, t \o d) /\ Before(StartTag, t \o d) = Before(StartTag, t)
        /\ After(StartTag, t \o d) = After(StartTag, t) \o d
    BY <2>1, BothTags, Grown
  <2> QED BY <1>2, <2>2, <2>3 DEF Opened, Lead, Span
<1> QED BY <1>1, <1>2

\* In the content mode everything is released at once.
LEMMA ContentStep ==
    ASSUME NEW p \in BOOLEAN, NEW t, NEW s \in States, s.mode = "content",
           Opened(p, t), Has(EndTag, Span(p, t)), s.r = Before(EndTag, Span(p, t)),
           s.c \o s.buf = Lead(p, t) \o After(EndTag, Span(p, t))
    PROVE  Content(s) \in States /\ Splitting(p, Content(s), t)
<1> DEFINE z == Content(s)
<1>1. z = [s EXCEPT !.buf = <<>>, !.c = s.c \o s.buf]
  BY DEF Content
<1>2. /\ z \in States /\ z.mode = "content" /\ z.buf = <<>> /\ z.r = s.r
      /\ z.c = Lead(p, t) \o After(EndTag, Span(p, t))
  <2>1. s.c \o s.buf \in Seq(Chars) /\ <<>> \in Seq(Chars)
    BY ConcatProperties, EmptySeq DEF States
  <2> QED BY <1>1, <2>1 DEF States
<1> HIDE DEF z
<1>3. Splitting(p, z, t)
  BY <1>2 DEF Splitting
<1> QED BY <1>2, <1>3 DEF z

\* In the reasoning mode the buffer is what was held back and the new text.
LEMMA ReasoningStep ==
    ASSUME NEW p \in BOOLEAN, NEW t, NEW s \in States, s.mode = "reasoning",
           Opened(p, t), s.c = Lead(p, t),
           NEW b, NEW T, Holding(EndTag, s.r, b, T), NEW d \in Seq(Chars),
           s.buf = b \o d, Span(p, t) = T \o d
    PROVE  Content(Reasoning(s)) \in States /\ Splitting(p, Content(Reasoning(s)), t)
<1> DEFINE w == s.buf
<1>1. /\ w \in Seq(Chars)
      /\ Has(EndTag, w) => /\ Has(EndTag, Span(p, t))
                           /\ s.r \o Before(EndTag, w) = Before(EndTag, Span(p, t))
                           /\ After(EndTag, w) = After(EndTag, Span(p, t))
      /\ ~Has(EndTag, w) => Holding(EndTag, s.r \o Emitted(EndTag, w), Kept(EndTag, w), Span(p, t))
  <2>1. Scanned(EndTag, s.r, b \o d, T \o d)
    BY Scan, BothTags
  <2> QED BY <2>1 DEF Scanned
<1> DEFINE z == Reasoning(s)
<1>2. CASE Has(EndTag, w)
  <2>1. z = [mode |-> "content", buf |-> After(EndTag, w), r |-> s.r \o Before(EndTag, w), c |-> s.c]
    BY <1>2 DEF Reasoning
  <2>2. /\ Before(EndTag, w) \in Seq(Chars) /\ After(EndTag, w) \in Seq(Chars)
        /\ s.r \in Seq(Chars) /\ s.c \in Seq(Chars)
    BY <1>1, <1>2, BothTags, Split DEF States
  <2>3. s.r \o Before(EndTag, w) \in Seq(Chars)
    BY <2>2, ConcatProperties
  <2>4. /\ z \in States /\ z.mode = "content" /\ z.r = Before(EndTag, Span(p, t))
        /\ z.c \o z.buf = Lead(p, t) \o After(EndTag, Span(p, t))
    BY <1>1, <1>2, <2>1, <2>2, <2>3 DEF States, Modes
  <2> HIDE DEF z, w
  <2>5. Content(z) \in States /\ Splitting(p, Content(z), t)
    BY <1>1, <1>2, <2>4, ContentStep
  <2> QED BY <2>5 DEF z
<1>3. CASE ~Has(EndTag, w)
  <2>1. z = [s EXCEPT !.buf = Kept(EndTag, w), !.r = s.r \o Emitted(EndTag, w)]
    BY <1>3 DEF Reasoning
  <2>2. /\ Kept(EndTag, w) \in Seq(Chars) /\ s.r \o Emitted(EndTag, w) \in Seq(Chars)
    BY <1>1, <1>3 DEF Holding
  <2>3. /\ z \in States /\ z.mode = "reasoning" /\ z.c = Lead(p, t)
        /\ Holding(EndTag, z.r, z.buf, Span(p, t))
    BY <1>1, <1>3, <2>1, <2>2 DEF States
  <2> HIDE DEF z, w
  <2>4. Content(z) = z
    BY <2>3 DEF Content
  <2>5. Splitting(p, z, t)
    BY <2>3 DEF Splitting
  <2> QED BY <2>3, <2>4, <2>5 DEF z
<1> QED BY <1>2, <1>3

\* One chunk, through the modes it falls through.
LEMMA FedSplits ==
    ASSUME NEW p \in BOOLEAN, NEW u \in States, NEW x \in Seq(Chars), NEW d \in Seq(Chars),
           Splitting(p, u, x)
    PROVE  Fed(u, d) \in States /\ Splitting(p, Fed(u, d), x \o d)
<1> DEFINE s == [u EXCEPT !.buf = u.buf \o d]
<1> DEFINE t == x \o d
<1>3. /\ t \in Seq(Chars) /\ u.buf \in Seq(Chars) /\ u.r \in Seq(Chars) /\ u.c \in Seq(Chars)
  BY ConcatProperties DEF States
<1>4. s \in States /\ s.mode = u.mode /\ s.r = u.r /\ s.c = u.c /\ s.buf = u.buf \o d
  <2>1. u.buf \o d \in Seq(Chars)
    BY <1>3, ConcatProperties
  <2> QED BY <1>3, <2>1 DEF States
<1>5. Fed(u, d) = Content(Reasoning(Pending(s)))
  BY DEF Fed
<1> HIDE DEF s, t
<1> SUFFICES Content(Reasoning(Pending(s))) \in States /\ Splitting(p, Content(Reasoning(Pending(s))), t)
  BY <1>5 DEF t
<1>7. CASE u.mode = "content"
  <2>1. Pending(s) = s /\ Reasoning(s) = s
    BY <1>4, <1>7 DEF Pending, Reasoning
  <2>2. /\ Opened(p, x) /\ Has(EndTag, Span(p, x)) /\ u.buf = <<>>
        /\ u.r = Before(EndTag, Span(p, x))
        /\ u.c = Lead(p, x) \o After(EndTag, Span(p, x))
    BY <1>7 DEF Splitting
  <2>3. /\ Opened(p, t) /\ Lead(p, t) = Lead(p, x) /\ Span(p, t) = Span(p, x) \o d
        /\ Lead(p, x) \in Seq(Chars) /\ Span(p, x) \in Seq(Chars)
    BY <1>3, <2>2, OpenedGrows DEF t
  <2>4. /\ Has(EndTag, Span(p, t)) /\ Before(EndTag, Span(p, t)) = Before(EndTag, Span(p, x))
        /\ After(EndTag, Span(p, t)) = After(EndTag, Span(p, x)) \o d
    BY <2>2, <2>3, BothTags, Grown
  <2>5. After(EndTag, Span(p, x)) \in Seq(Chars)
    BY <2>2, <2>3, BothTags, Split
  <2>6. s.buf = d
    BY <1>4, <2>2, ConcatEmptySeq
  <2>7. s.c \o s.buf = Lead(p, t) \o After(EndTag, Span(p, t))
    <3>1. (Lead(p, x) \o After(EndTag, Span(p, x))) \o d
            = Lead(p, x) \o (After(EndTag, Span(p, x)) \o d)
      BY <2>3, <2>5, ConcatAssociative
    <3> QED BY ONLY <1>4, <2>2, <2>3, <2>4, <2>6, <3>1
  <2>8. Content(s) \in States /\ Splitting(p, Content(s), t)
    BY <1>3, <1>4, <1>7, <2>2, <2>3, <2>4, <2>7, ContentStep
  <2> QED BY <2>1, <2>8
<1>8. CASE u.mode = "reasoning"
  <2>1. Pending(s) = s
    BY <1>4, <1>8 DEF Pending
  <2>2. Opened(p, x) /\ u.c = Lead(p, x) /\ Holding(EndTag, u.r, u.buf, Span(p, x))
    BY <1>8 DEF Splitting
  <2>3. Opened(p, t) /\ Lead(p, t) = Lead(p, x) /\ Span(p, t) = Span(p, x) \o d
    BY <1>3, <2>2, OpenedGrows DEF t
  <2>4. Content(Reasoning(s)) \in States /\ Splitting(p, Content(Reasoning(s)), t)
    BY <1>3, <1>4, <1>8, <2>2, <2>3, ReasoningStep
  <2> QED BY <2>1, <2>4
<1>9. CASE u.mode = "pending_start"
  <2>1. ~p /\ u.r = <<>> /\ Holding(StartTag, u.c, u.buf, x)
    BY <1>9 DEF Splitting
  <2> DEFINE w == s.buf
  <2>2. /\ w \in Seq(Chars)
        /\ Has(StartTag, w) => /\ Has(StartTag, t)
                               /\ u.c \o Before(StartTag, w) = Before(StartTag, t)
                               /\ After(StartTag, w) = After(StartTag, t)
        /\ ~Has(StartTag, w) => Holding(StartTag, u.c \o Emitted(StartTag, w), Kept(StartTag, w), t)
    <3>1. Scanned(StartTag, u.c, u.buf \o d, x \o d)
      BY <2>1, Scan, BothTags
    <3> QED BY <1>4, <3>1 DEF Scanned, t
  <2> DEFINE z == Pending(s)
  <2>3. CASE Has(StartTag, w)
    <3>1. z = [mode |-> "reasoning", buf |-> After(StartTag, w), r |-> s.r, c |-> s.c \o Before(StartTag, w)]
      BY <1>4, <1>9, <2>3 DEF Pending
    <3>2. After(StartTag, w) \in Seq(Chars) /\ Before(StartTag, w) \in Seq(Chars)
      BY <2>2, <2>3, BothTags, Split
    <3>3. s.c \o Before(StartTag, w) \in Seq(Chars) /\ s.r \in Seq(Chars)
      BY <1>3, <1>4, <3>2, ConcatProperties
    <3>4. /\ z \in States /\ z.mode = "reasoning" /\ z.r = <<>> /\ z.buf = After(StartTag, t)
          /\ z.c = Before(StartTag, t)
      <4>1. /\ z.mode = "reasoning" /\ z.r = s.r /\ z.buf = After(StartTag, w)
            /\ z.c = s.c \o Before(StartTag, w)
        <5> HIDE DEF z, w
        <5> QED BY <3>1
      <4>2. z \in States
        BY <3>1, <3>2, <3>3 DEF States, Modes
      <4> HIDE DEF z, w
      <4> QED BY ONLY <1>4, <2>1, <2>2, <2>3, <4>1, <4>2
    <3>5. /\ Opened(p, t) /\ Lead(p, t) = Before(StartTag, t) /\ Span(p, t) = After(StartTag, t)
      BY <2>1, <2>2, <2>3 DEF Opened, Lead, Span
    <3> DEFINE d2 == After(StartTag, t)
    <3>6. d2 \in Seq(Chars) /\ <<>> \o d2 = d2
      BY <2>2, <2>3, <3>2, ConcatEmptySeq
    <3> HIDE DEF d2, z
    <3>7. Holding(EndTag, z.r, <<>>, <<>>)
      BY <3>4, BothTags, NothingHeld
    <3>8. Opened(p, t) /\ z.c = Lead(p, t) /\ z.buf = <<>> \o d2 /\ Span(p, t) = <<>> \o d2
      BY <3>4, <3>5, <3>6 DEF d2
    <3>9. Content(Reasoning(z)) \in States /\ Splitting(p, Content(Reasoning(z)), t)
      BY <1>3, <3>4, <3>6, <3>7, <3>8, ReasoningStep
    <3> QED BY <3>9 DEF z
  <2>4. CASE ~Has(StartTag, w)
    <3>1. z = [s EXCEPT !.buf = Kept(StartTag, w), !.c = s.c \o Emitted(StartTag, w)]
      BY <1>4, <1>9, <2>4 DEF Pending
    <3>2. Kept(StartTag, w) \in Seq(Chars) /\ s.c \o Emitted(StartTag, w) \in Seq(Chars)
      BY <1>4, <2>2, <2>4 DEF Holding
    <3>3. /\ z \in States /\ z.mode = "pending_start" /\ z.r = <<>>
          /\ Holding(StartTag, z.c, z.buf, t)
      BY <1>4, <1>9, <2>1, <2>2, <2>4, <3>1, <3>2 DEF States
    <3> HIDE DEF z
    <3>4. Reasoning(z) = z /\ Content(z) = z
      BY <3>3 DEF Reasoning, Content
    <3>5. Splitting(p, z, t)
      BY <2>1, <3>3 DEF Splitting
    <3> QED BY <3>3, <3>4, <3>5 DEF z
  <2> QED BY <2>3, <2>4
<1> QED BY <1>3, <1>7, <1>8, <1>9 DEF States, Modes

LEMMA FeedStep == ASSUME ParserInv, Feed PROVE ParserInv'
<1>1. PICK d \in Deltas : state' = Fed(state, d) /\ text' = text \o d /\ UNCHANGED inPrompt
  BY DEF Feed
<1>2. d \in Seq(Chars)
  <2>1. PICK n \in 1..MaxDelta : d \in [1..n -> Chars]
    BY DEF Deltas
  <2>2. n \in Nat
    BY ParserTags
  <2> QED BY <2>1, <2>2, SeqDef
<1>3. inPrompt \in BOOLEAN /\ text \in Seq(Chars) /\ state \in States /\ Splitting(inPrompt, state, text)
  BY DEF ParserInv, ParserType, States
<1>4. text \o d \in Seq(Chars)
  BY <1>2, <1>3, ConcatProperties
<1>5. Fed(state, d) \in States /\ Splitting(inPrompt, Fed(state, d), text \o d)
  BY <1>2, <1>3, FedSplits
<1> QED BY <1>1, <1>3, <1>4, <1>5 DEF ParserInv, ParserType, States

LEMMA FreshSplits == ASSUME NEW p \in BOOLEAN PROVE Fresh(p) \in States /\ Splitting(p, Fresh(p), <<>>)
<1>1. <<>> \in Seq(Chars)
  BY EmptySeq
<1>2. /\ Fresh(p) \in States /\ Fresh(p).mode = (IF p THEN "reasoning" ELSE "pending_start")
      /\ Fresh(p).buf = <<>> /\ Fresh(p).r = <<>> /\ Fresh(p).c = <<>>
  BY <1>1 DEF Fresh, States, Modes
<1>3. Holding(StartTag, <<>>, <<>>, <<>>) /\ Holding(EndTag, <<>>, <<>>, <<>>)
  BY BothTags, NothingHeld
<1> QED BY <1>2, <1>3 DEF Splitting, Opened, Lead, Span

LEMMA ParserInvariant == ParserSpec => []ParserInv
<1>1. ParserInit => ParserInv
  <2> SUFFICES ASSUME ParserInit PROVE ParserInv
    OBVIOUS
  <2>1. inPrompt = TRUE /\ state = Fresh(TRUE) /\ text = <<>> /\ <<>> \in Seq(Chars)
    BY EmptySeq DEF ParserInit
  <2>2. state \in States /\ Splitting(inPrompt, state, text)
    BY <2>1, FreshSplits
  <2> QED BY <2>1, <2>2 DEF ParserInv, ParserType, States
<1>2. ParserInv /\ [ParserNext]_parserVars => ParserInv'
  <2> SUFFICES ASSUME ParserInv, [ParserNext]_parserVars PROVE ParserInv'
    OBVIOUS
  <2>1. CASE MakeState
    <3>1. inPrompt' \in BOOLEAN /\ state' = Fresh(inPrompt') /\ text' = <<>> /\ <<>> \in Seq(Chars)
      BY <2>1, EmptySeq DEF MakeState
    <3>2. state' \in States /\ Splitting(inPrompt', state', text')
      BY <3>1, FreshSplits
    <3> QED BY <3>1, <3>2 DEF ParserInv, ParserType, States
  <2>2. CASE Feed
    BY <2>2, FeedStep
  <2>3. CASE UNCHANGED parserVars
    BY <2>3 DEF parserVars, ParserInv, ParserType, Splitting
  <2> QED BY <2>1, <2>2, <2>3 DEF ParserNext
<1> QED BY <1>1, <1>2, PTL DEF ParserSpec

\* The state of make_state and feed stays well formed for any tags and any
\* chunks (reasoning.py:84-106).
THEOREM ParserTyped == ParserSpec => []ParserType
<1>1. ParserInv => ParserType
  BY DEF ParserInv
<1> QED BY <1>1, ParserInvariant, PTL

-----------------------------------------------------------------------------
(* The split of the whole text, fed at once and by extract_final. *)

\* The span up to the first end tag, and what a generation means when the model
\* writes both tags: whatever surrounds the span is content.
SpanSplit(t) ==
    IF Has(EndTag, t) THEN <<Before(EndTag, t), After(EndTag, t)>> ELSE <<t, <<>>>>
Meaning(t) ==
    IF ~Has(StartTag, t) THEN <<<<>>, t>>
    ELSE <<SpanSplit(After(StartTag, t))[1], Before(StartTag, t) \o SpanSplit(After(StartTag, t))[2]>>
Splits(p, t) == IF p THEN SpanSplit(t) ELSE Meaning(t)

Short(s) ==
    Len(s.buf) <= CASE s.mode = "pending_start" -> Hold(StartTag)
                    [] s.mode = "reasoning" -> Hold(EndTag)
                    [] OTHER -> 0

LEMMA SplittingIsFinal ==
    ASSUME NEW p \in BOOLEAN, NEW s \in States, NEW t \in Seq(Chars), Splitting(p, s, t)
    PROVE  Finalized(s) = Splits(p, t) /\ Short(s)
<1>0. s.buf \in Seq(Chars) /\ s.r \in Seq(Chars) /\ s.c \in Seq(Chars)
  BY DEF States
<1>1. /\ Hold(StartTag) \in Nat /\ Hold(EndTag) \in Nat
  <2>1. \A tag \in Tags : Hold(tag) \in Nat
    BY LenProperties DEF Tags, Hold
  <2> QED BY <2>1, BothTags
<1>2. \A tag, e, b, T : Holding(tag, e, b, T) /\ T \in Seq(Chars) /\ Hold(tag) \in Nat
                          => Len(b) <= Hold(tag)
  BY LenProperties DEF Holding
<1>3. Opened(p, t) => Lead(p, t) \in Seq(Chars) /\ Span(p, t) \in Seq(Chars)
  BY <1>0, EmptySeq, OpenedGrows
<1>4. Opened(p, t) => Splits(p, t)
                        = <<SpanSplit(Span(p, t))[1], Lead(p, t) \o SpanSplit(Span(p, t))[2]>>
  <2>1. CASE p
    <3>1. SpanSplit(t)[2] \in Seq(Chars) /\ SpanSplit(t) = <<SpanSplit(t)[1], SpanSplit(t)[2]>>
      BY <1>0, EmptySeq, BothTags, Split DEF SpanSplit
    <3> QED BY <2>1, <3>1, ConcatEmptySeq DEF Span, Lead, Splits
  <2>2. CASE ~p
    BY <2>2 DEF Opened, Span, Lead, Meaning, Splits
  <2> QED BY <2>1, <2>2
<1>5. CASE s.mode = "pending_start"
  <2>1. ~p /\ s.r = <<>> /\ Holding(StartTag, s.c, s.buf, t)
    BY <1>0, <1>5 DEF Splitting
  <2>2. Meaning(t) = <<<<>>, t>> /\ t = s.c \o s.buf
    BY <2>1 DEF Holding, Meaning
  <2>3. Finalized(s) = <<s.r, s.c \o s.buf>>
    BY <1>5 DEF Finalized
  <2>4. Short(s)
    BY <1>0, <1>1, <1>2, <1>5, <2>1 DEF Short
  <2> QED BY <2>1, <2>2, <2>3, <2>4 DEF Splits
<1>6. CASE s.mode = "reasoning"
  <2>1. Opened(p, t) /\ s.c = Lead(p, t) /\ Holding(EndTag, s.r, s.buf, Span(p, t))
    BY <1>0, <1>6 DEF Splitting
  <2>2. SpanSplit(Span(p, t)) = <<s.r \o s.buf, <<>>>>
    BY <2>1 DEF Holding, SpanSplit
  <2>3. Lead(p, t) \o <<>> = s.c
    BY <1>0, <2>1, ConcatEmptySeq
  <2>4. Finalized(s) = <<s.r \o s.buf, s.c>>
    BY <1>6 DEF Finalized
  <2>5. Short(s)
    BY <1>1, <1>2, <1>3, <1>6, <2>1 DEF Short
  <2>6. SpanSplit(Span(p, t))[1] = s.r \o s.buf /\ SpanSplit(Span(p, t))[2] = <<>>
    <3> DEFINE x == s.r \o s.buf
    <3> DEFINE y == SpanSplit(Span(p, t))
    <3>1. y = <<x, <<>>>>
      BY <2>2
    <3> HIDE DEF x, y
    <3>2. y[1] = x /\ y[2] = <<>>
      BY ONLY <3>1
    <3> QED BY <3>2 DEF x, y
  <2>7. Splits(p, t) = Finalized(s)
    BY <1>4, <2>1, <2>3, <2>4, <2>6
  <2> QED BY <2>5, <2>7
<1>7. CASE s.mode = "content"
  <2>1. /\ Opened(p, t) /\ Has(EndTag, Span(p, t)) /\ s.buf = <<>>
        /\ s.r = Before(EndTag, Span(p, t)) /\ s.c = Lead(p, t) \o After(EndTag, Span(p, t))
    BY <1>0, <1>7 DEF Splitting
  <2>2. SpanSplit(Span(p, t)) = <<s.r, After(EndTag, Span(p, t))>>
    BY <2>1 DEF SpanSplit
  <2>3. Finalized(s) = <<s.r, s.c>>
    <3>1. s.c \o <<>> = s.c
      BY <1>0, ConcatEmptySeq
    <3> QED BY <1>7, <2>1, <3>1 DEF Finalized
  <2>4. Short(s)
    BY <1>7, <2>1, EmptySeq DEF Short
  <2> QED BY <1>4, <2>1, <2>2, <2>3, <2>4
<1> QED BY <1>5, <1>6, <1>7 DEF States, Modes

\* extract_final gives the same where the text leaves no doubt, and only there.
LEMMA SplitsAgree ==
    ASSUME NEW p \in BOOLEAN, NEW t \in Seq(Chars)
    PROVE  Splits(p, t) = ExtractFinal(p, t) <=> Unambiguous(p, t)
<1>1. CASE p
  <2>1. ExtractFinal(p, t) = SpanSplit(t)
    BY <1>1 DEF ExtractFinal, SpanSplit
  <2> QED BY <1>1, <2>1 DEF Splits, Unambiguous
<1>2. CASE ~p /\ ~Has(StartTag, t)
  <2>1. Splits(p, t) = <<<<>>, t>>
    BY <1>2 DEF Splits, Meaning
  <2>2. CASE ~Has(EndTag, t)
    <3>1. ExtractFinal(p, t) = <<<<>>, t>>
      BY <1>2, <2>2 DEF ExtractFinal
    <3> QED BY <1>2, <2>1, <2>2, <3>1 DEF Unambiguous
  <2>3. CASE Has(EndTag, t)
    <3>1. ExtractFinal(p, t) = <<Before(EndTag, t), After(EndTag, t)>>
      BY <1>2, <2>3 DEF ExtractFinal
    <3>2. Len(After(EndTag, t)) < Len(t)
      <4>1. EndTag \in Tags /\ Len(EndTag) \in Nat /\ Len(EndTag) > 1 /\ Len(t) \in Nat
        BY BothTags, LenProperties DEF Tags
      <4>2. PICK f : f = First(EndTag, t)
        OBVIOUS
      <4>3. f \in Nat /\ Len(After(EndTag, t)) = Len(t) - (f + Len(EndTag))
        BY <2>3, <4>1, <4>2, Split
      <4> QED BY ONLY <4>1, <4>3
    <3>3. After(EndTag, t) # t
      <4>1. Len(t) \in Nat
        BY LenProperties
      <4> QED BY <3>2, <4>1
    <3>4. <<<<>>, t>> # <<Before(EndTag, t), After(EndTag, t)>>
      BY <3>3
    <3> QED BY <1>2, <2>1, <2>3, <3>1, <3>4 DEF Unambiguous
  <2> QED BY <2>2, <2>3
<1>3. CASE ~p /\ Has(StartTag, t)
  <2>1. PICK a : a = After(StartTag, t)
    OBVIOUS
  <2>2. PICK l : l = Before(StartTag, t)
    OBVIOUS
  <2>3. /\ a \in Seq(Chars) /\ l \in Seq(Chars) /\ Len(l) = First(StartTag, t)
        /\ First(StartTag, t) \in Nat
    BY <1>3, <2>1, <2>2, BothTags, Split
  <2>4. First(StartTag, t) = 0 <=> l = <<>>
    BY <2>3, EmptySeq
  <2>5. /\ Unambiguous(p, t) <=> l = <<>> /\ (Has(EndTag, a) \/ a = <<>>)
        /\ Splits(p, t) = <<SpanSplit(a)[1], l \o SpanSplit(a)[2]>>
    BY <1>3, <2>1, <2>2, <2>4 DEF Unambiguous, Splits, Meaning
  <2>6. CASE Has(EndTag, a)
    <3>1. PICK b : b = Before(EndTag, a)
      OBVIOUS
    <3>2. PICK c : c = After(EndTag, a)
      OBVIOUS
    <3>3. SpanSplit(a) = <<b, c>> /\ ExtractFinal(p, t) = <<b, c>>
      BY <1>3, <2>1, <2>6, <3>1, <3>2 DEF SpanSplit, ExtractFinal
    <3>4. Splits(p, t) = <<b, l \o c>>
      BY <2>5, <3>3
    <3>5. c \in Seq(Chars)
      BY <2>3, <2>6, <3>2, BothTags, Split
    <3>6. l \o c = c <=> l = <<>>
      <4>1. Len(l) \in Nat /\ Len(c) \in Nat /\ Len(l \o c) = Len(l) + Len(c)
        BY <2>3, <3>5, LenProperties, ConcatProperties
      <4>2. l = <<>> => l \o c = c
        BY <3>5, ConcatEmptySeq
      <4>3. l \o c = c => Len(l) = 0
        BY <4>1
      <4> QED BY <2>3, <2>4, <4>2, <4>3
    <3>7. <<b, l \o c>> = <<b, c>> <=> l \o c = c
      OBVIOUS
    <3> QED BY <2>5, <2>6, <3>3, <3>4, <3>6, <3>7
  <2>7. CASE ~Has(EndTag, a)
    <3>1. SpanSplit(a) = <<a, <<>>>> /\ ExtractFinal(p, t) = <<<<>>, a>>
      BY <1>3, <2>1, <2>7 DEF SpanSplit, ExtractFinal
    <3>2. Splits(p, t) = <<a, l>>
      <4>1. Splits(p, t) = <<a, l \o <<>>>>
        BY <2>5, <3>1
      <4>2. l \o <<>> = l
        BY <2>3, ConcatEmptySeq
      <4> QED BY <4>1, <4>2
    <3>3. <<a, l>> = <<<<>>, a>> <=> a = <<>> /\ l = <<>>
      OBVIOUS
    <3> QED BY <2>5, <2>7, <3>1, <3>2, <3>3
  <2> QED BY <2>6, <2>7
<1> QED BY <1>1, <1>2, <1>3

\* For all tags, texts and cuts into chunks: the deltas of feed and the tail of
\* finalize are the split of the text fed at once; they are extract_final's
\* exactly where the text leaves no doubt; and no more than a tag less one is
\* ever held back (reasoning.py:61-83, 96-98, 108-164).
THEOREM StreamingSplitsAsOneShot == ParserSpec => []StreamingIsOneShot
<1>1. ASSUME ParserInv PROVE StreamingIsOneShot
  <2>1. inPrompt \in BOOLEAN /\ state \in States /\ text \in Seq(Chars) /\ Splitting(inPrompt, state, text)
    BY <1>1 DEF ParserInv, ParserType, States
  <2>2. Finalized(state) = Splits(inPrompt, text) /\ Short(state)
    BY <2>1, SplittingIsFinal
  <2>3. Finalized(Fed(Fresh(inPrompt), text)) = Splits(inPrompt, text)
    <3>1. Fresh(inPrompt) \in States /\ Splitting(inPrompt, Fresh(inPrompt), <<>>)
      BY <2>1, FreshSplits
    <3>2. <<>> \in Seq(Chars) /\ <<>> \o text = text
      BY <2>1, EmptySeq, ConcatEmptySeq
    <3>3. PICK u : u = Fed(Fresh(inPrompt), text)
      OBVIOUS
    <3>4. u \in States /\ Splitting(inPrompt, u, <<>> \o text)
      BY <2>1, <3>1, <3>2, <3>3, FedSplits
    <3>5. Splitting(inPrompt, u, text)
      BY <3>2, <3>4
    <3> QED BY <2>1, <3>3, <3>4, <3>5, SplittingIsFinal
  <2>4. Splits(inPrompt, text) = ExtractFinal(inPrompt, text) <=> Unambiguous(inPrompt, text)
    BY <2>1, SplitsAgree
  <2>5. HeldBackIsShort
    BY <2>2 DEF Short, HeldBackIsShort
  <2> QED BY ONLY <2>2, <2>3, <2>4, <2>5 DEF StreamingIsOneShot
<1> QED BY <1>1, ParserInvariant, PTL
=============================================================================
