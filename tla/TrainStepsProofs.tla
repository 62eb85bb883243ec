-------------------------- MODULE TrainStepsProofs --------------------------
(***************************************************************************)
(* Proofs about TrainSteps.  The invariant adds to StepsAreWhole what the  *)
(* gradients are while a step is under way, and to PushDownIsAnchored what *)
(* a step that is under way has been admitted on.                          *)
(***************************************************************************)
EXTENDS TrainSteps, SequenceTheorems, TLAPS

KeyAt(n) == KeyOf(ledger[n].spec)

\* A step under way has no result yet, is newer than the last load, and has
\* its optimizer before it goes backward.
UnderWay ==
    doing # "idle" =>
        /\ ledger[step].result = "none" /\ since < step
        /\ doing \in {"backward", "update"} => KeyAt(step) \in DOMAIN opts

\* What is in the gradient buffers.
GradientsOf ==
    /\ doing = "backward" => grads = {}
    /\ doing = "update" => grads = {step}
    /\ doing \in {"idle", "primaries", "sidecars"} => \A n \in grads : ledger[n].result = "ok"

\* StepsAreWhole step by step; an optimizer stepped since the last load exists.
WholeAt ==
    /\ \A n \in weights \cup saved : ledger[n].result \in {"ok", "torn"}
    /\ \A n \in 1..step : n > since /\ ledger[n].result = "ok"
          => n \in weights /\ KeyAt(n) \in DOMAIN opts /\ n \in opts[KeyAt(n)]
    /\ \A k \in DOMAIN opts : \A n \in opts[k] :
          ledger[n].result \in {"ok", "torn"} /\ n > since /\ KeyAt(n) = k
    /\ \A n \in ema : n > since
    /\ \A n \in grads : ledger[n].result \notin {"failed", "skipped"}

WholeInv == StepsType /\ UnderWay /\ GradientsOf /\ WholeAt

\* What the last step was let through with, as far as it got.
AnchorRan(i) == spec.sides[i] = "kl_anchor" => "kl_anchor" \in terms

LetThrough(s) == \E i \in 1..Len(s.names) : s.names[i] = "unlike" /\ Admitted(s, i)

Admission ==
    doing # "idle" =>
        /\ "unlike" \in terms /\ GateSees(spec) => LetThrough(spec)
        /\ doing = "sidecars" => \A i \in 1..Len(spec.sides) : i < pos => AnchorRan(i)
        /\ doing \in {"backward", "update"} =>
             terms # {} /\ \A i \in 1..Len(spec.sides) : AnchorRan(i)
        /\ doing = "update" => terms \ {"zero"} # {}

\* PushDownIsAnchored for one step.
AnchoredAt(n) ==
    ledger[n].result \in {"ok", "torn"} =>
        /\ ledger[n].terms \ {"zero"} # {}
        /\ (/\ ledger[n].spec.pure /\ "unlike" \in ledger[n].terms
            /\ ~ledger[n].spec.unanchored /\ GateSees(ledger[n].spec))
              => "kl_anchor" \in ledger[n].terms

AnchorInv == Admission /\ \A n \in 1..step : AnchoredAt(n)

-----------------------------------------------------------------------------
(* The ledger. *)

LEMMA StepIsNat == ASSUME StepsType PROVE step \in Nat /\ ledger \in Seq(Entry)
<1>1. ledger \in Seq(Entry)
  BY DEF StepsType
<1> QED BY <1>1 DEF step

LEMMA SpecShape ==
    ASSUME StepsType, NEW n \in 1..step
    PROVE  /\ ledger[n] \in Entry
           /\ ledger[n].spec \in Specs /\ ledger[n].terms \in SUBSET Terms
           /\ ledger[n].result \in Results
           /\ KeyAt(n) \in Objectives \cup {"shared"}
           /\ Len(ledger[n].spec.sides) \in Nat /\ Len(ledger[n].spec.names) \in Nat
<1>1. ledger[n] \in Entry
  BY StepIsNat, ElementOfSeq DEF step
<1>2. /\ ledger[n].spec \in Specs /\ ledger[n].terms \in SUBSET Terms
      /\ ledger[n].result \in Results
  BY <1>1 DEF Entry
<1>3. ledger[n].spec.names \in Seq(Objectives) /\ ledger[n].spec.names # <<>>
      /\ ledger[n].spec.sides \in Seq(Objectives)
  BY <1>2, StepBounds
<1>4. ledger[n].spec.names[1] \in Objectives
  BY <1>3
<1>5. KeyAt(n) \in Objectives \cup {"shared"}
  BY ONLY <1>4 DEF KeyAt, KeyOf
<1>6. Len(ledger[n].spec.sides) \in Nat /\ Len(ledger[n].spec.names) \in Nat
  BY ONLY <1>3
<1> QED BY ONLY <1>1, <1>2, <1>5, <1>6

\* The entry of the last step is replaced.
LEMMA LastReplaced ==
    ASSUME StepsType, step > 0, NEW new \in Entry, ledger' = [ledger EXCEPT ![step] = new]
    PROVE  /\ ledger' \in Seq(Entry) /\ step' = step /\ step \in 1..step
           /\ \A n \in 1..step : n # step => ledger'[n] = ledger[n]
           /\ ledger'[step] = new
<1>1. step \in Nat /\ step \in 1..step /\ ledger \in Seq(Entry) /\ step = Len(ledger)
  BY StepIsNat DEF step
<1>2. ledger' \in Seq(Entry) /\ Len(ledger') = Len(ledger)
      /\ \A n \in 1..Len(ledger) : ledger'[n] = IF n = step THEN new ELSE ledger[n]
  BY <1>1, ExceptSeq
<1> QED BY <1>1, <1>2 DEF step

\* A term joins the loss of the last step, and nothing else changes.
LEMMA TermAdded ==
    ASSUME StepsType, step > 0, NEW t \in Terms, AddTerm(t)
    PROVE  /\ ledger' \in Seq(Entry) /\ step' = step /\ step \in 1..step
           /\ \A n \in 1..step : ledger'[n].spec = ledger[n].spec /\ ledger'[n].result = ledger[n].result
           /\ \A n \in 1..step : n # step => ledger'[n] = ledger[n]
           /\ ledger'[step].terms = ledger[step].terms \cup {t}
<1>0. step \in Nat /\ step \in 1..step
  BY StepIsNat
<1>1. ledger[step] \in Entry
  BY <1>0, SpecShape
<1> DEFINE new == [ledger[step] EXCEPT !.terms = @ \cup {t}]
<1>2. /\ new \in Entry
      /\ new.spec = ledger[step].spec /\ new.result = ledger[step].result
      /\ new.terms = ledger[step].terms \cup {t}
  BY <1>1 DEF Entry
<1>3. ledger' = [ledger EXCEPT ![step] = new]
  BY DEF AddTerm
<1> HIDE DEF new
<1>4. /\ ledger' \in Seq(Entry) /\ step' = step
      /\ \A n \in 1..step : n # step => ledger'[n] = ledger[n]
      /\ ledger'[step] = new
  BY <1>2, <1>3, LastReplaced
<1> QED BY <1>0, <1>2, <1>4

\* A step ends with a result.
LEMMA StepFinished ==
    ASSUME StepsType, step > 0, NEW r \in Results, Finish(r)
    PROVE  /\ ledger' \in Seq(Entry) /\ step' = step /\ step \in 1..step
           /\ \A n \in 1..step : ledger'[n].spec = ledger[n].spec /\ ledger'[n].terms = ledger[n].terms
           /\ \A n \in 1..step : n # step => ledger'[n] = ledger[n]
           /\ ledger'[step].result = r
<1>0. step \in Nat /\ step \in 1..step
  BY StepIsNat
<1>1. ledger[step] \in Entry
  BY <1>0, SpecShape
<1> DEFINE new == [ledger[step] EXCEPT !.result = r]
<1>2. /\ new \in Entry
      /\ new.spec = ledger[step].spec /\ new.result = r
      /\ new.terms = ledger[step].terms
  BY <1>1 DEF Entry
<1>3. ledger' = [ledger EXCEPT ![step] = new]
  BY DEF Finish
<1> HIDE DEF new
<1>4. /\ ledger' \in Seq(Entry) /\ step' = step
      /\ \A n \in 1..step : n # step => ledger'[n] = ledger[n]
      /\ ledger'[step] = new
  BY <1>2, <1>3, LastReplaced
<1> QED BY <1>0, <1>2, <1>4

\* A step begins.
LEMMA StepBegun ==
    ASSUME StepsType, BeginStep
    PROVE  /\ ledger' \in Seq(Entry) /\ step' = step + 1
           /\ \A n \in 1..step : ledger'[n] = ledger[n]
           /\ ledger'[step + 1].result = "none" /\ ledger'[step + 1].terms = {}
<1>1. PICK s \in Specs : ledger' = Append(ledger, [spec |-> s, terms |-> {}, result |-> "none"])
  BY DEF BeginStep
<1> DEFINE new == [spec |-> s, terms |-> {}, result |-> "none"]
<1>3. new \in Entry
  BY DEF Results, Entry
<1>4. new.result = "none" /\ new.terms = {}
  OBVIOUS
<1> HIDE DEF new
<1>5. ledger' = Append(ledger, new)
  BY <1>1 DEF new
<1>6. /\ ledger' \in Seq(Entry)
      /\ Len(ledger') = Len(ledger) + 1
      /\ \A n \in 1..Len(ledger) : ledger'[n] = ledger[n]
      /\ ledger'[Len(ledger) + 1] = new
  BY StepIsNat, <1>3, <1>5
<1> QED BY <1>4, <1>6 DEF step

-----------------------------------------------------------------------------
(* The adapter is made of whole steps. *)

LEMMA TypeParts ==
    ASSUME StepsType
    PROVE  /\ grads \subseteq 1..step /\ weights \subseteq 1..step
           /\ ema \subseteq 1..step /\ saved \subseteq 1..step
           /\ \A k \in DOMAIN opts : opts[k] \subseteq 1..step
           /\ DOMAIN opts \subseteq Objectives \cup {"shared"}
           /\ since \in 0..step /\ pos \in Nat \ {0} /\ targets \in BOOLEAN
           /\ doing \in {"idle", "primaries", "sidecars", "backward", "update"}
           /\ (doing # "idle" => step > 0)
           /\ step \in Nat /\ ledger \in Seq(Entry)
BY StepIsNat DEF StepsType

LEMMA WholeAtImplies == ASSUME StepsType, WholeAt PROVE StepsAreWhole
<1>1. weights \cup saved \subseteq With({"ok", "torn"})
  BY TypeParts DEF WholeAt, With
<1>2. With({"ok"}) \cap Since \subseteq weights
  BY TypeParts DEF WholeAt, With, Since
<1>3. ASSUME NEW k \in DOMAIN opts
      PROVE  /\ opts[k] \subseteq {n \in With({"ok", "torn"}) \cap Since : KeyOf(ledger[n].spec) = k}
             /\ {n \in With({"ok"}) \cap Since : KeyOf(ledger[n].spec) = k} \subseteq opts[k]
  <2>1. opts[k] \subseteq 1..step
    BY TypeParts
  <2>2. ASSUME NEW n \in opts[k]
        PROVE  n \in With({"ok", "torn"}) \cap Since /\ KeyOf(ledger[n].spec) = k
    BY <2>1, TypeParts DEF WholeAt, With, Since, KeyAt
  <2>3. ASSUME NEW n \in With({"ok"}) \cap Since, KeyOf(ledger[n].spec) = k
        PROVE  n \in opts[k]
    BY <2>3, TypeParts DEF WholeAt, With, Since, KeyAt
  <2> QED BY <2>2, <2>3
<1>4. ema \subseteq Since
  BY TypeParts DEF WholeAt, Since
<1>5. grads \cap With({"failed", "skipped"}) = {}
  BY TypeParts DEF WholeAt, With
<1> QED BY <1>1, <1>2, <1>3, <1>4, <1>5 DEF StepsAreWhole

\* Steps keep their spec and their result.
SameBook ==
    /\ step' = step
    /\ \A n \in 1..step : ledger'[n].spec = ledger[n].spec /\ ledger'[n].result = ledger[n].result

LEMMA WholeInitially == StepsInit => WholeInv
<1> SUFFICES ASSUME StepsInit PROVE WholeInv
  OBVIOUS
<1>1. ledger = <<>> /\ step = 0 /\ ledger \in Seq(Entry)
  BY DEF StepsInit, step
<1>2. DOMAIN opts = {}
  BY DEF StepsInit, NoOptimizers
<1>3. /\ grads = {} /\ weights = {} /\ ema = {} /\ saved = {} /\ since = 0
      /\ doing = "idle" /\ pos = 1 /\ targets = FALSE
  BY DEF StepsInit
<1>4. StepsType
  <2>1. {grads, weights, ema, saved} \subseteq SUBSET (1..step) /\ since \in 0..step
    BY <1>1, <1>3
  <2>2. targets \in BOOLEAN
    BY <1>3
  <2>3. pos \in Nat \ {0}
    BY <1>3
  <2> QED BY <1>1, <1>2, <1>3, <2>1, <2>2, <2>3 DEF StepsType
<1>5. UnderWay /\ GradientsOf
  BY <1>3 DEF UnderWay, GradientsOf
<1>6. WholeAt
  <2>1. \A n \in 1..step : FALSE
    BY <1>1
  <2> QED BY <1>2, <1>3, <2>1 DEF WholeAt
<1> QED BY <1>4, <1>5, <1>6 DEF WholeInv

\* A forward pass: terms and the baseline.
LEMMA ForwardKeeps ==
    ASSUME WholeInv, doing \in {"primaries", "sidecars"}, doing' \in {"primaries", "sidecars"},
           ledger' \in Seq(Entry), SameBook, ema' \subseteq ema \cup {step},
           pos' \in Nat \ {0}, targets' \in BOOLEAN,
           UNCHANGED <<grads, weights, opts, saved, since>>
    PROVE  WholeInv'
<1>1. /\ step' = step /\ step \in Nat /\ step > 0 /\ step \in 1..step
      /\ \A n \in 1..step : ledger'[n].spec = ledger[n].spec /\ ledger'[n].result = ledger[n].result
      /\ since < step
  BY TypeParts DEF SameBook, WholeInv, UnderWay
<1>2. StepsType'
  BY <1>1, TypeParts DEF StepsType, WholeInv
<1>3. UnderWay'
  BY <1>1 DEF UnderWay, WholeInv
<1>4. GradientsOf'
  BY <1>1, TypeParts DEF GradientsOf, WholeInv
<1>5. WholeAt'
  BY <1>1, TypeParts DEF WholeAt, WholeInv, KeyAt
<1> QED BY <1>2, <1>3, <1>4, <1>5 DEF WholeInv

\* A step gets its result; grads, weights and moments as its outcome says.
LEMMA WholeFinishes ==
    ASSUME WholeInv, doing # "idle", NEW r \in Results, Finish(r),
           \/ /\ r \in {"failed", "skipped"}
              /\ UNCHANGED <<weights, opts>>
              /\ grads' = {} \/ (doing \in {"primaries", "sidecars"} /\ grads' = grads)
           \/ /\ r \in {"ok", "torn"} /\ doing = "update" /\ Apply
              /\ (r = "ok" /\ grads' = grads) \/ (r = "torn" /\ grads' = {}),
           UNCHANGED <<pos, targets, ema, saved, since>>
    PROVE  WholeInv'
<1>0. step > 0
  BY TypeParts DEF WholeInv
<1>1. /\ ledger' \in Seq(Entry) /\ step' = step /\ step \in 1..step
      /\ \A n \in 1..step : ledger'[n].spec = ledger[n].spec
      /\ \A n \in 1..step : n # step => ledger'[n] = ledger[n]
      /\ ledger'[step].result = r
  BY <1>0, StepFinished DEF WholeInv
<1>2. doing' = "idle"
  BY DEF Finish
<1>3. ledger[step].result = "none" /\ since < step /\ step \in Nat
  BY TypeParts DEF WholeInv, UnderWay
<1>4. /\ grads \subseteq 1..step /\ weights \subseteq 1..step
      /\ ema \subseteq 1..step /\ saved \subseteq 1..step
      /\ \A k \in DOMAIN opts : opts[k] \subseteq 1..step
      /\ DOMAIN opts \subseteq Objectives \cup {"shared"}
      /\ since \in 0..step /\ pos \in Nat \ {0} /\ targets \in BOOLEAN
  BY TypeParts DEF WholeInv
<1>5. CASE r \in {"failed", "skipped"}
  <2>1. UNCHANGED <<weights, opts>> /\ grads' \subseteq grads
        /\ (grads' = {} \/ doing \in {"primaries", "sidecars"})
    BY <1>5
  <2>2. StepsType'
    BY <1>1, <1>2, <1>3, <1>4, <2>1 DEF StepsType
  <2>3. UnderWay' /\ GradientsOf'
    BY <1>1, <1>2, <1>3, <1>4, <2>1 DEF UnderWay, GradientsOf, WholeInv
  <2>4. WholeAt'
    BY <1>1, <1>3, <1>4, <1>5, <2>1 DEF WholeAt, WholeInv, KeyAt, GradientsOf
  <2> QED BY <2>2, <2>3, <2>4 DEF WholeInv
<1>6. CASE r \in {"ok", "torn"}
  <2>1. /\ doing = "update" /\ grads = {step} /\ KeyAt(step) \in DOMAIN opts
        /\ (r = "ok" /\ grads' = {step}) \/ (r = "torn" /\ grads' = {})
        /\ weights' = weights \cup {step}
    BY <1>6 DEF WholeInv, GradientsOf, UnderWay, Apply
  <2>2. opts' = [opts EXCEPT ![KeyAt(step)] = @ \cup {step}]
    BY <1>6, <2>1 DEF Apply, KeyAt, spec
  <2>3. /\ DOMAIN opts' = DOMAIN opts
        /\ \A k \in DOMAIN opts : k # KeyAt(step) => opts'[k] = opts[k]
        /\ opts'[KeyAt(step)] = opts[KeyAt(step)] \cup {step}
    BY <2>1, <2>2
  <2>4. StepsType'
    BY <1>1, <1>2, <1>3, <1>4, <2>1, <2>3 DEF StepsType
  <2>5. UnderWay' /\ GradientsOf'
    BY <1>1, <1>2, <1>3, <2>1 DEF UnderWay, GradientsOf
  <2>6. WholeAt'
    BY <1>1, <1>3, <1>4, <1>6, <2>1, <2>3 DEF WholeAt, WholeInv, KeyAt
  <2> QED BY <2>4, <2>5, <2>6 DEF WholeInv
<1> QED BY <1>5, <1>6

LEMMA WholeBegins == ASSUME WholeInv, BeginStep PROVE WholeInv'
<1>1. /\ ledger' \in Seq(Entry) /\ step' = step + 1
      /\ \A n \in 1..step : ledger'[n] = ledger[n]
      /\ ledger'[step + 1].result = "none"
  BY StepBegun DEF WholeInv
<1>2. /\ doing = "idle" /\ doing' = "primaries" /\ pos' = 1 /\ targets' = FALSE
      /\ UNCHANGED <<grads, weights, opts, ema, saved, since>>
  BY DEF BeginStep
<1>3. /\ grads \subseteq 1..step /\ weights \subseteq 1..step
      /\ ema \subseteq 1..step /\ saved \subseteq 1..step
      /\ \A k \in DOMAIN opts : opts[k] \subseteq 1..step
      /\ DOMAIN opts \subseteq Objectives \cup {"shared"}
      /\ since \in 0..step /\ step \in Nat
  BY TypeParts DEF WholeInv
<1>4. StepsType'
  <2>1. 1..step \subseteq 1..(step + 1) /\ 0..step \subseteq 0..(step + 1) /\ step + 1 > 0
    BY <1>3
  <2>2. {grads', weights', ema', saved'} \subseteq SUBSET (1..step')
    BY <1>1, <1>2, <1>3, <2>1
  <2>3. \A k \in DOMAIN opts' : opts'[k] \subseteq 1..step'
    BY <1>1, <1>2, <1>3, <2>1
  <2>4. since' \in 0..step' /\ DOMAIN opts' \subseteq Objectives \cup {"shared"}
    BY <1>1, <1>2, <1>3, <2>1
  <2>5. pos' \in Nat \ {0}
    BY <1>2
  <2>6. targets' \in BOOLEAN
    BY <1>2
  <2>7. step' > 0
    BY <1>1, <1>3
  <2> QED BY <1>1, <1>2, <2>2, <2>3, <2>4, <2>5, <2>6, <2>7 DEF StepsType
<1>5. UnderWay'
  BY <1>1, <1>2, <1>3 DEF UnderWay
<1>6. GradientsOf'
  BY <1>1, <1>2, <1>3 DEF GradientsOf, WholeInv
<1>7. WholeAt'
  BY <1>1, <1>2, <1>3 DEF WholeAt, WholeInv, KeyAt
<1> QED BY <1>4, <1>5, <1>6, <1>7 DEF WholeInv

LEMMA WholePrepares == ASSUME WholeInv, Prepare PROVE WholeInv'
<1>1. /\ doing = "sidecars" /\ doing' = "backward" /\ grads' = {}
      /\ opts' = [k \in DOMAIN opts \cup {KeyAt(step)} |-> IF k \in DOMAIN opts THEN opts[k] ELSE {}]
      /\ UNCHANGED <<ledger, pos, targets, weights, ema, saved, since>>
  BY DEF Prepare, KeyAt, spec
<1>2. step > 0 /\ step \in Nat /\ step' = step /\ step \in 1..step
  BY <1>1, TypeParts DEF WholeInv, step
<1>3. KeyAt(step) \in Objectives \cup {"shared"}
  BY <1>2, SpecShape DEF WholeInv
<1>4. /\ DOMAIN opts' = DOMAIN opts \cup {KeyAt(step)}
      /\ \A k \in DOMAIN opts : opts'[k] = opts[k]
      /\ \A k \in DOMAIN opts' : k \notin DOMAIN opts => opts'[k] = {}
  BY <1>1
<1>5. ledger' \in Seq(Entry)
  BY <1>1, TypeParts DEF WholeInv
<1>6. StepsType'
  BY <1>1, <1>2, <1>3, <1>4, <1>5, TypeParts DEF StepsType, WholeInv
<1>7. KeyAt(step)' = KeyAt(step)
  BY <1>1, <1>2 DEF KeyAt
<1>8. UnderWay'
  BY <1>1, <1>2, <1>4, <1>7 DEF UnderWay, WholeInv
<1>9. GradientsOf'
  BY <1>1 DEF GradientsOf
<1>10. WholeAt'
  BY <1>1, <1>2, <1>4 DEF WholeAt, WholeInv, KeyAt
<1> QED BY <1>6, <1>8, <1>9, <1>10 DEF WholeInv

LEMMA WholeGoesBackward == ASSUME WholeInv, Backward PROVE WholeInv'
<1>1. /\ doing = "backward" /\ doing' = "update" /\ grads' = {step}
      /\ UNCHANGED <<ledger, pos, targets, weights, opts, ema, saved, since>>
  BY DEF Backward, WholeInv, GradientsOf
<1>2. step > 0 /\ step \in Nat /\ step' = step /\ step \in 1..step
  BY <1>1, TypeParts DEF WholeInv, step
<1>3. StepsType'
  BY <1>1, <1>2, TypeParts DEF StepsType, WholeInv
<1>4. KeyAt(step)' = KeyAt(step)
  BY <1>1, <1>2 DEF KeyAt
<1>5. ledger[step].result = "none"
  BY <1>1 DEF UnderWay, WholeInv
<1>6. UnderWay'
  BY <1>1, <1>2, <1>4 DEF UnderWay, WholeInv
<1>7. GradientsOf'
  BY <1>1, <1>2 DEF GradientsOf
<1>8. WholeAt'
  BY <1>1, <1>2, <1>5 DEF WholeAt, WholeInv, KeyAt
<1> QED BY <1>3, <1>6, <1>7, <1>8 DEF WholeInv

LEMMA WholeLoads == ASSUME WholeInv, LoadWeights PROVE WholeInv'
<1>1. /\ doing = "idle" /\ weights' = saved /\ ema' = {} /\ since' = step
      /\ UNCHANGED <<ledger, doing, pos, targets, grads, saved>>
  BY DEF LoadWeights
<1>2. step \in Nat /\ step' = step
  BY <1>1, TypeParts DEF WholeInv, step
<1>3. DOMAIN opts' = {}
  BY DEF LoadWeights, NoOptimizers
<1>4. StepsType'
  BY <1>1, <1>2, <1>3, TypeParts DEF StepsType, WholeInv
<1>5. UnderWay' /\ GradientsOf'
  BY <1>1, <1>2 DEF UnderWay, GradientsOf, WholeInv
<1>6. WholeAt'
  BY <1>1, <1>2, <1>3 DEF WholeAt, WholeInv
<1> QED BY <1>4, <1>5, <1>6 DEF WholeInv

LEMMA WholeSaves == ASSUME WholeInv, SaveWeights PROVE WholeInv'
<1>1. /\ doing = "idle" /\ saved' = weights
      /\ UNCHANGED <<ledger, doing, pos, targets, grads, weights, opts, ema, since>>
  BY DEF SaveWeights
<1>2. step \in Nat /\ step' = step
  BY <1>1, TypeParts DEF WholeInv, step
<1>3. StepsType'
  BY <1>1, <1>2, TypeParts DEF StepsType, WholeInv
<1>4. UnderWay' /\ GradientsOf'
  BY <1>1, <1>2 DEF UnderWay, GradientsOf, WholeInv
<1>5. WholeAt'
  BY <1>1, <1>2 DEF WholeAt, WholeInv, KeyAt
<1> QED BY <1>3, <1>4, <1>5 DEF WholeInv

\* What one objective's forward pass does.
LEMMA ObjectiveRuns ==
    ASSUME StepsType, step > 0, NEW name \in Objectives, RunObjective(name)
    PROVE  /\ step \in 1..step /\ ledger' \in Seq(Entry) /\ SameBook
           /\ \A n \in 1..step : n # step => ledger'[n] = ledger[n]
           /\ \/ ledger'[step].terms = terms \cup {TermOf(name)}
              \/ name \in MaySkip /\ ledger'[step].terms = terms
           /\ ema' \subseteq ema \cup {step} /\ pos' = pos + 1 /\ pos' \in Nat \ {0}
           /\ UNCHANGED <<doing, grads, weights, opts, saved, since>>
<1>1. step \in 1..step /\ ledger \in Seq(Entry) /\ pos \in Nat \ {0}
  BY TypeParts
<1>2. /\ ema' \subseteq ema \cup {step} /\ pos' = pos + 1 /\ pos' \in Nat \ {0}
      /\ UNCHANGED <<doing, grads, weights, opts, saved, since>>
  BY <1>1 DEF RunObjective
<1>3. TermOf(name) \in Terms
  BY DEF Terms, TermOf
<1>4. CASE AddTerm(TermOf(name))
  BY <1>1, <1>2, <1>3, <1>4, TermAdded DEF SameBook, terms
<1>5. CASE name \in MaySkip /\ ledger' = ledger
  BY <1>1, <1>2, <1>5 DEF SameBook, terms, step
<1> QED BY <1>4, <1>5 DEF RunObjective

\* The objective that runs is one of the spec's.
LEMMA PrimaryRuns ==
    ASSUME StepsType, RunPrimary
    PROVE  /\ doing = "primaries" /\ step > 0 /\ step \in 1..step
           /\ pos \in 1..Len(spec.names)
           /\ spec.names[pos] \in Objectives /\ RunObjective(spec.names[pos])
<1>1. doing = "primaries" /\ step > 0 /\ pos <= Len(spec.names)
  BY TypeParts DEF RunPrimary
<1>2. step \in Nat /\ step \in 1..step /\ pos \in Nat \ {0}
  BY <1>1, TypeParts
<1>3. spec.names \in Seq(Objectives)
  BY <1>2, SpecShape, StepBounds DEF spec
<1>4. pos \in 1..Len(spec.names) /\ spec.names[pos] \in Objectives
  BY <1>1, <1>2, <1>3
<1> QED BY <1>1, <1>2, <1>4 DEF RunPrimary

LEMMA SidecarRuns ==
    ASSUME StepsType, RunSidecar
    PROVE  /\ doing = "sidecars" /\ step > 0 /\ step \in 1..step
           /\ pos \in 1..Len(spec.sides) /\ Len(spec.sides) \in Nat
           /\ spec.sides[pos] \in Objectives /\ RunObjective(spec.sides[pos])
           /\ targets' = targets
<1>1. doing = "sidecars" /\ step > 0 /\ pos <= Len(spec.sides)
  BY TypeParts DEF RunSidecar
<1>2. step \in Nat /\ step \in 1..step /\ pos \in Nat \ {0}
  BY <1>1, TypeParts
<1>3. spec.sides \in Seq(Objectives)
  BY <1>2, SpecShape, StepBounds DEF spec
<1>4. pos \in 1..Len(spec.sides) /\ spec.sides[pos] \in Objectives /\ Len(spec.sides) \in Nat
  BY <1>1, <1>2, <1>3
<1> QED BY <1>1, <1>2, <1>4 DEF RunSidecar

LEMMA WholeStep == ASSUME WholeInv, [StepsNext]_stepVars PROVE WholeInv'
<1>0. StepsType /\ pos \in Nat \ {0} /\ targets \in BOOLEAN
  BY TypeParts DEF WholeInv
<1>1. CASE BeginStep
  BY <1>1, WholeBegins
<1>2. CASE RunPrimary
  <2>1. /\ doing = "primaries" /\ doing' = doing /\ ledger' \in Seq(Entry) /\ SameBook
        /\ ema' \subseteq ema \cup {step} /\ pos' \in Nat \ {0}
        /\ UNCHANGED <<grads, weights, opts, saved, since>>
    BY <1>0, <1>2, PrimaryRuns, ObjectiveRuns
  <2>3. targets' \in BOOLEAN
    <3>1. targets' = (spec.names[1] \in GivesTargets) \/ targets' = targets
      BY <1>2, Zenon DEF RunPrimary
    <3>2. (spec.names[1] \in GivesTargets) \in BOOLEAN
      OBVIOUS
    <3>3. CASE targets' = (spec.names[1] \in GivesTargets)
      BY <3>2, <3>3, Zenon
    <3>4. CASE targets' = targets
      BY <1>0, <3>4
    <3> QED BY <3>1, <3>3, <3>4
  <2> QED BY <2>1, <2>3, ForwardKeeps
<1>3. CASE PrimariesDone
  <2>1. /\ doing = "primaries" /\ doing' = "sidecars" /\ pos' = 1
        /\ UNCHANGED <<ledger, targets, grads, weights, opts, ema, saved, since>>
    BY <1>3 DEF PrimariesDone
  <2>2. ledger' \in Seq(Entry) /\ SameBook
    BY <1>0, <2>1, TypeParts DEF SameBook, step
  <2> QED BY <1>0, <2>1, <2>2, ForwardKeeps
<1>4. CASE RunSidecar
  <2>1. /\ doing = "sidecars" /\ doing' = doing /\ ledger' \in Seq(Entry) /\ SameBook
        /\ ema' \subseteq ema \cup {step} /\ pos' \in Nat \ {0} /\ targets' = targets
        /\ UNCHANGED <<grads, weights, opts, saved, since>>
    BY <1>0, <1>4, SidecarRuns, ObjectiveRuns
  <2> QED BY <1>0, <2>1, ForwardKeeps
<1>5. CASE ForwardRaises
  <2>1. /\ doing \in {"primaries", "sidecars"} /\ Finish("failed")
        /\ UNCHANGED <<pos, targets, grads, weights, opts, ema, saved, since>>
    BY <1>5 DEF ForwardRaises
  <2>2. "failed" \in Results
    BY DEF Results
  <2> QED BY <2>1, <2>2, WholeFinishes
<1>6. CASE Skip
  <2>1. /\ doing = "sidecars" /\ Finish("skipped")
        /\ UNCHANGED <<pos, targets, grads, weights, opts, ema, saved, since>>
    BY <1>6 DEF Skip
  <2>2. "skipped" \in Results
    BY DEF Results
  <2> QED BY <2>1, <2>2, WholeFinishes
<1>7. CASE Prepare
  BY <1>7, WholePrepares
<1>8. CASE Backward
  BY <1>8, WholeGoesBackward
<1>9. CASE OptimizerStep
  <2>1. /\ doing = "update" /\ Apply /\ Finish("ok")
        /\ UNCHANGED <<pos, targets, grads, ema, saved, since>>
    BY <1>9 DEF OptimizerStep
  <2>2. "ok" \in Results
    BY DEF Results
  <2> QED BY <2>1, <2>2, WholeFinishes
<1>10. CASE UpdateRaises
  <2>1. /\ doing \in {"backward", "update"} /\ grads' = {}
        /\ UNCHANGED <<pos, targets, ema, saved, since>>
    BY <1>10 DEF UpdateRaises
  <2>2. "torn" \in Results /\ "failed" \in Results
    BY DEF Results
  <2>3. CASE doing = "update" /\ Apply /\ Finish("torn")
    BY <2>1, <2>2, <2>3, WholeFinishes
  <2>4. CASE UNCHANGED <<weights, opts>> /\ Finish("failed")
    BY <2>1, <2>2, <2>4, WholeFinishes
  <2> QED BY <1>10, <2>3, <2>4 DEF UpdateRaises
<1>11. CASE SaveWeights
  BY <1>11, WholeSaves
<1>12. CASE LoadWeights
  BY <1>12, WholeLoads
<1>13. CASE UNCHANGED stepVars
  BY <1>13 DEF stepVars, WholeInv, StepsType, UnderWay, GradientsOf, WholeAt, KeyAt, step
<1> QED BY <1>1, <1>2, <1>3, <1>4, <1>5, <1>6, <1>7, <1>8, <1>9, <1>10, <1>11, <1>12, <1>13 DEF StepsNext

LEMMA WholeInvHolds == StepsSpec => []WholeInv
<1>1. WholeInv /\ [StepsNext]_stepVars => WholeInv'
  BY WholeStep
<1> QED BY WholeInitially, <1>1, PTL DEF StepsSpec

\* The book of steps and the sets of steps that stand for the weights, the
\* gradients, the moments and the baseline keep their shape.
THEOREM StepsTypeCorrect == StepsSpec => []StepsType
<1>1. WholeInv => StepsType
  BY DEF WholeInv
<1> QED BY WholeInvHolds, <1>1, PTL

\* For all specs and every number of steps: whatever raises or skips, the
\* adapter and its optimizers are made of whole steps, no gradient of a step
\* that came to nothing is applied by a later one, and a snapshot_load leaves
\* no optimizer and no KTO baseline that remembers an older step
\* (train.py:97-110, 222-241, 406-423).
THEOREM AdapterOfWholeSteps == StepsSpec => []StepsAreWhole
<1>1. WholeInv => StepsAreWhole
  BY WholeAtImplies DEF WholeInv
<1> QED BY WholeInvHolds, <1>1, PTL

-----------------------------------------------------------------------------
(* Nothing pushes the weights down without an anchor. *)

\* As long as the last step has not come to a result, older ones stay sound.
LEMMA OlderStaySound ==
    ASSUME WholeInv, AnchorInv, doing # "idle", step' = step,
           \A n \in 1..step : n # step => ledger'[n] = ledger[n],
           AnchoredAt(step)'
    PROVE  \A n \in 1..step' : AnchoredAt(n)'
BY DEF AnchorInv, AnchoredAt

\* The last step with a result other than success is sound.
LEMMA UnappliedIsSound ==
    ASSUME step' = step, ledger'[step].result \notin {"ok", "torn"}
    PROVE  AnchoredAt(step)'
BY DEF AnchoredAt

\* A sidecar or a primary adds its term: spec and result stay.
LEMMA TermKeepsSound ==
    ASSUME WholeInv, AnchorInv, doing # "idle", SameBook,
           \A n \in 1..step : n # step => ledger'[n] = ledger[n]
    PROVE  spec' = spec /\ \A n \in 1..step' : AnchoredAt(n)'
<1>1. step \in 1..step /\ step' = step /\ ledger[step].result = "none"
  BY TypeParts DEF WholeInv, UnderWay, SameBook
<1>2. ledger'[step].result = "none" /\ ledger'[step].spec = ledger[step].spec
  BY <1>1 DEF SameBook
<1> QED BY <1>1, <1>2, OlderStaySound, UnappliedIsSound DEF spec

\* A step that ends without having been applied.
LEMMA UnappliedKeeps ==
    ASSUME WholeInv, AnchorInv, doing # "idle", NEW r \in {"failed", "skipped"}, Finish(r)
    PROVE  AnchorInv'
<1>1. r \in Results /\ step > 0
  BY TypeParts DEF WholeInv, Results
<1>2. /\ step' = step /\ \A n \in 1..step : n # step => ledger'[n] = ledger[n]
      /\ ledger'[step].result = r
  BY <1>1, StepFinished DEF WholeInv
<1>3. \A n \in 1..step' : AnchoredAt(n)'
  BY <1>2, OlderStaySound, UnappliedIsSound
<1>4. Admission'
  BY DEF Finish, Admission
<1> QED BY <1>3, <1>4 DEF AnchorInv

\* A step that was applied, whole or torn.
LEMMA AppliedKeeps ==
    ASSUME WholeInv, AnchorInv, doing = "update", NEW r \in {"ok", "torn"}, Finish(r)
    PROVE  AnchorInv'
<1>1. r \in Results /\ step > 0
  BY TypeParts DEF WholeInv, Results
<1>2. /\ step' = step /\ step \in 1..step
      /\ \A n \in 1..step : ledger'[n].spec = ledger[n].spec /\ ledger'[n].terms = ledger[n].terms
      /\ \A n \in 1..step : n # step => ledger'[n] = ledger[n]
  BY <1>1, StepFinished DEF WholeInv
<1>3. ledger'[step].spec = spec /\ ledger'[step].terms = terms
  BY <1>2 DEF spec, terms
<1>4. /\ terms \ {"zero"} # {}
      /\ "unlike" \in terms /\ GateSees(spec) => LetThrough(spec)
      /\ \A i \in 1..Len(spec.sides) : spec.sides[i] = "kl_anchor" => "kl_anchor" \in terms
  BY DEF AnchorInv, Admission, AnchorRan
<1>5. spec.pure /\ "unlike" \in terms /\ ~spec.unanchored /\ GateSees(spec) => "kl_anchor" \in terms
  BY <1>4 DEF LetThrough, Admitted, GateSees, HasAnchor
<1>6. AnchoredAt(step)'
  BY <1>2, <1>3, <1>4, <1>5 DEF AnchoredAt
<1>7. \A n \in 1..step' : AnchoredAt(n)'
  BY <1>2, <1>6, OlderStaySound
<1>8. Admission'
  BY DEF Finish, Admission
<1> QED BY <1>7, <1>8 DEF AnchorInv

LEMMA AnchorBegins == ASSUME WholeInv, AnchorInv, BeginStep PROVE AnchorInv'
<1>1. /\ step' = step + 1 /\ \A n \in 1..step : ledger'[n] = ledger[n]
      /\ ledger'[step + 1].result = "none" /\ ledger'[step + 1].terms = {}
      /\ step \in Nat
  BY StepBegun, TypeParts DEF WholeInv
<1>2. doing' = "primaries" /\ terms' = {}
  BY <1>1 DEF BeginStep, terms
<1>3. Admission'
  BY <1>2 DEF Admission
<1>4. ASSUME NEW n \in 1..step' PROVE AnchoredAt(n)'
  <2>1. CASE n \in 1..step
    BY <1>1, <2>1 DEF AnchorInv, AnchoredAt
  <2>2. CASE n = step + 1
    BY <1>1, <2>2 DEF AnchoredAt
  <2> QED BY <1>1, <2>1, <2>2
<1> QED BY <1>3, <1>4 DEF AnchorInv

LEMMA AnchorPrimary == ASSUME WholeInv, AnchorInv, RunPrimary PROVE AnchorInv'
<1>1. /\ doing = "primaries" /\ step > 0 /\ step \in 1..step /\ pos \in 1..Len(spec.names)
      /\ spec.names[pos] \in Objectives /\ RunObjective(spec.names[pos])
  BY PrimaryRuns DEF WholeInv
<1>2. /\ SameBook /\ doing' = "primaries"
      /\ \A n \in 1..step : n # step => ledger'[n] = ledger[n]
      /\ ledger'[step].terms \in {terms, terms \cup {TermOf(spec.names[pos])}}
  BY <1>1, ObjectiveRuns DEF WholeInv
<1>3. spec' = spec /\ \A n \in 1..step' : AnchoredAt(n)'
  BY <1>1, <1>2, TermKeepsSound
<1>4. terms' \in {terms, terms \cup {TermOf(spec.names[pos])}}
  BY <1>2 DEF terms, SameBook
<1>5. spec.names[pos] = "unlike" => LetThrough(spec)
  BY <1>1 DEF RunPrimary, LetThrough
<1>6. "unlike" \in terms' => "unlike" \in terms \/ spec.names[pos] = "unlike"
  BY <1>4 DEF TermOf
<1>7. "unlike" \in terms /\ GateSees(spec) => LetThrough(spec)
  BY <1>1 DEF AnchorInv, Admission
<1>8. "unlike" \in terms' /\ GateSees(spec') => LetThrough(spec')
  BY <1>3, <1>5, <1>6, <1>7
<1>9. Admission'
  BY <1>2, <1>8 DEF Admission
<1> QED BY <1>3, <1>9 DEF AnchorInv

LEMMA AnchorSidecar == ASSUME WholeInv, AnchorInv, RunSidecar PROVE AnchorInv'
<1>1. /\ doing = "sidecars" /\ step > 0 /\ step \in 1..step /\ pos \in 1..Len(spec.sides)
      /\ Len(spec.sides) \in Nat
      /\ spec.sides[pos] \in Objectives /\ RunObjective(spec.sides[pos])
  BY SidecarRuns DEF WholeInv
<1>2. /\ SameBook /\ doing' = "sidecars" /\ pos' = pos + 1
      /\ \A n \in 1..step : n # step => ledger'[n] = ledger[n]
      /\ \/ ledger'[step].terms = terms \cup {TermOf(spec.sides[pos])}
         \/ spec.sides[pos] \in MaySkip /\ ledger'[step].terms = terms
  BY <1>1, ObjectiveRuns DEF WholeInv
<1>3. spec' = spec /\ \A n \in 1..step' : AnchoredAt(n)'
  BY <1>1, <1>2, TermKeepsSound
<1>4. \/ terms' = terms \cup {TermOf(spec.sides[pos])}
      \/ spec.sides[pos] \in MaySkip /\ terms' = terms
  BY <1>2 DEF terms, SameBook
<1>5. GateSees(spec) /\ "unlike" \in terms' => "unlike" \in terms
  BY <1>1, <1>4 DEF GateSees, TermOf
<1>6. "unlike" \in terms' /\ GateSees(spec') => LetThrough(spec')
  BY <1>1, <1>3, <1>5 DEF AnchorInv, Admission
<1>7. ASSUME NEW i \in 1..Len(spec'.sides), i < pos' PROVE AnchorRan(i)'
  <2>1. CASE i < pos
    BY <1>1, <1>3, <1>4, <1>7, <2>1 DEF AnchorInv, Admission, AnchorRan
  <2>2. CASE i = pos
    BY <1>3, <1>4, <2>2 DEF AnchorRan, TermOf, MaySkip
  <2> QED BY <1>1, <1>2, <1>3, <1>7, <2>1, <2>2
<1>8. Admission'
  BY <1>2, <1>6, <1>7 DEF Admission
<1> QED BY <1>3, <1>8 DEF AnchorInv

LEMMA AnchorStep ==
    ASSUME WholeInv, AnchorInv, [StepsNext]_stepVars PROVE AnchorInv'
<1>1. CASE BeginStep
  BY <1>1, AnchorBegins
<1>2. CASE RunPrimary
  BY <1>2, AnchorPrimary
<1>3. CASE PrimariesDone
  <2>1. doing = "primaries" /\ doing' = "sidecars" /\ pos' = 1 /\ ledger' = ledger
    BY <1>3 DEF PrimariesDone
  <2>2. Admission'
    BY <2>1 DEF AnchorInv, Admission, terms, spec, step
  <2> QED BY <2>1, <2>2 DEF AnchorInv, AnchoredAt, step
<1>4. CASE RunSidecar
  BY <1>4, AnchorSidecar
<1>5. CASE ForwardRaises
  BY <1>5, UnappliedKeeps DEF ForwardRaises
<1>6. CASE Skip
  BY <1>6, UnappliedKeeps DEF Skip
<1>7. CASE Prepare
  <2>1. /\ doing = "sidecars" /\ pos > Len(spec.sides) /\ terms # {}
        /\ doing' = "backward" /\ ledger' = ledger
    BY <1>7 DEF Prepare
  <2>2. step \in 1..step /\ Len(spec.sides) \in Nat /\ pos \in Nat
    BY <2>1, TypeParts, SpecShape DEF WholeInv, spec
  <2>3. \A i \in 1..Len(spec.sides) : AnchorRan(i)
    BY <2>1, <2>2 DEF AnchorInv, Admission
  <2>4. Admission'
    BY <2>1, <2>3 DEF AnchorInv, Admission, AnchorRan, terms, spec, step
  <2> QED BY <2>1, <2>4 DEF AnchorInv, AnchoredAt, step
<1>8. CASE Backward
  <2>1. doing = "backward" /\ doing' = "update" /\ terms # {"zero"} /\ ledger' = ledger
    BY <1>8 DEF Backward
  <2>2. terms \ {"zero"} # {}
    BY <2>1 DEF AnchorInv, Admission
  <2>3. Admission'
    BY <2>1, <2>2 DEF AnchorInv, Admission, AnchorRan, terms, spec, step
  <2> QED BY <2>1, <2>3 DEF AnchorInv, AnchoredAt, step
<1>9. CASE OptimizerStep
  BY <1>9, AppliedKeeps DEF OptimizerStep
<1>10. CASE UpdateRaises
  <2>1. CASE doing = "update" /\ Finish("torn")
    BY <2>1, AppliedKeeps
  <2>2. CASE doing # "idle" /\ Finish("failed")
    BY <2>2, UnappliedKeeps
  <2> QED BY <1>10, <2>1, <2>2 DEF UpdateRaises
<1>11. CASE SaveWeights \/ LoadWeights
  <2>1. doing' = "idle" /\ ledger' = ledger
    BY <1>11 DEF SaveWeights, LoadWeights
  <2> QED BY <2>1 DEF AnchorInv, Admission, AnchoredAt, step
<1>12. CASE UNCHANGED stepVars
  BY <1>12 DEF stepVars, AnchorInv, Admission, AnchorRan, AnchoredAt, terms, spec, step
<1> QED BY <1>1, <1>2, <1>3, <1>4, <1>5, <1>6, <1>7, <1>8, <1>9, <1>10, <1>11, <1>12 DEF StepsNext

\* For all specs: no step that only pushes down is applied without an anchor,
\* whatever the order of its objectives and sidecars, unless the client went
\* round the gate in one of the three ways GateSees and unanchored name; and none
\* on the safety monitor's constant zero alone (unlike.py:129-138, train.py:171-184,
\* 218, 320-323, 362-364, safety.py:145).
THEOREM NothingPushesDownUnanchored == StepsSpec => []PushDownIsAnchored
<1>1. StepsInit => AnchorInv
  BY DEF StepsInit, AnchorInv, Admission, AnchoredAt, step
<1>2. WholeInv /\ AnchorInv /\ [StepsNext]_stepVars => AnchorInv'
  BY AnchorStep
<1>3. AnchorInv => PushDownIsAnchored
  BY DEF AnchorInv, AnchoredAt, PushDownIsAnchored, With
<1> QED BY WholeInvHolds, <1>1, <1>2, <1>3, PTL DEF StepsSpec
=============================================================================
