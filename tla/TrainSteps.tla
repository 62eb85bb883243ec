----------------------------- MODULE TrainSteps -----------------------------
(***************************************************************************)
(* One train step after the other on the live adapter: the objectives'     *)
(* forward passes, the batch-level sidecars, the gates that skip or refuse *)
(* a step, backward, clipping and the optimizer, with an exception at any  *)
(* point (engine/train.py: step, _step_multi, _optimizer, reset_optimizer; *)
(* objectives/).  Steps are numbered; a weight, a moment, a gradient or    *)
(* the KTO baseline is modelled by the set of steps that went into it.     *)
(***************************************************************************)
EXTENDS Naturals, Sequences, FiniteSets

CONSTANTS
    Specs,         \* the train specs that may be submitted
    PerObjective,  \* TrainEngine.per_objective
    MaxSteps       \* bound on the number of steps

\* What the registered objectives do, as far as the engine can tell them apart.
Objectives == {"kl_anchor", "safety_monitor", "sft", "weighted_sft", "ntp", "coh", "unlike", "kto",
               "hinge", "ccd", "ccpd_v2"}
GivesTargets == {"sft", "weighted_sft", "ntp", "coh", "unlike"}  \* target_positions
MaySkip == {"ccpd_v2"}                                           \* loss None: spread < tau

\* What unlike's gate is shown: the spec's sidecars, or what the client's kwargs
\* have in their place, be it nothing or a list with or without an anchor.
Shown == {"sides", "nothing", "anchor", "no_anchor"}

ASSUME StepBounds ==
    /\ PerObjective \in BOOLEAN
    /\ MaxSteps \in Nat
    /\ \A s \in Specs :
         /\ s.multi \in BOOLEAN /\ s.pure \in BOOLEAN /\ s.unanchored \in BOOLEAN
         /\ s.positions \in BOOLEAN   \* the client sends target_positions of its own
         /\ s.names \in Seq(Objectives) /\ s.names # <<>>
         /\ s.sides \in Seq(Objectives)
         /\ s.shown \in [1..Len(s.names) -> Shown]

VARIABLES
    ledger,   \* for every step its spec, the terms of its loss and its result
    doing,    \* how far the last step is
    pos,      \* the next primary or sidecar to run
    targets,  \* the first primary's result has target_positions
    grads,    \* steps whose gradients are in the .grad buffers
    weights,  \* steps applied to the adapter
    opts,     \* _opts: for every optimizer the steps in its moments
    ema,      \* steps in _Z0_EMA
    saved,    \* weights of the snapshot, as a set of steps
    since     \* steps there were at the last snapshot_load

stepVars == <<ledger, doing, pos, targets, grads, weights, opts, ema, saved, since>>

NoOptimizers == [k \in {} |-> {}]

StepsInit ==
    /\ ledger = <<>>
    /\ doing = "idle" /\ pos = 1 /\ targets = FALSE
    /\ grads = {} /\ weights = {} /\ ema = {}
    /\ opts = NoOptimizers
    /\ saved = {} /\ since = 0

step == Len(ledger)
spec == ledger[step].spec
terms == ledger[step].terms

\* The optimizer of a step; a combined loss always uses the shared one.
KeyOf(s) == IF PerObjective /\ ~s.multi THEN s.names[1] ELSE "shared"

\* unlike's tier 1: a push-down without a target needs an anchor.
HasAnchor(list) == \E i \in 1..Len(list) : list[i] = "kl_anchor"

Ungated(s, i) == TRUE
Admitted(s, i) ==
    \/ ~s.pure \/ s.unanchored
    \/ s.shown[i] \in {"nothing", "anchor"}
    \/ s.shown[i] = "sides" /\ HasAnchor(s.sides)

Finish(result) ==
    /\ ledger' = [ledger EXCEPT ![step].result = result]
    /\ doing' = "idle"

-----------------------------------------------------------------------------
BeginStep ==
    /\ doing = "idle" /\ step < MaxSteps
    /\ \E s \in Specs :
         ledger' = Append(ledger, [spec |-> s, terms |-> {}, result |-> "none"])
    /\ doing' = "primaries" /\ pos' = 1 /\ targets' = FALSE
    /\ UNCHANGED <<grads, weights, opts, ema, saved, since>>

AddTerm(t) == ledger' = [ledger EXCEPT ![step].terms = @ \cup {t}]
TermOf(name) == IF name = "safety_monitor" THEN "zero" ELSE name

\* One registered objective's forward pass; safety_monitor's is a constant zero.
\* kto moves its baseline in the forward pass.
RunObjective(name) ==
    /\ \/ AddTerm(TermOf(name))
       \/ name \in MaySkip /\ ledger' = ledger
    /\ ema' = IF name = "kto" THEN ema \cup {step} ELSE ema
    /\ pos' = pos + 1
    /\ UNCHANGED <<doing, grads, weights, opts, saved, since>>

RunPrimary ==
    /\ doing = "primaries" /\ pos <= Len(spec.names)
    /\ spec.names[pos] = "unlike" => Admitted(spec, pos)
    /\ spec.names[pos] = "safety_monitor" => spec.positions
    /\ RunObjective(spec.names[pos])
    /\ targets' = IF pos = 1 THEN spec.names[1] \in GivesTargets ELSE targets

PrimariesDone ==
    /\ doing = "primaries" /\ pos > Len(spec.names)
    /\ doing' = "sidecars" /\ pos' = 1
    /\ UNCHANGED <<ledger, targets, grads, weights, opts, ema, saved, since>>

\* Any registered objective may be named as a sidecar.  safety_monitor piggybacks
\* on the first primary; unlike is given no batch_objectives, and has no gate.
RunSidecar ==
    /\ doing = "sidecars" /\ pos <= Len(spec.sides)
    /\ spec.sides[pos] = "safety_monitor" => targets \/ spec.positions
    /\ RunObjective(spec.sides[pos])
    /\ UNCHANGED targets

\* Any forward pass may raise; the gates do so whenever they are not met.
ForwardRaises ==
    /\ doing \in {"primaries", "sidecars"}
    /\ Finish("failed")
    /\ UNCHANGED <<pos, targets, grads, weights, opts, ema, saved, since>>

Skip ==
    /\ doing = "sidecars" /\ pos > Len(spec.sides)
    /\ terms = {}
    /\ Finish("skipped")
    /\ UNCHANGED <<pos, targets, grads, weights, opts, ema, saved, since>>

\* The optimizer is built on first use, and the gradients are cleared.
Prepare ==
    /\ doing = "sidecars" /\ pos > Len(spec.sides)
    /\ terms # {}
    /\ opts' = [k \in DOMAIN opts \cup {KeyOf(spec)} |-> IF k \in DOMAIN opts THEN opts[k] ELSE {}]
    /\ grads' = {}
    /\ doing' = "backward"
    /\ UNCHANGED <<ledger, pos, targets, weights, ema, saved, since>>

\* A loss of the constant zero alone has no graph to go back through.
Backward ==
    /\ doing = "backward" /\ terms # {"zero"}
    /\ grads' = grads \cup {step}
    /\ doing' = "update"
    /\ UNCHANGED <<ledger, pos, targets, weights, opts, ema, saved, since>>

Apply ==
    /\ weights' = weights \cup grads
    /\ opts' = [opts EXCEPT ![KeyOf(spec)] = @ \cup grads]

OptimizerStep ==
    /\ doing = "update"
    /\ Apply
    /\ Finish("ok")
    /\ UNCHANGED <<pos, targets, grads, ema, saved, since>>

\* Out of memory in backward, in clipping or in opt.step; the latter may have
\* updated parameters and moments already ("torn").
UpdateRaises ==
    /\ doing \in {"backward", "update"}
    /\ \/ /\ doing = "update" /\ Apply
          /\ Finish("torn")
       \/ /\ UNCHANGED <<weights, opts>>
          /\ Finish("failed")
    /\ grads' = {}
    /\ UNCHANGED <<pos, targets, ema, saved, since>>

-----------------------------------------------------------------------------
SaveWeights ==
    /\ doing = "idle"
    /\ saved' = weights
    /\ UNCHANGED <<ledger, doing, pos, targets, grads, weights, opts, ema, since>>

\* snapshot_load and reset_optimizer.
LoadKeepingBaseline ==
    /\ doing = "idle"
    /\ weights' = saved
    /\ opts' = NoOptimizers
    /\ since' = step
    /\ UNCHANGED <<ledger, doing, pos, targets, grads, ema, saved>>

LoadWeights ==
    /\ doing = "idle"
    /\ weights' = saved
    /\ opts' = NoOptimizers
    /\ ema' = {}
    /\ since' = step
    /\ UNCHANGED <<ledger, doing, pos, targets, grads, saved>>

StepsNext ==
    \/ BeginStep \/ RunPrimary \/ PrimariesDone \/ RunSidecar \/ ForwardRaises
    \/ Skip \/ Prepare \/ Backward \/ OptimizerStep \/ UpdateRaises
    \/ SaveWeights \/ LoadWeights

StepsSpec == StepsInit /\ [][StepsNext]_stepVars

-----------------------------------------------------------------------------
Terms == Objectives \cup {"zero"}
Results == {"none", "ok", "torn", "failed", "skipped"}
Entry == [spec : Specs, terms : SUBSET Terms, result : Results]

StepsType ==
    /\ ledger \in Seq(Entry)
    /\ doing \in {"idle", "primaries", "sidecars", "backward", "update"}
    /\ pos \in Nat \ {0} /\ targets \in BOOLEAN
    /\ {grads, weights, ema, saved} \subseteq SUBSET (1..step)
    /\ DOMAIN opts \subseteq Objectives \cup {"shared"}
    /\ \A k \in DOMAIN opts : opts[k] \subseteq 1..step
    /\ since \in 0..step
    /\ doing # "idle" => step > 0

With(results) == {n \in 1..step : ledger[n].result \in results}
Since == (since + 1)..step

\* The adapter is made of whole steps: a step that failed or was skipped left
\* no gradient that a later one applies, and every step that returned is in the
\* weights and in the moments of its own optimizer.  After a snapshot_load no
\* optimizer and no KTO baseline remembers an older step (train.py:97-110,
\* 222-241, 406-423; kto.py:131).
StepsAreWhole ==
    /\ weights \cup saved \subseteq With({"ok", "torn"})
    /\ With({"ok"}) \cap Since \subseteq weights
    /\ \A k \in DOMAIN opts :
         /\ opts[k] \subseteq {n \in With({"ok", "torn"}) \cap Since : KeyOf(ledger[n].spec) = k}
         /\ {n \in With({"ok"}) \cap Since : KeyOf(ledger[n].spec) = k} \subseteq opts[k]
    /\ ema \subseteq Since
    /\ grads \cap With({"failed", "skipped"}) = {}

\* The gate is shown what the engine will run: no unlike among the sidecars, and
\* no kwargs that take the list away or put an anchor in it that never runs.
GateSees(s) ==
    /\ \A i \in 1..Len(s.sides) : s.sides[i] # "unlike"
    /\ \A i \in 1..Len(s.names) :
          s.names[i] = "unlike" => s.shown[i] \in {"sides", "no_anchor"}

\* No step that only pushes down was applied without an anchor in its loss,
\* except where the client went round the gate: with allow_unanchored, with
\* batch_objectives in the kwargs, or with unlike as a sidecar.  None was applied
\* on the monitor's constant zero alone (unlike.py:129-138, train.py:171-184,
\* 218, 320-323, 362-364, safety.py:145).
PushDownIsAnchored ==
    \A n \in With({"ok", "torn"}) :
        LET s == ledger[n].spec IN
        /\ ledger[n].terms \ {"zero"} # {}
        /\ s.pure /\ "unlike" \in ledger[n].terms /\ ~s.unanchored /\ GateSees(s)
              => "kl_anchor" \in ledger[n].terms
=============================================================================
