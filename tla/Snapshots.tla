------------------------------ MODULE Snapshots ------------------------------
(***************************************************************************)
(* The weights across merges, snapshots and restarts (trainfer/state.py,   *)
(* snapshot.py, TrainEngine.step, the lifespan of server.py).              *)
(*                                                                         *)
(* One LoRA site stands for all of them: they are trained, merged, saved   *)
(* and loaded together.  A delta is what it adds to the base weights, how  *)
(* often each train step is in it (rounding to bf16 is left out); of the   *)
(* factors A and B only matters whether they are zero, since the gradient  *)
(* of one is a multiple of the other.  The compute queue is first come,    *)
(* first served and runs one piece of work at a time (module ComputeQueue):*)
(* only a crash or a full disk comes between the lines of a piece of work, *)
(* and only files outlive it.                                              *)
(***************************************************************************)
EXTENDS Integers

CONSTANTS
    Names,     \* snapshot names
    Autosave,  \* cfg.autosave_snapshot_name
    MaxSteps,  \* bound on the train steps
    MaxMerges, \* bound on merges_applied
    MaxBoots,  \* bound on the starts of the daemon
    MaxSaves,  \* bound on the saves begun
    MaxFaults  \* bound on crashes and failed writes together

ASSUME SnapshotBounds ==
    /\ MaxSteps \in Nat /\ MaxMerges \in Nat /\ MaxBoots \in Nat
    /\ MaxSaves \in Nat /\ MaxFaults \in Nat
    /\ Autosave \in Names

Step == 1 .. MaxSteps
File == {"manifest", "residual", "adapter"}

VARIABLES
    proc,     \* "stopped", "crashed", "up", "closing" (the lifespan is over, its
              \* autosave waits in the queue) or "draining" (after that save)
    boots,    \* starts of the daemon
    faults,   \* crashes and failed writes
    saves,    \* saves begun
    steps,    \* train steps run
    model,    \* the weights of the process: of the running one, or of the one
              \* that stopped
    moments,  \* for A and B, whether the optimizer has a moment
    saving,   \* the save that is running
    disk,     \* the files of each snapshot
    kept,     \* the model and the number of steps when a save last began
    whole     \* the snapshots whose last save came to its end

memory == <<model, moments>>
files  == <<saving, disk, kept, whole>>
vars   == <<proc, boots, faults, saves, steps, memory, files>>

Zero == [s \in Step |-> 0]
NoDelta == [bound |-> FALSE, sum |-> Zero]
NoMoments == [a |-> FALSE, b |-> FALSE]
NoSave == [name |-> Autosave, file |-> "none", open |-> FALSE]
ZeroAdapter == [a |-> FALSE, b |-> FALSE, sum |-> Zero]
NoFiles == [is |-> [f \in File |-> "missing"],
            merges |-> 0, residual |-> Zero, adapter |-> ZeroAdapter]

\* get_peft_model: A is random, B is zero.
FreshModel ==
    [merged |-> NoDelta,  \* merged_deltas
     live |-> NoDelta,    \* what a forward pass adds: _residual_delta and the hooks
     adapter |-> [ZeroAdapter EXCEPT !.a = TRUE],
     merges |-> 0]

Plus(x, y) == [s \in Step |-> x[s] + y[s]]

\* What a forward pass computes with, over the base weights.
Weights(m) == Plus(m.live.sum, m.adapter.sum)

Init ==
    /\ proc = "stopped" /\ boots = 0 /\ faults = 0 /\ saves = 0 /\ steps = 0
    /\ model = FreshModel /\ moments = NoMoments
    /\ saving = NoSave
    /\ disk = [n \in Names |-> NoFiles]
    /\ kept = [n \in Names |-> [model |-> FreshModel, at |-> 0]]
    /\ whole = {}

Idle == saving = NoSave
Running == proc \in {"up", "closing", "draining"}

\* Requests are over when the lifespan asks for its autosave, so all their work
\* is in front of it; only the schedulers submit behind it.
AlsoWhileDraining == Running /\ Idle
ForClients == proc \in {"up", "closing"} /\ Idle

-----------------------------------------------------------------------------
(* Training and merging. *)

\* opt.step: a factor moves if its gradient or its moment is not zero.
TrainStep ==
    LET ad == model.adapter
        ma == moments.a \/ ad.b
        mb == moments.b \/ ad.a
        a  == ad.a \/ ma
        b  == ad.b \/ mb
    IN  /\ Running /\ Idle
        /\ steps < MaxSteps
        /\ steps' = steps + 1
        /\ moments' = [a |-> ma, b |-> mb]
        /\ model' = [model EXCEPT !.adapter =
               [a |-> a, b |-> b, sum |-> IF a /\ b THEN [ad.sum EXCEPT ![steps'] = 1] ELSE ad.sum]]
        /\ UNCHANGED <<proc, boots, faults, saves, files>>

\* _apply_residual_to_model: without merged_deltas nothing is touched.
Bind(delta, old) == IF delta.bound THEN delta ELSE old

MergedOverwrites(m) == [bound |-> TRUE, sum |-> m.adapter.sum]
Merged(m) ==
    IF m.adapter.a \/ m.adapter.b
    THEN [bound |-> TRUE, sum |-> Plus(m.merged.sum, m.adapter.sum)]
    ELSE m.merged

\* merge_active_into_residual.
Merge ==
    /\ ForClients
    /\ model.merges < MaxMerges
    /\ model' = [merged |-> Merged(model), live |-> Bind(Merged(model), model.live),
                 adapter |-> ZeroAdapter, merges |-> model.merges + 1]
    /\ UNCHANGED <<proc, boots, faults, saves, steps, moments, files>>

-----------------------------------------------------------------------------
(* SnapshotManager.save: files truncated and written in place, one by one.   *)

StartSave(n) ==
    /\ ForClients
    /\ saves < MaxSaves
    /\ saves' = saves + 1
    /\ saving' = [name |-> n, file |-> "manifest", open |-> FALSE]
    /\ kept' = [kept EXCEPT ![n] = [model |-> model, at |-> steps]]
    /\ whole' = whole \ {n}
    /\ UNCHANGED <<boots, faults, steps, memory, disk>>

SaveBegins == /\ \E n \in Names : StartSave(n)
              /\ UNCHANGED proc

\* While a file is torn, its contents are there for the next step only.
SaveOpens ==
    /\ saving.file \in File /\ ~saving.open
    /\ saving' = [saving EXCEPT !.open = TRUE]
    /\ disk' = [disk EXCEPT ![saving.name] =
           [is |-> [@.is EXCEPT ![saving.file] = "torn"],
            merges |-> IF saving.file = "manifest" THEN model.merges ELSE @.merges,
            residual |-> IF saving.file = "residual" THEN model.merged.sum ELSE @.residual,
            adapter |-> IF saving.file = "adapter" THEN model.adapter ELSE @.adapter]]
    /\ UNCHANGED <<proc, boots, faults, saves, steps, memory, kept, whole>>

\* An empty residual writes no file and removes none.
AfterManifestAdapterIfNotZero(m) ==
    IF m.merged.bound THEN "residual" ELSE IF m.adapter.b THEN "adapter" ELSE "none"
AfterManifest(m) == IF m.merged.bound THEN "residual" ELSE "adapter"
NextFile(f) == CASE f = "manifest" -> AfterManifest(model)
                 [] f = "residual" -> "adapter"
                 [] f = "adapter" -> "none"

SaveWrites ==
    LET next == NextFile(saving.file) IN
    /\ saving.file \in File /\ saving.open
    /\ disk' = [disk EXCEPT ![saving.name].is[saving.file] = "written"]
    /\ saving' = IF next = "none" THEN NoSave ELSE [saving EXCEPT !.file = next, !.open = FALSE]
    /\ whole' = IF next = "none" THEN whole \union {saving.name} ELSE whole
    /\ UNCHANGED <<proc, boots, faults, saves, steps, memory, kept>>

\* The exception ends in task.error, which request_snapshot_save ignores.
SaveFails ==
    /\ faults < MaxFaults
    /\ faults' = faults + 1
    /\ saving.file \in File
    /\ saving' = NoSave
    /\ UNCHANGED <<proc, boots, saves, steps, memory, disk, kept, whole>>

-----------------------------------------------------------------------------
(* SnapshotManager.load. *)

LiveLeftOver(d, m) == Bind([bound |-> d.is.residual = "written", sum |-> d.residual], m.live)
LiveAfterLoad(d, m) ==
    IF d.is.residual = "written" THEN [bound |-> TRUE, sum |-> d.residual] ELSE NoDelta

MergesAdded(d, m) == d.merges + m.merges
MergesAfterLoad(d, m) == d.merges

\* A read of a torn file raises; what was done before stays done.
ResidualLoads(d) == d.is.manifest = "written" /\ d.is.residual # "torn"
LoadEnds(d) == ResidualLoads(d) /\ d.is.adapter # "torn"

WithResidual(d, m) ==
    IF ResidualLoads(d)
    THEN [m EXCEPT !.merged = IF d.is.residual = "written" THEN [bound |-> TRUE, sum |-> d.residual]
                                                           ELSE NoDelta,
                   !.live = LiveAfterLoad(d, m)]
    ELSE m

Loaded(d, m) ==
    IF LoadEnds(d)
    THEN [WithResidual(d, m) EXCEPT
             !.adapter = IF d.is.adapter = "written" THEN d.adapter ELSE ZeroAdapter,
             !.merges = MergesAfterLoad(d, m)]
    ELSE WithResidual(d, m)

\* A snapshot_load task; request_snapshot_load ignores task.error.
Load ==
    /\ ForClients
    /\ \E n \in Names :
         /\ model' = Loaded(disk[n], model)
         /\ moments' = IF LoadEnds(disk[n]) THEN NoMoments ELSE moments
    /\ UNCHANGED <<proc, boots, faults, saves, steps, files>>

-----------------------------------------------------------------------------
(* Processes. *)

\* A new model, on it the autosave if there is one.
Boot ==
    /\ proc \in {"stopped", "crashed"}
    /\ boots < MaxBoots
    /\ proc' = "up"
    /\ boots' = boots + 1
    /\ model' = Loaded(disk[Autosave], FreshModel)
    /\ moments' = NoMoments
    /\ UNCHANGED <<faults, saves, steps, files>>

ShutdownBegins ==
    /\ proc = "up"
    /\ proc' = "closing"
    /\ UNCHANGED <<boots, faults, saves, steps, memory, files>>

AutosaveBegins ==
    /\ proc = "closing"
    /\ StartSave(Autosave)
    /\ proc' = "draining"

Exit ==
    /\ proc = "draining" /\ Idle
    /\ proc' = "stopped"
    /\ UNCHANGED <<boots, faults, saves, steps, memory, files>>

Crash ==
    /\ faults < MaxFaults
    /\ faults' = faults + 1
    /\ Running
    /\ proc' = "crashed"
    /\ model' = FreshModel /\ moments' = NoMoments
    /\ saving' = NoSave
    /\ UNCHANGED <<boots, saves, steps, disk, kept, whole>>

Next ==
    \/ TrainStep \/ Merge \/ Load
    \/ SaveBegins \/ SaveOpens \/ SaveWrites \/ SaveFails
    \/ Boot \/ ShutdownBegins \/ AutosaveBegins \/ Exit \/ Crash

Spec == Init /\ [][Next]_vars

-----------------------------------------------------------------------------
(* Properties. *)

Sum == [Step -> Nat]
Delta == [bound : BOOLEAN, sum : Sum]
Adapter == [a : BOOLEAN, b : BOOLEAN, sum : Sum]
Model == [merged : Delta, live : Delta, adapter : Adapter, merges : 0 .. MaxMerges]

\* The type invariant: merges_applied (state.py:274, snapshot.py:81) counts the
\* merges of the weights there are, so restoring never runs it past the merges made.
TypeOK ==
    /\ proc \in {"stopped", "crashed", "up", "closing", "draining"}
    /\ boots \in 0 .. MaxBoots
    /\ faults \in 0 .. MaxFaults
    /\ saves \in 0 .. MaxSaves
    /\ steps \in 0 .. MaxSteps
    /\ model \in Model
    /\ moments \in [a : BOOLEAN, b : BOOLEAN]
    /\ saving \in [name : Names, file : File \union {"none"}, open : BOOLEAN]
    /\ disk \in [Names -> [is : [File -> {"missing", "torn", "written"}],
                           merges : 0 .. MaxMerges, residual : Sum, adapter : Adapter]]
    /\ kept \in [Names -> [model : Model, at : 0 .. MaxSteps]]
    /\ whole \subseteq Names

\* What the forward pass adds is the recorded residual, also after a load that
\* replaced it, removed it or broke off (state.py:310-364, snapshot.py:64-75:
\* hooks of a previous residual must not leak into a restored model).
ResidualIsLive == model.live = model.merged

\* A merge moves the adapter into the residual and leaves what the model computes
\* as it is (state.py:241-281), whatever was merged or restored before.
MergeKeepsWeights == [][Merge => Weights(model)' = Weights(model)]_vars

\* No residual was saved, but the file of an earlier save is still there.
Stale(n) == ~kept[n].model.merged.bound /\ disk[n].is["residual"] # "missing"

\* A snapshot whose save came to its end restores the model of that moment into
\* any model that runs now, whatever crashed or failed in between
\* (snapshot.py:31-87), unless an older residual is in its directory.
SnapshotIsWhole ==
    \A n \in whole : ~Stale(n) => Loaded(disk[n], model) = kept[n].model

\* The same without the exception: the documented promise.
RestoreIsExact == \A n \in whole : Loaded(disk[n], model) = kept[n].model

\* What a daemon that shut down had learned up to its autosave is in what the
\* next one boots with; only steps of the schedulers behind the autosave are
\* missing (server.py:231-250).
CleanExit ==
    proc = "stopped" /\ Autosave \in whole /\ ~Stale(Autosave) =>
        LET next == Loaded(disk[Autosave], FreshModel)
        IN  \A s \in 1 .. kept[Autosave].at : Weights(next)[s] = Weights(model)[s]

\* A train step changes the weights: also after a merge, training continues
\* (PLAN.md:90).
TrainingContinues == [][TrainStep => Weights(model)' # Weights(model)]_vars
=============================================================================
