--------------------------- MODULE SnapshotsProofs ---------------------------
(***************************************************************************)
(* Proofs about Snapshots.  SnapshotInv is the inductive invariant: it     *)
(* says of a running save which files it has written, of a finished one    *)
(* that all of them are the kept model's, and of a drain that it only adds *)
(* steps behind the autosave.                                              *)
(***************************************************************************)
EXTENDS Snapshots, TLAPS

\* A residual that is not bound is empty.
EmptyIfUnbound(m) == ~m.merged.bound => m.merged = NoDelta

ModelSound == ResidualIsLive /\ EmptyIfUnbound(model)

\* An adapter both of whose factors are zero adds nothing.
ZeroIfNoFactor(ad) == ~ad.a /\ ~ad.b => ad.sum = Zero

FactorsSound ==
    /\ ZeroIfNoFactor(model.adapter)
    /\ \A n \in Names : ZeroIfNoFactor(disk[n].adapter)

KeptSound ==
    \A n \in Names :
        /\ kept[n].model.live = kept[n].model.merged
        /\ EmptyIfUnbound(kept[n].model)
        /\ kept[n].at <= steps

\* The contents of file f of snapshot n are those of model m.
Holds(n, f, m) ==
    CASE f = "manifest" -> disk[n].merges = m.merges
      [] f = "residual" -> disk[n].residual = m.merged.sum
      [] f = "adapter" -> disk[n].adapter = m.adapter

Written(n, f, m) == disk[n].is[f] = "written" /\ Holds(n, f, m)

WholeIsWritten ==
    \A n \in whole :
        /\ Written(n, "manifest", kept[n].model)
        /\ Written(n, "adapter", kept[n].model)
        /\ kept[n].model.merged.bound => Written(n, "residual", kept[n].model)

SaveInProgress ==
    ~Idle =>
        /\ Running
        /\ saving.file \in File
        /\ saving.name \notin whole
        /\ kept[saving.name].model = model
        /\ saving.open => Holds(saving.name, saving.file, model)
        /\ saving.file # "manifest" => Written(saving.name, "manifest", model)
        /\ saving.file = "residual" => model.merged.bound
        /\ saving.file = "adapter" /\ model.merged.bound => Written(saving.name, "residual", model)

\* Behind the autosave, steps are added and nothing else.
DrainAddsSteps ==
    proc \in {"draining", "stopped"} =>
        \A s \in 1 .. kept[Autosave].at : Weights(kept[Autosave].model)[s] = Weights(model)[s]

Aux == ModelSound /\ FactorsSound /\ KeptSound /\ WholeIsWritten /\ SaveInProgress /\ DrainAddsSteps

SnapshotInv == TypeOK /\ Aux

-----------------------------------------------------------------------------
(* Types. *)

LEMMA SumTypes ==
    /\ Zero \in Sum
    /\ \A x, y \in Sum : Plus(x, y) \in Sum
BY DEF Zero, Sum, Plus

LEMMA InitialTypes ==
    /\ NoDelta \in Delta
    /\ ZeroAdapter \in Adapter
    /\ FreshModel \in Model
<1>1. NoDelta \in Delta
  BY SumTypes DEF NoDelta, Delta
<1>2. ZeroAdapter \in Adapter
  BY SumTypes DEF ZeroAdapter, Adapter
<1>3. [ZeroAdapter EXCEPT !.a = TRUE] \in Adapter
  BY <1>2 DEF Adapter
<1>4. 0 \in 0 .. MaxMerges
  BY SnapshotBounds
<1>5. FreshModel \in Model
  BY <1>1, <1>3, <1>4 DEF FreshModel, Model
<1> QED BY <1>1, <1>2, <1>5

\* Loading keeps the type, whatever is in the files.
LEMMA LoadedType ==
    ASSUME TypeOK, NEW n \in Names, NEW m \in Model
    PROVE  Loaded(disk[n], m) \in Model
<1> DEFINE d == disk[n]
<1>1. /\ d.residual \in Sum
      /\ d.merges \in 0 .. MaxMerges
      /\ d.adapter \in Adapter
  BY DEF TypeOK
<1>2. LiveAfterLoad(d, m) \in Delta
  BY <1>1, InitialTypes DEF LiveAfterLoad, Delta
<1>3. WithResidual(d, m) \in Model
  BY <1>1, <1>2, InitialTypes DEF WithResidual, Model, Delta
<1> HIDE DEF d
<1>4. Loaded(d, m) \in Model
  BY <1>1, <1>3, InitialTypes DEF Loaded, Model, MergesAfterLoad
<1> QED BY <1>4 DEF d

\* The invariant of Snapshots' types is inductive.
LEMMA TypeStep == TypeOK /\ [Next]_vars => TypeOK'
<1> SUFFICES ASSUME TypeOK, [Next]_vars PROVE TypeOK'
  OBVIOUS
<1> USE SnapshotBounds DEF TypeOK, files
<1>1. CASE TrainStep
  <2>1. model.adapter \in Adapter /\ moments \in [a : BOOLEAN, b : BOOLEAN]
    BY DEF Model
  <2>2. steps' \in Step
    BY <1>1 DEF TrainStep, Step
  <2>3. [model.adapter.sum EXCEPT ![steps'] = 1] \in Sum
    BY <2>1, <2>2 DEF Adapter, Sum
  <2>4. model'.adapter \in Adapter /\ moments' \in [a : BOOLEAN, b : BOOLEAN]
    BY <1>1, <2>1, <2>3 DEF TrainStep, Adapter, Model
  <2>5. model' \in Model
    BY <1>1, <2>4 DEF TrainStep, Model
  <2> QED BY <1>1, <2>2, <2>4, <2>5 DEF TrainStep, Step
<1>2. CASE Merge
  <2>1. Merged(model) \in Delta
    BY SumTypes DEF Merged, Model, Delta, Adapter
  <2>2. Bind(Merged(model), model.live) \in Delta
    BY <2>1 DEF Bind, Model
  <2>3. model' \in Model
    BY <1>2, <2>1, <2>2, InitialTypes DEF Merge, Model
  <2> QED BY <1>2, <2>3 DEF Merge
<1>3. CASE Load
  BY <1>3, LoadedType DEF Load, NoMoments
<1>4. ASSUME NEW n \in Names, StartSave(n), proc' \in {proc, "draining"} PROVE TypeOK'
  <2>1. kept' \in [Names -> [model : Model, at : 0 .. MaxSteps]]
    BY <1>4 DEF StartSave
  <2>2. saving' \in [name : Names, file : File \union {"none"}, open : BOOLEAN]
    BY <1>4 DEF StartSave, File
  <2> QED BY <1>4, <2>1, <2>2 DEF StartSave, memory
<1>5. CASE SaveOpens
  <2>1. /\ model.merges \in 0 .. MaxMerges
        /\ model.merged.sum \in Sum
        /\ model.adapter \in Adapter
    BY DEF Model, Delta
  <2>2. saving' \in [name : Names, file : File \union {"none"}, open : BOOLEAN]
    BY <1>5 DEF SaveOpens
  <2>3. disk'[saving.name] \in [is : [File -> {"missing", "torn", "written"}],
                                merges : 0 .. MaxMerges, residual : Sum, adapter : Adapter]
    BY <1>5, <2>1 DEF SaveOpens
  <2>4. disk' = [disk EXCEPT ![saving.name] = disk'[saving.name]]
    BY <1>5 DEF SaveOpens
  <2> QED BY <1>5, <2>2, <2>3, <2>4 DEF SaveOpens, memory
<1>6. CASE SaveWrites
  <2>1. NextFile(saving.file) \in File \union {"none"}
    BY <1>6 DEF SaveWrites, NextFile, AfterManifest, File
  <2>2. saving' \in [name : Names, file : File \union {"none"}, open : BOOLEAN]
    BY <1>6, <2>1 DEF SaveWrites, NoSave
  <2>3. disk'[saving.name] \in [is : [File -> {"missing", "torn", "written"}],
                                merges : 0 .. MaxMerges, residual : Sum, adapter : Adapter]
    BY <1>6 DEF SaveWrites
  <2>4. disk' = [disk EXCEPT ![saving.name] = disk'[saving.name]]
    BY <1>6 DEF SaveWrites
  <2> QED BY <1>6, <2>2, <2>3, <2>4 DEF SaveWrites, memory
<1>7. CASE SaveFails
  BY <1>7 DEF SaveFails, NoSave, memory
<1>8. CASE Boot
  BY <1>8, LoadedType, InitialTypes DEF Boot, NoMoments
<1>9. CASE ShutdownBegins \/ Exit
  BY <1>9 DEF ShutdownBegins, Exit, memory
<1>10. CASE Crash
  BY <1>10, InitialTypes DEF Crash, NoMoments, NoSave
<1>11. CASE UNCHANGED vars
  BY <1>11 DEF vars, memory
<1> QED BY <1>1, <1>2, <1>3, <1>4, <1>5, <1>6, <1>7, <1>8, <1>9, <1>10, <1>11
        DEF Next, SaveBegins, AutosaveBegins

LEMMA TypeInit == Init => TypeOK
<1> SUFFICES ASSUME Init PROVE TypeOK
  OBVIOUS
<1>1. NoFiles \in [is : [File -> {"missing", "torn", "written"}],
                   merges : 0 .. MaxMerges, residual : Sum, adapter : Adapter]
  BY SnapshotBounds, SumTypes, InitialTypes DEF NoFiles
<1> QED BY <1>1, SnapshotBounds, InitialTypes DEF Init, TypeOK, NoSave, NoMoments

\* Weights, files and counters keep their types; in particular merges_applied
\* stays within the merges made, whatever is restored.
THEOREM TypeCorrect == Spec => []TypeOK
BY TypeInit, TypeStep, PTL DEF Spec
-----------------------------------------------------------------------------
(* The invariant. *)

\* Loading binds the residual it reads, or none.
LEMMA LoadedSound ==
    ASSUME TypeOK, NEW n \in Names, NEW m \in Model, m.live = m.merged, EmptyIfUnbound(m)
    PROVE  /\ Loaded(disk[n], m).live = Loaded(disk[n], m).merged
           /\ EmptyIfUnbound(Loaded(disk[n], m))
<1> DEFINE r == WithResidual(disk[n], m)
<1>1. r \in [merged : Delta, live : Delta, adapter : Adapter, merges : 0 .. MaxMerges]
      /\ r.live = r.merged /\ EmptyIfUnbound(r)
  <2>1. disk[n].residual \in Sum
    BY DEF TypeOK
  <2> QED BY <2>1, InitialTypes DEF WithResidual, LiveAfterLoad, EmptyIfUnbound, Model, Delta, NoDelta
<1>2. Loaded(disk[n], m).live = r.live /\ Loaded(disk[n], m).merged = r.merged
  BY <1>1 DEF Loaded
<1> QED BY <1>1, <1>2 DEF EmptyIfUnbound

\* A snapshot that was written to its end restores the kept model into any model.
LEMMA WholeRestores ==
    ASSUME TypeOK, KeptSound, WholeIsWritten, NEW n \in whole, ~Stale(n), NEW m \in Model
    PROVE  Loaded(disk[n], m) = kept[n].model
<1> DEFINE d == disk[n]
           k == kept[n].model
<1>1. n \in Names /\ k \in Model
  BY DEF TypeOK
<1>2. /\ d.is["manifest"] = "written" /\ d.merges = k.merges
      /\ d.is["adapter"] = "written" /\ d.adapter = k.adapter
      /\ k.merged.bound => d.is["residual"] = "written" /\ d.residual = k.merged.sum
      /\ ~k.merged.bound => d.is["residual"] = "missing" /\ k.merged = NoDelta
      /\ k.live = k.merged
  BY <1>1 DEF WholeIsWritten, Written, Holds, KeptSound, EmptyIfUnbound, Stale
<1>3. k.merged \in Delta /\ (k.merged.bound => k.merged = [bound |-> TRUE, sum |-> k.merged.sum])
  BY <1>1 DEF Model, Delta
<1> HIDE DEF d, k
<1>4. ResidualLoads(d) /\ LoadEnds(d)
  BY <1>2, <1>3 DEF ResidualLoads, LoadEnds, Delta
<1>5. WithResidual(d, m) = [m EXCEPT !.merged = k.merged, !.live = k.live]
  BY <1>2, <1>3, <1>4 DEF WithResidual, LiveAfterLoad, Delta
<1>6. Loaded(d, m) = [m EXCEPT !.merged = k.merged, !.live = k.live,
                              !.adapter = k.adapter, !.merges = k.merges]
  BY <1>2, <1>4, <1>5 DEF Loaded, MergesAfterLoad, Model
<1>7. Loaded(d, m) = k
  BY <1>1, <1>6 DEF Model
<1> QED BY <1>7 DEF d, k
\* The parts that saving does not touch.
LEMMA ModelStep == SnapshotInv /\ [Next]_vars => ModelSound'
<1> SUFFICES ASSUME SnapshotInv, [Next]_vars PROVE ModelSound'
  OBVIOUS
<1> USE DEF SnapshotInv, Aux, ModelSound, ResidualIsLive
<1>1. CASE TrainStep
  <2>1. model'.live = model.live /\ model'.merged = model.merged
    BY <1>1 DEF TrainStep, TypeOK, Model
  <2> QED BY <2>1 DEF EmptyIfUnbound
<1>2. CASE Merge
  <2>1. Merged(model).bound \/ Merged(model) = model.merged
    BY DEF Merged
  <2>2. model'.merged = Merged(model) /\ model'.live = Bind(Merged(model), model.live)
    BY <1>2 DEF Merge
  <2> QED BY <2>1, <2>2 DEF Bind, EmptyIfUnbound
<1>3. CASE Load
  BY <1>3, LoadedSound DEF Load, TypeOK, EmptyIfUnbound
<1>4. CASE Boot
  <2>1. FreshModel.live = FreshModel.merged /\ EmptyIfUnbound(FreshModel)
    BY DEF FreshModel, EmptyIfUnbound
  <2> QED BY <1>4, <2>1, LoadedSound, InitialTypes, SnapshotBounds DEF Boot, EmptyIfUnbound
<1>5. CASE Crash
  BY <1>5 DEF Crash, FreshModel, EmptyIfUnbound
<1>6. CASE UNCHANGED model
  BY <1>6 DEF EmptyIfUnbound
<1> QED BY <1>1, <1>2, <1>3, <1>4, <1>5, <1>6
        DEF Next, SaveBegins, AutosaveBegins, StartSave, SaveOpens, SaveWrites, SaveFails,
            ShutdownBegins, Exit, memory, vars

\* kept changes when a save begins, and then to the model of that moment.
LEMMA KeptStep == SnapshotInv /\ [Next]_vars => KeptSound'
<1> DEFINE Sound(n) == /\ kept[n].model.live = kept[n].model.merged
                       /\ EmptyIfUnbound(kept[n].model)
                       /\ kept[n].at <= steps
<1> SUFFICES ASSUME SnapshotInv, [Next]_vars, NEW n \in Names PROVE Sound(n)'
  BY DEF KeptSound
<1> USE DEF SnapshotInv, Aux, KeptSound
<1>1. steps' \in Nat /\ steps <= steps' /\ kept[n].at \in Nat
  BY SnapshotBounds DEF Next, TrainStep, Merge, Load, SaveBegins, AutosaveBegins, StartSave, SaveOpens, SaveWrites,
     SaveFails, Boot, ShutdownBegins, Exit, Crash, TypeOK, vars, Step
<1>2. CASE kept' = kept
  BY <1>1, <1>2, SnapshotBounds DEF TypeOK
<1>3. ASSUME NEW q \in Names, StartSave(q) PROVE Sound(n)'
  <2>1. CASE q = n
    <3>1. kept'[n].model = model /\ kept'[n].at = steps /\ steps' = steps
      BY <1>3, <2>1 DEF StartSave, TypeOK
    <3> QED BY <3>1, <1>1, SnapshotBounds DEF ModelSound, ResidualIsLive, TypeOK
  <2>2. CASE q # n
    <3>1. kept'[n] = kept[n]
      BY <1>3, <2>2 DEF StartSave, TypeOK
    <3> QED BY <3>1, <1>1, SnapshotBounds DEF TypeOK
  <2> QED BY <2>1, <2>2
<1> QED BY <1>2, <1>3, SnapshotBounds
        DEF Next, TrainStep, Merge, Load, SaveBegins, AutosaveBegins, SaveOpens, SaveWrites,
            SaveFails, Boot, ShutdownBegins, Exit, Crash, vars, files

\* Steps that leave all files and saves as they are, or change none of the
\* snapshots on record.
LEMMA FilesKept ==
    ASSUME SnapshotInv, saving' \in {saving, NoSave}, UNCHANGED <<disk, kept, whole>>,
           saving' = NoSave \/ (UNCHANGED model /\ Running')
    PROVE  WholeIsWritten' /\ SaveInProgress'
<1>1. WholeIsWritten'
  BY DEF SnapshotInv, Aux, WholeIsWritten, Written, Holds
<1>2. SaveInProgress'
  BY DEF SnapshotInv, Aux, SaveInProgress, Idle, Written, Holds
<1> QED BY <1>1, <1>2

LEMMA SaveBeginsStep ==
    ASSUME SnapshotInv, NEW n \in Names, StartSave(n), proc' \in {proc, "draining"}
    PROVE  WholeIsWritten' /\ SaveInProgress'
<1> USE DEF SnapshotInv, Aux, StartSave
<1>1. ASSUME NEW q \in whole' PROVE q \in whole /\ q \in Names /\ kept'[q] = kept[q]
  BY <1>1 DEF TypeOK
<1>2. WholeIsWritten'
  BY <1>1 DEF WholeIsWritten, Written, Holds
<1>3. kept'[n].model = model /\ model' = model
  BY DEF TypeOK, memory
<1>4. SaveInProgress'
  BY <1>3 DEF SaveInProgress, Idle, NoSave, File, ForClients, Running
<1> QED BY <1>2, <1>4

\* A file is truncated: it is none of a finished snapshot.
LEMMA SaveOpensStep ==
    ASSUME SnapshotInv, SaveOpens
    PROVE  WholeIsWritten' /\ SaveInProgress'
<1> USE DEF SnapshotInv, Aux
<1> PICK n \in Names, f \in File : n = saving.name /\ f = saving.file
  BY DEF SaveOpens, TypeOK
<1>1. /\ ~Idle /\ n \notin whole /\ kept[n].model = model
      /\ saving' = [saving EXCEPT !.open = TRUE]
      /\ saving'.name = n /\ saving'.file = f
      /\ model' = model /\ Running'
  BY DEF SaveOpens, SaveInProgress, Idle, NoSave, File, TypeOK, memory, Running
<1>2. ASSUME NEW q \in Names, q # n PROVE disk'[q] = disk[q]
  BY <1>2 DEF SaveOpens, TypeOK
<1>3. WholeIsWritten'
  BY <1>1, <1>2 DEF SaveOpens, WholeIsWritten, Written, Holds, TypeOK
<1>4. ASSUME NEW g \in File \ {f}, Written(n, g, model) PROVE Written(n, g, model)'
  BY <1>1, <1>4 DEF SaveOpens, Written, Holds, File, TypeOK
<1>5. Holds(n, f, model)'
  BY <1>1 DEF SaveOpens, Holds, File, TypeOK
<1>6. kept' = kept /\ whole' = whole
  BY DEF SaveOpens
<1>7. /\ f # "manifest" => Written(n, "manifest", model)
      /\ f = "residual" => model.merged.bound
      /\ f = "adapter" /\ model.merged.bound => Written(n, "residual", model)
  BY <1>1 DEF SaveInProgress
<1>8. /\ f # "manifest" => Written(n, "manifest", model)'
      /\ f = "adapter" /\ model.merged.bound => Written(n, "residual", model)'
  BY <1>4, <1>7 DEF File
<1>9. SaveInProgress'
  BY <1>1, <1>5, <1>6, <1>7, <1>8 DEF SaveInProgress
<1> QED BY <1>3, <1>9

\* A file is complete; after the last one the snapshot is.
LEMMA SaveWritesStep ==
    ASSUME SnapshotInv, SaveWrites
    PROVE  WholeIsWritten' /\ SaveInProgress'
<1> PICK n \in Names, f \in File : n = saving.name /\ f = saving.file
  BY DEF SaveWrites, SnapshotInv, TypeOK
<1> PICK next : next = NextFile(f)
  OBVIOUS
<1>1. /\ saving.open
      /\ model' = model /\ kept' = kept /\ proc' = proc
      /\ disk' = [disk EXCEPT ![n].is[f] = "written"]
  BY DEF SaveWrites, memory
<1>2. TypeOK /\ WholeIsWritten
  BY DEF SnapshotInv, Aux, TypeOK
<1>3. ~Idle
  BY <1>1 DEF Idle, NoSave, File
<1>4. /\ n \notin whole /\ kept[n].model = model /\ Running
      /\ Holds(n, f, model)
      /\ f # "manifest" => Written(n, "manifest", model)
      /\ f = "residual" => model.merged.bound
      /\ f = "adapter" /\ model.merged.bound => Written(n, "residual", model)
  BY <1>1, <1>3 DEF SnapshotInv, Aux, SaveInProgress
<1>5. /\ \A q \in Names : q # n => disk'[q] = disk[q]
      /\ disk'[n] = [disk[n] EXCEPT !.is = [disk[n].is EXCEPT ![f] = "written"]]
  BY <1>1, <1>2 DEF TypeOK
<1>6. \A g \in File : disk'[n].is[g] = IF g = f THEN "written" ELSE disk[n].is[g]
  BY <1>1, <1>2, <1>5 DEF TypeOK
<1>7. /\ disk'[n].merges = disk[n].merges
      /\ disk'[n].residual = disk[n].residual
      /\ disk'[n].adapter = disk[n].adapter
  BY <1>2, <1>5 DEF TypeOK
<1>8. ASSUME NEW g \in File, Written(n, g, model) PROVE Written(n, g, model)'
  BY <1>1, <1>6, <1>7, <1>8 DEF Written, Holds, File
<1>9. Written(n, f, model)'
  BY <1>1, <1>4, <1>6, <1>7 DEF Written, Holds, File
<1>10. "manifest" \in File /\ "residual" \in File /\ "adapter" \in File
  BY DEF File
<1>11. ASSUME NEW q \in whole, q # n
       PROVE  /\ Written(q, "manifest", kept[q].model)'
              /\ Written(q, "adapter", kept[q].model)'
              /\ kept'[q].model.merged.bound => Written(q, "residual", kept[q].model)'
  BY <1>1, <1>2, <1>5, <1>11 DEF WholeIsWritten, Written, Holds, TypeOK
<1>12. CASE next = "none"
  <2>1. f = "adapter" /\ whole' = whole \union {n} /\ saving' = NoSave
    BY <1>1, <1>12 DEF SaveWrites, NextFile, AfterManifest, File
  <2>2. /\ Written(n, "manifest", model)' /\ Written(n, "adapter", model)'
        /\ model.merged.bound => Written(n, "residual", model)'
    BY <1>4, <1>8, <1>9, <1>10, <2>1
  <2>3. WholeIsWritten'
    BY <1>1, <1>4, <1>11, <2>1, <2>2 DEF WholeIsWritten, Written, Holds
  <2> QED BY <2>1, <2>3 DEF SaveInProgress, Idle
<1>13. CASE next # "none"
  <2>1. /\ whole' = whole /\ saving' = [saving EXCEPT !.file = next, !.open = FALSE]
        /\ next \in File
    BY <1>1, <1>13 DEF SaveWrites, NextFile, AfterManifest, File
  <2>2. saving'.name = n /\ saving'.file = next /\ ~saving'.open
    BY <1>2, <2>1 DEF TypeOK
  <2>3. WholeIsWritten'
    BY <1>1, <1>4, <1>11, <2>1 DEF WholeIsWritten
  <2>4. /\ next # "manifest"
        /\ Written(n, "manifest", model)'
        /\ next = "residual" => model.merged.bound
        /\ next = "adapter" /\ model.merged.bound => Written(n, "residual", model)'
    <3>1. CASE f = "manifest"
      BY <1>9, <3>1 DEF NextFile, AfterManifest
    <3>2. CASE f = "residual"
      BY <1>4, <1>8, <1>9, <1>10, <3>2 DEF NextFile
    <3>3. CASE f = "adapter"
      BY <1>13, <3>3 DEF NextFile
    <3> QED BY <1>1, <3>1, <3>2, <3>3 DEF File
  <2>5. SaveInProgress'
    BY <1>1, <1>4, <2>1, <2>2, <2>4 DEF SaveInProgress, Running
  <2> QED BY <2>3, <2>5
<1> QED BY <1>12, <1>13

LEMMA FilesStep == SnapshotInv /\ [Next]_vars => WholeIsWritten' /\ SaveInProgress'
<1> SUFFICES ASSUME SnapshotInv, [Next]_vars PROVE WholeIsWritten' /\ SaveInProgress'
  OBVIOUS
<1>1. CASE TrainStep \/ Merge \/ Load \/ Boot
  <2>1. saving = NoSave
    BY <1>1 DEF TrainStep, Merge, Load, Boot, ForClients, Idle, Running,
                SnapshotInv, Aux, SaveInProgress
  <2> QED BY <1>1, <2>1, FilesKept DEF TrainStep, Merge, Load, Boot, files
<1>2. CASE SaveFails \/ ShutdownBegins \/ Exit \/ Crash \/ UNCHANGED vars
  <2>1. saving' = NoSave \/ (UNCHANGED <<model, saving>> /\ Running')
    BY <1>2 DEF SaveFails, ShutdownBegins, Exit, Crash, vars, files, memory, Running, Idle,
                SnapshotInv, Aux, SaveInProgress
  <2> QED BY <1>2, <2>1, FilesKept DEF SaveFails, ShutdownBegins, Exit, Crash, vars, files
<1>3. CASE SaveBegins \/ AutosaveBegins
  BY <1>3, SaveBeginsStep, SnapshotBounds DEF SaveBegins, AutosaveBegins
<1> QED BY <1>1, <1>2, <1>3, SaveOpensStep, SaveWritesStep DEF Next

LEMMA FactorsStep == SnapshotInv /\ [Next]_vars => FactorsSound'
<1> SUFFICES ASSUME SnapshotInv, [Next]_vars PROVE FactorsSound'
  OBVIOUS
<1> USE DEF SnapshotInv, Aux
<1>1. ZeroIfNoFactor(ZeroAdapter) /\ ZeroIfNoFactor(FreshModel.adapter)
  BY DEF ZeroIfNoFactor, ZeroAdapter, FreshModel
<1>2. ASSUME NEW n \in Names, NEW m \in Model, ZeroIfNoFactor(m.adapter)
      PROVE  ZeroIfNoFactor(Loaded(disk[n], m).adapter)
  <2>1. WithResidual(disk[n], m).adapter = m.adapter /\ WithResidual(disk[n], m) \in Model
    <3>1. disk[n].residual \in Sum
      BY DEF TypeOK
    <3> QED BY <3>1, InitialTypes DEF WithResidual, LiveAfterLoad, Model, Delta
  <2>2. Loaded(disk[n], m).adapter \in {m.adapter, disk[n].adapter, ZeroAdapter}
    BY <2>1 DEF Loaded, Model
  <2> QED BY <1>1, <1>2, <2>2 DEF FactorsSound
<1>3. ZeroIfNoFactor(model'.adapter)
  <2>1. CASE TrainStep
    <3> DEFINE a == model.adapter.a \/ (moments.a \/ model.adapter.b)
               b == model.adapter.b \/ (moments.b \/ model.adapter.a)
    <3>0. PICK sum : model' = [model EXCEPT !.adapter = [a |-> a, b |-> b, sum |-> sum]]
      BY <2>1 DEF TrainStep
    <3> HIDE DEF a, b
    <3>1. model'.adapter.a = a /\ model'.adapter.b = b
      BY <3>0 DEF TypeOK, Model
    <3> USE DEF a, b
    <3>2. CASE model.adapter.a \/ model.adapter.b \/ moments.a \/ moments.b
      BY <3>1, <3>2 DEF ZeroIfNoFactor
    <3>3. CASE ~(model.adapter.a \/ model.adapter.b \/ moments.a \/ moments.b)
      <4>1. model'.adapter.sum = model.adapter.sum
        BY <2>1, <3>3 DEF TrainStep, TypeOK, Model, Adapter
      <4> QED BY <3>3, <4>1 DEF FactorsSound, ZeroIfNoFactor
    <3> QED BY <3>2, <3>3
  <2>2. CASE Merge
    BY <1>1, <2>2 DEF Merge
  <2>3. CASE Load
    BY <1>2, <2>3 DEF Load, TypeOK, FactorsSound
  <2>4. CASE Boot
    BY <1>1, <1>2, <2>4, InitialTypes, SnapshotBounds DEF Boot
  <2>5. CASE Crash
    BY <1>1, <2>5 DEF Crash
  <2>6. CASE UNCHANGED model
    BY <2>6 DEF FactorsSound
  <2> QED BY <2>1, <2>2, <2>3, <2>4, <2>5, <2>6
          DEF Next, SaveBegins, AutosaveBegins, StartSave, SaveOpens, SaveWrites, SaveFails,
              ShutdownBegins, Exit, memory, vars
<1>4. ASSUME NEW n \in Names PROVE ZeroIfNoFactor(disk'[n].adapter)
  <2>1. CASE SaveOpens
    BY <2>1 DEF SaveOpens, TypeOK, FactorsSound
  <2>2. CASE SaveWrites
    <3>1. disk'[n].adapter = disk[n].adapter
      BY <2>2 DEF SaveWrites, TypeOK
    <3> QED BY <3>1 DEF FactorsSound
  <2>3. CASE UNCHANGED disk
    BY <2>3 DEF FactorsSound
  <2> QED BY <2>1, <2>2, <2>3
          DEF Next, TrainStep, Merge, Load, SaveBegins, AutosaveBegins, StartSave, SaveFails,
              Boot, ShutdownBegins, Exit, Crash, files, vars
<1> QED BY <1>3, <1>4 DEF FactorsSound

LEMMA DrainStep == SnapshotInv /\ [Next]_vars => DrainAddsSteps'
<1> SUFFICES ASSUME SnapshotInv, [Next]_vars, proc' \in {"draining", "stopped"},
                    NEW s \in 1 .. kept'[Autosave].at
             PROVE  Weights(kept'[Autosave].model)[s] = Weights(model')[s]
  BY DEF DrainAddsSteps
<1> USE DEF SnapshotInv, Aux
<1>1. CASE TrainStep
  <2>1. /\ proc \in {"draining", "stopped"} /\ kept' = kept
        /\ model'.live = model.live
        /\ model'.adapter.sum \in {model.adapter.sum, [model.adapter.sum EXCEPT ![steps'] = 1]}
        /\ steps' = steps + 1 /\ steps \in Nat
        /\ model.adapter.sum \in Sum
    BY <1>1, SnapshotBounds DEF TrainStep, files, TypeOK, Model, Adapter
  <2>2. s \in Step /\ s <= steps /\ s # steps'
    <3>1. kept[Autosave].at \in 0 .. MaxSteps /\ kept[Autosave].at <= steps
      BY SnapshotBounds DEF KeptSound, TypeOK
    <3> QED BY <2>1, <3>1, SnapshotBounds DEF Step
  <2>3. model'.adapter.sum[s] = model.adapter.sum[s]
    BY <2>1, <2>2 DEF Sum
  <2>4. Weights(model')[s] = Weights(model)[s]
    BY <2>1, <2>2, <2>3 DEF Weights, Plus
  <2> QED BY <2>1, <2>4 DEF DrainAddsSteps
<1>2. CASE AutosaveBegins
  <2>1. kept'[Autosave].model = model /\ model' = model
    BY <1>2, SnapshotBounds DEF AutosaveBegins, StartSave, TypeOK, memory
  <2> QED BY <2>1
<1>3. CASE UNCHANGED <<model, kept>> /\ proc \in {"draining", "stopped"}
  BY <1>3 DEF DrainAddsSteps
<1> QED BY <1>1, <1>2, <1>3
        DEF Next, Merge, Load, SaveBegins, StartSave, SaveOpens, SaveWrites, SaveFails, Boot,
            ShutdownBegins, Exit, Crash, ForClients, vars, memory, files

LEMMA InitInv == Init => SnapshotInv
<1> SUFFICES ASSUME Init PROVE SnapshotInv
  OBVIOUS
<1>1. FreshModel.live = FreshModel.merged /\ EmptyIfUnbound(FreshModel)
  BY DEF FreshModel, EmptyIfUnbound
<1>2. ModelSound /\ KeptSound
  BY <1>1 DEF Init, ModelSound, KeptSound, ResidualIsLive
<1>3. WholeIsWritten /\ SaveInProgress
  BY DEF Init, WholeIsWritten, SaveInProgress, Idle
<1>4. DrainAddsSteps
  BY SnapshotBounds DEF Init, DrainAddsSteps
<1>5. FactorsSound
  BY DEF Init, FactorsSound, ZeroIfNoFactor, FreshModel, NoFiles, ZeroAdapter
<1> QED BY <1>2, <1>3, <1>4, <1>5, TypeInit DEF SnapshotInv, Aux

\* The inductive invariant holds in every reachable state.
THEOREM SnapshotInvariance == Spec => []SnapshotInv
<1>1. SnapshotInv /\ [Next]_vars => SnapshotInv'
  BY TypeStep, ModelStep, FactorsStep, KeptStep, FilesStep, DrainStep DEF SnapshotInv, Aux
<1> QED BY <1>1, InitInv, PTL DEF Spec

-----------------------------------------------------------------------------
(* Theorems. *)

\* The forward pass always adds the recorded residual (state.py:310-364).
THEOREM ResidualAlwaysLive == Spec => []ResidualIsLive
<1>1. SnapshotInv => ResidualIsLive
  BY DEF SnapshotInv, Aux, ModelSound
<1> QED BY <1>1, SnapshotInvariance, PTL

\* A finished snapshot, unless an older residual lies beside it, restores the
\* model it was taken of into any model (snapshot.py:31-87).
THEOREM SnapshotsRestore == Spec => []SnapshotIsWhole
<1>1. SnapshotInv => SnapshotIsWhole
  BY WholeRestores DEF SnapshotInv, Aux, SnapshotIsWhole, TypeOK
<1> QED BY <1>1, SnapshotInvariance, PTL

\* After a shutdown the autosave holds all that was learned before it
\* (server.py:231-250).
THEOREM ExitKeepsTraining == Spec => []CleanExit
<1>1. SnapshotInv => CleanExit
  <2> SUFFICES ASSUME SnapshotInv, proc = "stopped", Autosave \in whole, ~Stale(Autosave)
               PROVE  \A s \in 1 .. kept[Autosave].at :
                        Weights(Loaded(disk[Autosave], FreshModel))[s] = Weights(model)[s]
    BY DEF CleanExit
  <2>1. Loaded(disk[Autosave], FreshModel) = kept[Autosave].model
    BY WholeRestores, InitialTypes DEF SnapshotInv, Aux
  <2> QED BY <2>1 DEF SnapshotInv, Aux, DrainAddsSteps
<1> QED BY <1>1, SnapshotInvariance, PTL

\* A merge leaves what the model computes as it is (state.py:241-281).
THEOREM MergesKeepWeights == Spec => MergeKeepsWeights
<1>1. SnapshotInv /\ [Next]_vars => [Merge => Weights(model)' = Weights(model)]_vars
  <2> SUFFICES ASSUME SnapshotInv, Merge PROVE Weights(model)' = Weights(model)
    OBVIOUS
  <2>1. /\ model.live = model.merged
        /\ ~model.merged.bound => model.merged = NoDelta
        /\ model.adapter \in Adapter /\ model.merged \in Delta
    BY DEF SnapshotInv, Aux, ModelSound, ResidualIsLive, EmptyIfUnbound, TypeOK, Model
  <2>2. /\ model'.live = Bind(Merged(model), model.live)
        /\ model'.adapter.sum = Zero
    BY DEF Merge, ZeroAdapter
  <2>3. \A s \in Step : model.merged.sum[s] \in Nat /\ model.adapter.sum[s] \in Nat
    BY <2>1 DEF Adapter, Delta, Sum
  <2>4. CASE model.adapter.a \/ model.adapter.b
    <3>1. model'.live.sum = Plus(model.merged.sum, model.adapter.sum)
      BY <2>2, <2>4 DEF Merged, Bind
    <3>2. \A s \in Step : model'.live.sum[s] + Zero[s] = model.live.sum[s] + model.adapter.sum[s]
      BY <2>1, <2>3, <3>1 DEF Plus, Zero
    <3> QED BY <2>2, <3>2 DEF Weights, Plus
  <2>5. CASE ~(model.adapter.a \/ model.adapter.b)
    <3>1. model'.live = model.live
      BY <2>1, <2>2, <2>5 DEF Merged, Bind
    <3>2. model.adapter.sum = Zero
      BY <2>5 DEF SnapshotInv, Aux, FactorsSound, ZeroIfNoFactor
    <3> QED BY <2>2, <3>1, <3>2 DEF Weights
  <2> QED BY <2>4, <2>5
<1> QED BY <1>1, SnapshotInvariance, PTL DEF MergeKeepsWeights, Spec

-----------------------------------------------------------------------------
(* Where the two documented promises hold that the runs refute: what has to  *)
(* be kept out for a restore to be exact and for training to go on.          *)

\* No residual of an earlier save lies beside a snapshot of an unmerged model.
NoneStale == \A n \in Names : ~kept[n].model.merged.bound => disk[n].is["residual"] = "missing"

\* A model without a residual is saved over no older residual.
SavesClean ==
    \A n \in Names : StartSave(n) => model.merged.bound \/ disk[n].is["residual"] = "missing"

\* A residual is written for a model that has one, so only the beginning of a
\* save can make one stale.
LEMMA StaleStep == SnapshotInv /\ [Next]_vars /\ NoneStale /\ (UNCHANGED vars \/ SavesClean) => NoneStale'
<1> SUFFICES ASSUME SnapshotInv, [Next]_vars, NoneStale, UNCHANGED vars \/ SavesClean,
                    NEW n \in Names, ~kept'[n].model.merged.bound
             PROVE  disk'[n].is["residual"] = "missing"
  BY DEF NoneStale
<1> USE DEF SnapshotInv, Aux
<1>1. CASE UNCHANGED <<disk, kept>>
  BY <1>1 DEF NoneStale
<1>2. ASSUME NEW q \in Names, StartSave(q) PROVE disk'[n].is["residual"] = "missing"
  <2>1. disk' = disk /\ kept'[n].model = IF n = q THEN model ELSE kept[n].model
    BY <1>2 DEF StartSave, TypeOK
  <2>2. UNCHANGED vars => kept'[n].model = kept[n].model
    BY DEF vars, files
  <2>3. CASE UNCHANGED vars
    BY <2>1, <2>2, <2>3 DEF NoneStale
  <2>4. CASE SavesClean
    BY <1>2, <2>1, <2>4 DEF NoneStale, SavesClean
  <2> QED BY <2>3, <2>4
<1>3. CASE SaveOpens
  <2>1. ~Idle /\ kept' = kept
    BY <1>3 DEF SaveOpens, Idle, NoSave, File
  <2>2. saving.name = n => saving.file # "residual"
    BY <2>1 DEF SaveInProgress
  <2>3. disk'[n].is["residual"] = disk[n].is["residual"]
    BY <1>3, <2>2 DEF SaveOpens, TypeOK, File
  <2> QED BY <2>1, <2>3 DEF NoneStale
<1>4. CASE SaveWrites
  <2>1. ~Idle /\ kept' = kept
    BY <1>4 DEF SaveWrites, Idle, NoSave, File
  <2>2. saving.name = n => saving.file # "residual"
    BY <2>1 DEF SaveInProgress
  <2>3. disk'[n].is["residual"] = disk[n].is["residual"]
    BY <1>4, <2>2 DEF SaveWrites, TypeOK, File
  <2> QED BY <2>1, <2>3 DEF NoneStale
<1> QED BY <1>1, <1>2, <1>3, <1>4, SnapshotBounds
        DEF Next, TrainStep, Merge, Load, SaveBegins, AutosaveBegins, SaveFails, Boot,
            ShutdownBegins, Exit, Crash, files, vars

\* The documented promise of a snapshot, without exception, in a daemon that
\* never saves an unmerged model over a directory with a residual
\* (snapshot.py:31-51: save writes a residual file but never removes one).
THEOREM RestoresExactlyIfClean == Spec /\ [][SavesClean]_vars => []RestoreIsExact
<1>1. Init => NoneStale
  BY DEF Init, NoneStale, NoFiles, File
<1>2. SnapshotInv /\ [Next]_vars /\ NoneStale /\ [SavesClean]_vars => NoneStale'
  BY StaleStep
<1>3. SnapshotInv /\ NoneStale => RestoreIsExact
  <2> SUFFICES ASSUME SnapshotInv, NoneStale, NEW n \in whole
               PROVE  Loaded(disk[n], model) = kept[n].model
    BY DEF RestoreIsExact
  <2>1. n \in Names /\ model \in Model
    BY DEF SnapshotInv, TypeOK
  <2>2. ~Stale(n)
    BY <2>1 DEF NoneStale, Stale
  <2> QED BY <2>1, <2>2, WholeRestores DEF SnapshotInv, Aux
<1> QED BY <1>1, <1>2, <1>3, SnapshotInvariance, PTL DEF Spec

\* A directory with a manifest and no adapter: a save broke off in between, or
\* has not come that far.
HalfSaved(n) == disk[n].is["manifest"] = "written" /\ disk[n].is["adapter"] = "missing"

\* No merge, and no load of a snapshot that a crash or a full disk cut short.
KeepsFactors == ~Merge /\ (Load \/ Boot => \A n \in Names : ~HalfSaved(n))

\* The factor A is there, in the model and in every adapter on disk.
FactorsAlive ==
    /\ model.adapter.a
    /\ ~model.merged.bound
    /\ \A n \in Names :
         /\ disk[n].is["residual"] = "missing"
         /\ disk[n].is["adapter"] # "missing" => disk[n].adapter.a

\* No adapter has a step in it that is still to come.
NothingAhead ==
    \A s \in Step : s > steps =>
        model.adapter.sum[s] = 0 /\ \A n \in Names : disk[n].adapter.sum[s] = 0

\* What a load leaves of the factors.
LEMMA LoadKeepsFactors ==
    ASSUME SnapshotInv, FactorsAlive, NEW n \in Names, ~HalfSaved(n),
           NEW m \in Model, m.adapter.a, ~m.merged.bound
    PROVE  Loaded(disk[n], m).adapter.a /\ ~Loaded(disk[n], m).merged.bound
<1> DEFINE d == disk[n]
           r == WithResidual(d, m)
<1>1. d.is["residual"] = "missing" /\ (d.is["adapter"] # "missing" => d.adapter.a)
  BY DEF FactorsAlive
<1>2. r.adapter = m.adapter /\ ~r.merged.bound /\ r \in [merged : Delta, live : Delta,
                                  adapter : Adapter, merges : 0 .. MaxMerges]
  BY <1>1, InitialTypes DEF WithResidual, LiveAfterLoad, NoDelta, Model
<1>3. CASE LoadEnds(d)
  <2>1. d.is["adapter"] = "written"
    BY <1>3 DEF LoadEnds, ResidualLoads, HalfSaved, SnapshotInv, TypeOK, File
  <2> QED BY <1>1, <1>2, <1>3, <2>1 DEF Loaded
<1>4. CASE ~LoadEnds(d)
  BY <1>2, <1>4 DEF Loaded
<1> QED BY <1>3, <1>4

LEMMA AliveStep == SnapshotInv /\ [Next /\ KeepsFactors]_vars /\ FactorsAlive => FactorsAlive'
<1> SUFFICES ASSUME SnapshotInv, [Next /\ KeepsFactors]_vars, FactorsAlive PROVE FactorsAlive'
  OBVIOUS
<1> USE DEF SnapshotInv, Aux
<1>1. model'.adapter.a /\ ~model'.merged.bound
  <2>1. CASE TrainStep
    <3>1. model' = [model EXCEPT !.adapter = model'.adapter] /\ model'.adapter.a
      BY <2>1 DEF TrainStep, FactorsAlive, TypeOK, Model
    <3> QED BY <3>1 DEF FactorsAlive, TypeOK, Model
  <2>2. CASE (Load \/ Boot) /\ KeepsFactors
    <3>1. FreshModel.adapter.a /\ ~FreshModel.merged.bound
      BY DEF FreshModel, NoDelta, ZeroAdapter
    <3>2. PICK n \in Names, m \in {model, FreshModel} : model' = Loaded(disk[n], m)
      BY <2>2, SnapshotBounds DEF Load, Boot
    <3>3. ~HalfSaved(n) /\ m \in Model /\ m.adapter.a /\ ~m.merged.bound
      BY <2>2, <3>1, InitialTypes DEF KeepsFactors, FactorsAlive, TypeOK
    <3> QED BY <3>2, <3>3, LoadKeepsFactors
  <2>3. CASE Crash
    BY <2>3 DEF Crash, FreshModel, NoDelta, ZeroAdapter
  <2>4. CASE UNCHANGED model
    BY <2>4 DEF FactorsAlive
  <2> QED BY <2>1, <2>2, <2>3, <2>4
          DEF Next, KeepsFactors, SaveBegins, AutosaveBegins, StartSave, SaveOpens, SaveWrites,
              SaveFails, ShutdownBegins, Exit, memory, vars
<1>2. ASSUME NEW n \in Names
      PROVE  /\ disk'[n].is["residual"] = "missing"
             /\ disk'[n].is["adapter"] # "missing" => disk'[n].adapter.a
  <2>1. CASE SaveOpens \/ SaveWrites
    <3>1. saving.file \in {"manifest", "adapter"}
      BY <2>1 DEF SaveOpens, SaveWrites, SaveInProgress, Idle, NoSave, File, FactorsAlive
    <3>2. disk'[n].is["residual"] = "missing"
      BY <2>1, <3>1 DEF SaveOpens, SaveWrites, FactorsAlive, TypeOK, File
    <3>3. CASE SaveOpens
      BY <3>1, <3>3 DEF SaveOpens, FactorsAlive, TypeOK, File
    <3>4. CASE SaveWrites
      <4>1. /\ disk'[n].adapter = disk[n].adapter
            /\ disk'[n].is["adapter"] # "missing" =>
                 disk[n].is["adapter"] # "missing" \/ (saving.name = n /\ saving.file = "adapter")
        BY <3>1, <3>4 DEF SaveWrites, TypeOK, File
      <4>2. saving.name = n /\ saving.file = "adapter" => disk[n].adapter = model.adapter
        BY <3>4 DEF SaveWrites, SaveInProgress, Idle, NoSave, File, Holds
      <4> QED BY <3>2, <4>1, <4>2 DEF FactorsAlive
    <3> QED BY <2>1, <3>2, <3>3, <3>4
  <2>2. CASE UNCHANGED disk
    BY <2>2 DEF FactorsAlive
  <2> QED BY <2>1, <2>2
          DEF Next, TrainStep, Merge, Load, SaveBegins, AutosaveBegins, StartSave, SaveFails,
              Boot, ShutdownBegins, Exit, Crash, files, vars
<1> QED BY <1>1, <1>2 DEF FactorsAlive

LEMMA AheadStep == SnapshotInv /\ [Next]_vars /\ NothingAhead => NothingAhead'
<1> SUFFICES ASSUME SnapshotInv, [Next]_vars, NothingAhead, NEW s \in Step, s > steps'
             PROVE  model'.adapter.sum[s] = 0 /\ \A n \in Names : disk'[n].adapter.sum[s] = 0
  BY DEF NothingAhead
<1> USE DEF SnapshotInv, Aux
<1>1. steps \in Nat /\ steps' \in Nat /\ s \in Nat /\ steps <= steps'
  BY SnapshotBounds DEF Next, TrainStep, Merge, Load, SaveBegins, AutosaveBegins, StartSave, SaveOpens,
     SaveWrites, SaveFails, Boot, ShutdownBegins, Exit, Crash, TypeOK, vars, Step
<1>2. model.adapter.sum[s] = 0 /\ \A n \in Names : disk[n].adapter.sum[s] = 0
  BY <1>1 DEF NothingAhead
<1>3. ZeroAdapter.sum[s] = 0 /\ FreshModel.adapter.sum[s] = 0
  BY DEF ZeroAdapter, Zero, FreshModel
<1>4. ASSUME NEW n \in Names, NEW m \in Model, m.adapter.sum[s] = 0
      PROVE  Loaded(disk[n], m).adapter.sum[s] = 0
  <2>1. /\ WithResidual(disk[n], m).adapter = m.adapter
        /\ WithResidual(disk[n], m) \in [merged : Delta, live : Delta, adapter : Adapter,
                                         merges : 0 .. MaxMerges]
    <3>1. disk[n].residual \in Sum
      BY DEF TypeOK
    <3> QED BY <3>1, InitialTypes DEF WithResidual, LiveAfterLoad, Model, Delta
  <2>2. Loaded(disk[n], m).adapter \in {m.adapter, disk[n].adapter, ZeroAdapter}
    BY <2>1 DEF Loaded
  <2> QED BY <1>2, <1>3, <1>4, <2>2
<1>5. model'.adapter.sum[s] = 0
  <2>1. CASE TrainStep
    <3>1. model'.adapter.sum \in {model.adapter.sum, [model.adapter.sum EXCEPT ![steps'] = 1]}
      BY <2>1 DEF TrainStep, TypeOK, Model
    <3>2. model.adapter.sum \in Sum /\ s # steps'
      BY <1>1 DEF TypeOK, Model, Adapter
    <3> QED BY <1>2, <3>1, <3>2 DEF Sum
  <2>2. CASE Merge
    BY <1>3, <2>2 DEF Merge
  <2>3. CASE Load \/ Boot
    <3>1. PICK n \in Names, m \in {model, FreshModel} : model' = Loaded(disk[n], m)
      BY <2>3, SnapshotBounds DEF Load, Boot
    <3> QED BY <1>2, <1>3, <1>4, <3>1, InitialTypes DEF TypeOK
  <2>4. CASE Crash
    BY <1>3, <2>4 DEF Crash
  <2>5. CASE UNCHANGED model
    BY <1>2, <2>5
  <2> QED BY <2>1, <2>2, <2>3, <2>4, <2>5
          DEF Next, SaveBegins, AutosaveBegins, StartSave, SaveOpens, SaveWrites,
              SaveFails, ShutdownBegins, Exit, memory, vars
<1>6. ASSUME NEW n \in Names PROVE disk'[n].adapter.sum[s] = 0
  <2>1. CASE SaveOpens \/ SaveWrites
    <3>1. disk'[n].adapter \in {disk[n].adapter, model.adapter}
      BY <2>1 DEF SaveOpens, SaveWrites, TypeOK
    <3> QED BY <1>2, <3>1
  <2>2. CASE UNCHANGED disk
    BY <1>2, <2>2
  <2> QED BY <2>1, <2>2
          DEF Next, TrainStep, Merge, Load, SaveBegins, AutosaveBegins, StartSave, SaveFails,
              Boot, ShutdownBegins, Exit, Crash, files, vars
<1> QED BY <1>5, <1>6

\* Every train step moves the weights in a daemon that merges nothing and loads
\* no snapshot that broke off, whatever else it saves, loads, fails or restarts:
\* a merge (state.py:241-281) and such a load (snapshot.py:64-87) are all that
\* can leave an adapter without a gradient.
THEOREM TrainingGoesOnUnmerged == Spec /\ [][KeepsFactors]_vars => TrainingContinues
<1>1. Init => FactorsAlive /\ NothingAhead
  BY DEF Init, FactorsAlive, NothingAhead, FreshModel, NoFiles, ZeroAdapter, Zero, NoDelta, File
<1>2. SnapshotInv /\ [Next]_vars /\ [KeepsFactors]_vars /\ FactorsAlive /\ NothingAhead
        => (FactorsAlive /\ NothingAhead)'
  BY AliveStep, AheadStep
<1>3. SnapshotInv /\ FactorsAlive /\ NothingAhead
        => [TrainStep => Weights(model)' # Weights(model)]_vars
  <2> SUFFICES ASSUME SnapshotInv, FactorsAlive, NothingAhead, TrainStep
               PROVE  Weights(model)' # Weights(model)
    OBVIOUS
  <2>1. /\ steps' = steps + 1 /\ steps' \in Step /\ steps \in Nat
        /\ model.adapter.sum \in Sum /\ model.live \in Delta /\ model \in Model
    BY SnapshotBounds DEF TrainStep, Step, SnapshotInv, TypeOK, Model, Adapter
  <2>2. model'.adapter.sum = [model.adapter.sum EXCEPT ![steps'] = 1] /\ model'.live = model.live
    BY <2>1 DEF TrainStep, FactorsAlive, Model
  <2>3. model.adapter.sum[steps'] = 0
    BY <2>1 DEF NothingAhead
  <2>4. model'.adapter.sum[steps'] = 1
    BY <2>1, <2>2 DEF Sum
  <2>5. model.live.sum[steps'] \in Nat
    BY <2>1 DEF Delta, Sum
  <2>6. /\ Weights(model)[steps'] = model.live.sum[steps'] + 0
        /\ Weights(model)'[steps'] = model.live.sum[steps'] + 1
    BY <2>1, <2>2, <2>3, <2>4 DEF Weights, Plus
  <2> QED BY <2>5, <2>6
<1> QED BY <1>1, <1>2, <1>3, SnapshotInvariance, PTL DEF Spec, TrainingContinues
=============================================================================
