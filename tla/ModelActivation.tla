-------------------------- MODULE ModelActivation --------------------------
(***************************************************************************)
(* The edge model store (modelstore/store.go) and the activation manager   *)
(* above it (modelactivation/manager.go).                                  *)
(*                                                                         *)
(* The store keeps a model and its metadata in each of three directories.  *)
(* A call of the store is a job: a list of file replacements made one at a *)
(* time under the store's mutex.  safeWriteReplace removes the old file    *)
(* and then renames the new one into place, so that a job is interrupted   *)
(* between any two of these steps by a crash, and a replacement that fails *)
(* leaves the old file or none.  The manager's Activate and Rollback make  *)
(* two or three such calls under their own mutex, ignore their errors, and *)
(* switch the model that serves inference at the end.                      *)
(*                                                                         *)
(* Metadata is known by the model whose checksum it carries.  Artifacts    *)
(* that fail validation change nothing and are left out; so are failed     *)
(* reads, which act as failed writes of the same call.                     *)
(***************************************************************************)
EXTENDS Integers, Sequences

CONSTANTS
  Models,         \* valid artifacts, by identity and checksum
  NoModel,        \* no file, or a nil snapshot
  Version(_),     \* the model_id and model_version of an artifact
  InitialModels,  \* what ManagerConfig.InitialManifest may be
  MaxStarts,      \* bound: stops or crashes, each followed by NewManager
  MaxFaults,      \* bound: file replacements that fail
  MaxClears       \* bound: calls of ClearCandidate and ClearPrevious

ASSUME ActivationAssumption ==
  /\ NoModel \notin Models
  /\ InitialModels \subseteq Models
  /\ {MaxStarts, MaxFaults, MaxClears} \subseteq Nat

VARIABLES
  disk,      \* the files of candidate/, active/ and previous/
  job,       \* the replacements the store call under way has still to make
  writer,    \* who made that call: the manager, or another caller
  mem,       \* DefaultManager.active (with its detector) and .previous
  pc, target,  \* the activation or rollback under way, the model it installs
  staged,    \* the model StageModel last answered to have staged
  starts, faults, clears

storeVars == <<disk, job, writer>>
managerVars == <<mem, pc, target>>
countVars == <<starts, faults, clears>>
vars == <<storeVars, managerVars, staged, countVars>>

Dirs == {"candidate", "active", "previous"}
Parts == {"model", "meta"}
Files == Models \cup {NoModel}

Write(dir, part, file, must) ==
  [dir |-> dir, part |-> part, file |-> file, must |-> must]
IfPresent(dir, file) ==
  IF file = NoModel THEN <<>> ELSE <<Write(dir, "meta", file, FALSE)>>

Unlocked == job = <<>>
Call(who, writes) ==
  /\ Unlocked
  /\ job' = writes
  /\ writer' = IF writes = <<>> THEN "none" ELSE who
  /\ UNCHANGED disk

(* Variant: the mutex is not released.                                     *)
ContinueHolding(rest) == job' = rest /\ UNCHANGED writer

(* The mutex is released with the last replacement.                        *)
Continue(rest) ==
  /\ job' = rest
  /\ writer' = IF rest = <<>> THEN "none" ELSE writer

Nothing == [active |-> NoModel, previous |-> NoModel]

Init ==
  /\ disk = [d \in Dirs |-> [p \in Parts |-> NoModel]]
  /\ job = <<>> /\ writer = "none"
  /\ mem = Nothing
  /\ pc = "idle" /\ target = NoModel
  /\ staged = NoModel
  /\ starts = 0 /\ faults = 0 /\ clears = 0

-----------------------------------------------------------------------------
(* safeWriteReplace.                                                       *)
Remove ==
  /\ ~Unlocked
  /\ disk[Head(job).dir][Head(job).part] # NoModel
  /\ disk' = [disk EXCEPT ![Head(job).dir][Head(job).part] = NoModel]
  /\ UNCHANGED <<job, writer, managerVars, staged, countVars>>

(* The rename.  The last one of StageModel makes it answer success.        *)
Rename ==
  /\ ~Unlocked
  /\ disk[Head(job).dir][Head(job).part] = NoModel
  /\ disk' = [disk EXCEPT ![Head(job).dir][Head(job).part] = Head(job).file]
  /\ Continue(Tail(job))
  /\ staged' = IF Head(job).dir = "candidate" /\ Len(job) = 1
                 THEN Head(job).file ELSE staged
  /\ UNCHANGED <<managerVars, countVars>>

(* An error before the removal or at the rename.  It ends the call, except *)
(* where the store ignores it.                                             *)
FailWrite ==
  /\ ~Unlocked
  /\ faults < MaxFaults /\ faults' = faults + 1
  /\ Continue(IF Head(job).must THEN <<>> ELSE Tail(job))
  /\ UNCHANGED <<disk, managerVars, staged, starts, clears>>

-----------------------------------------------------------------------------
(* readCandidateManifest.                                                  *)
Existing == disk["candidate"].model

(* StageModel of a valid artifact: the staged one again, or a replacement. *)
(* One with the staged one's version and another checksum is refused.      *)
StageAgain(m) ==
  /\ Unlocked
  /\ Existing = m
  /\ staged' = m
  /\ UNCHANGED <<storeVars, managerVars, countVars>>

StageJob(m) == <<Write("candidate", "model", m, TRUE),
                 Write("candidate", "meta", m, TRUE)>>

StageModel(m) ==
  /\ Existing # NoModel => Version(Existing) # Version(m)
  /\ Call("caller", StageJob(m))
  /\ staged' = NoModel
  /\ UNCHANGED <<managerVars, countVars>>

(* ClearCandidate and ClearPrevious, their errors ignored.                 *)
Clear(dir) ==
  /\ clears < MaxClears /\ clears' = clears + 1
  /\ Call("caller", <<Write(dir, "model", NoModel, FALSE),
                      Write(dir, "meta", NoModel, FALSE)>>)
  /\ UNCHANGED <<managerVars, staged, starts, faults>>

-----------------------------------------------------------------------------
(* GetCandidate, and GetActive and GetPrevious by readStoredModel.  Without *)
(* metadata on disk they make it from the manifest.                        *)
Candidate == disk["candidate"].model
Stored(dir) == disk[dir].model
Agrees(dir) == disk[dir].meta \in {NoModel, disk[dir].model}

(* Variant: the active model is not rotated first.                         *)
SaveFirst == "save"

FirstCall == IF mem.active = NoModel THEN "save" ELSE "rotate"

(* Activate up to the construction of the detector.  Requests that are     *)
(* refused, or find the candidate already active, change no state here.    *)
Activate ==
  /\ pc = "idle" /\ Unlocked
  /\ Candidate # NoModel
  /\ Agrees("candidate")
  /\ mem.active # NoModel => Version(mem.active) # Version(Candidate)
  /\ target' = Candidate
  /\ pc' = FirstCall
  /\ UNCHANGED <<storeVars, mem, staged, countVars>>

(* Variant: only the model is rotated.                                     *)
RotateModelOnly ==
  IF disk["active"].model = NoModel THEN <<>>
  ELSE <<Write("previous", "model", disk["active"].model, TRUE)>>

RotateJob ==
  LET active == disk["active"] IN
  IF active.model = NoModel THEN <<>>
  ELSE <<Write("previous", "model", active.model, TRUE)>>
         \o IfPresent("previous", active.meta)

RotateActiveToPrevious ==
  /\ pc = "rotate"
  /\ Call("manager", RotateJob)
  /\ pc' = "save"
  /\ UNCHANGED <<mem, target, staged, countVars>>

SaveJob(m) == <<Write("active", "model", m, TRUE),
                Write("active", "meta", m, TRUE)>>

SaveActive ==
  /\ pc = "save"
  /\ Call("manager", SaveJob(target))
  /\ pc' = "switch"
  /\ UNCHANGED <<mem, target, staged, countVars>>

(* Variant: the model replaced is not retained.                            *)
RetainedBefore == mem.previous

Retained == IF mem.active = NoModel THEN mem.previous ELSE mem.active

(* Whatever became of the two calls, the candidate now serves.             *)
Switch ==
  /\ pc = "switch" /\ writer # "manager"
  /\ mem' = [active |-> target, previous |-> Retained]
  /\ pc' = "idle" /\ target' = NoModel
  /\ UNCHANGED <<storeVars, staged, countVars>>

-----------------------------------------------------------------------------
(* Rollback up to the construction of the detector.  The model is the one  *)
(* in previous/, the one in memory only when there is none.                *)
PreviousStored ==
  IF Stored("previous") = NoModel THEN mem.previous ELSE Stored("previous")

Rollback ==
  /\ pc = "idle" /\ Unlocked
  /\ mem.previous # NoModel
  /\ Stored("previous") = NoModel \/ Agrees("previous")
  /\ PreviousStored # mem.active
  /\ target' = PreviousStored
  /\ pc' = "swap"
  /\ UNCHANGED <<storeVars, mem, staged, countVars>>

(* Variant: previous/ keeps the model that is brought back.                *)
SwapOneWay ==
  IF NoModel \in {disk["active"].model, disk["previous"].model} THEN <<>>
  ELSE <<Write("active", "model", disk["previous"].model, TRUE)>>
         \o IfPresent("active", disk["previous"].meta)

SwapJob ==
  LET a == disk["active"]
      p == disk["previous"]
  IN IF NoModel \in {a.model, p.model} THEN <<>>
     ELSE <<Write("active", "model", p.model, TRUE)>>
            \o IfPresent("active", p.meta)
            \o <<Write("previous", "model", a.model, TRUE)>>
            \o IfPresent("previous", a.meta)

SwapActiveAndPrevious ==
  /\ pc = "swap"
  /\ Call("manager", SwapJob)
  /\ pc' = "exchange"
  /\ UNCHANGED <<mem, target, staged, countVars>>

Exchange ==
  /\ pc = "exchange" /\ writer # "manager"
  /\ mem' = [active |-> target, previous |-> mem.active]
  /\ pc' = "idle" /\ target' = NoModel
  /\ UNCHANGED <<storeVars, staged, countVars>>

-----------------------------------------------------------------------------
(* recoverFromStore: without a model in active/ it restores nothing.       *)
Recovered ==
  IF Stored("active") = NoModel THEN Nothing
  ELSE [active |-> Stored("active"), previous |-> Stored("previous")]

(* A stop or a crash at any point, and NewManager: with an initial         *)
(* manifest, which it saves over the one in active/, or from the store.    *)
Start(initial) ==
  /\ starts < MaxStarts /\ starts' = starts + 1
  /\ pc' = "idle" /\ target' = NoModel
  /\ IF initial = NoModel
       THEN mem' = Recovered /\ job' = <<>> /\ writer' = "none"
       ELSE /\ mem' = [active |-> initial, previous |-> NoModel]
            /\ job' = SaveJob(initial) /\ writer' = "manager"
  /\ UNCHANGED <<disk, staged, faults, clears>>

-----------------------------------------------------------------------------
Next ==
  \/ Remove \/ Rename \/ FailWrite
  \/ \E m \in Models : StageAgain(m) \/ StageModel(m)
  \/ \E dir \in {"candidate", "previous"} : Clear(dir)
  \/ Activate \/ RotateActiveToPrevious \/ SaveActive \/ Switch
  \/ Rollback \/ SwapActiveAndPrevious \/ Exchange
  \/ \E initial \in InitialModels \cup {NoModel} : Start(initial)

Spec == Init /\ [][Next]_vars

-----------------------------------------------------------------------------
(* The shape of the state.                                                 *)
ActivationTypeOK ==
  /\ disk \in [Dirs -> [Parts -> Files]]
  /\ job \in Seq([dir : Dirs, part : Parts, file : Files, must : BOOLEAN])
  /\ writer \in {"none", "caller", "manager"}
  /\ writer = "none" <=> job = <<>>
  /\ mem \in [{"active", "previous"} -> Files]
  /\ pc \in {"idle", "rotate", "save", "switch", "swap", "exchange"}
  /\ target \in Files
  /\ staged \in Files
  /\ starts \in 0 .. MaxStarts /\ faults \in 0 .. MaxFaults
  /\ clears \in 0 .. MaxClears

AtRest == pc = "idle" /\ writer # "manager"
Undisturbed == faults = 0 /\ clears = 0
AnyModel == {Stored("active"), Stored("previous")} # {NoModel}

(* As long as no replacement failed and previous/ was not cleared, what    *)
(* serves inference is what a restart would load, and so is the model a    *)
(* rollback would return to: the calls whose errors Activate and Rollback  *)
(* ignore keep active/ and previous/ in step with memory, crashes between  *)
(* any two file operations included.                                       *)
DiskMirrorsMemory ==
  AtRest /\ Undisturbed =>
    /\ Stored("active") = mem.active
    /\ mem.previous # NoModel => Stored("previous") = mem.previous

(* An activation or a rollback that finds a model in active/ or previous/  *)
(* leaves one there at every moment, wherever a crash interrupts it.  Only *)
(* an initial manifest is saved over the sole model on disk.               *)
AModelSurvives ==
  [][AnyModel /\ Undisturbed /\ pc # "idle" => AnyModel']_vars

(* What a rollback installs is the model that served before the active     *)
(* one, and the one it replaces is what the next rollback returns to.      *)
RestoringStep ==
  pc = "exchange" /\ pc' = "idle" /\ starts' = starts
    => mem' = [active |-> mem.previous, previous |-> mem.active]

(* As long as no replacement failed and previous/ was not cleared, every   *)
(* rollback exchanges the active model and its predecessor.                *)
RollbackExchanges == [][Undisturbed => RestoringStep]_vars

(* Without failed replacements and crashes, the metadata beside a model    *)
(* never makes Rollback refuse the model it retained, or Activate a        *)
(* candidate that StageModel answered to have staged.                      *)
MetadataNeverBlocks ==
  Unlocked /\ faults = 0 /\ starts = 0 =>
    /\ AtRest /\ mem.previous # NoModel =>
         Stored("previous") = NoModel \/ Agrees("previous")
    /\ staged # NoModel /\ staged = Candidate => Agrees("candidate")

=============================================================================
