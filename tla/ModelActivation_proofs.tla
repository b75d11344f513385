----------------------- MODULE ModelActivation_proofs -----------------------
(***************************************************************************)
(* Theorems about ModelActivation, for every set of models and versions    *)
(* and any number of crashes, failed replacements and clears.              *)
(*                                                                         *)
(* A call's replacements are made one at a time, so the inductive          *)
(* invariant speaks of what each file is once the call under way is done:  *)
(* Ends.  The steps of safeWriteReplace keep it; only the calls, a failed  *)
(* replacement and a crash change it.                                      *)
(***************************************************************************)
EXTENDS ModelActivation, SequenceTheorems, TLAPS

WriteRecord == [dir : Dirs, part : Parts, file : Files, must : BOOLEAN]

(* The job is to replace the file part of dir, by f.                       *)
Replaces(i, dir, part) == job[i].dir = dir /\ job[i].part = part

(* What the file is once the job is done.                                  *)
Ends(dir, part, f) ==
  \/ \E i \in 1 .. Len(job) : Replaces(i, dir, part) /\ job[i].file = f
  \/ /\ \A i \in 1 .. Len(job) : ~Replaces(i, dir, part)
     /\ disk[dir][part] = f

EachOnce ==
  \A i, j \in 1 .. Len(job) :
    Replaces(i, job[j].dir, job[j].part) => i = j

ControlInv ==
  /\ pc # "idle" => target \in Models
  /\ mem.active = NoModel => mem.previous = NoModel
  /\ EachOnce
  /\ writer = "caller" /\ clears = 0 =>
       \A i \in 1 .. Len(job) : job[i].dir = "candidate"
  /\ pc = "rotate" => mem.active # NoModel
  /\ writer = "manager" => pc \notin {"rotate", "swap"}
  /\ writer = "manager" /\ pc = "save" => mem.active # NoModel

EndsAs(active, previous) ==
  /\ Ends("active", "model", active)
  /\ previous # NoModel => Ends("previous", "model", previous)

FilesFollow ==
  Undisturbed =>
    /\ pc \in {"idle", "rotate", "swap"} => EndsAs(mem.active, mem.previous)
    /\ pc = "save" => EndsAs(mem.active, mem.active)
    /\ pc = "switch" => EndsAs(target, Retained)
    /\ pc = "exchange" => EndsAs(target, mem.active)
    /\ pc \in {"swap", "exchange"} => target = mem.previous

ActiveFirst ==
  Undisturbed /\ pc # "idle" /\ writer = "manager" =>
    \A i \in 1 .. Len(job) : Replaces(i, "active", "model") =>
      i = 1 /\ (Stored("previous") # NoModel \/ Stored("active") = NoModel)

Paired ==
  starts = 0 /\ faults = 0 =>
    \A dir \in Dirs : \E m \in Files :
      Ends(dir, "model", m) /\ (m # NoModel => Ends(dir, "meta", m))

(* The metadata never blocks because each file pair ends with the metadata *)
(* of its model; FilesFollow is what makes memory's promises come true.    *)
ActivationInv ==
  /\ ActivationTypeOK
  /\ ControlInv
  /\ FilesFollow
  /\ ActiveFirst
  /\ Paired

USE ActivationAssumption

-----------------------------------------------------------------------------
(* Without a job under way the files are what they end as.                 *)
LEMMA EndsUnlocked ==
  ASSUME job = <<>>, NEW dir, NEW part, NEW f
  PROVE  Ends(dir, part, f) <=> disk[dir][part] = f
  BY DEF Ends

(* A file that the job does not replace is what it ends as.                *)
LEMMA EndsUntouched ==
  ASSUME NEW dir, NEW part, NEW f, Ends(dir, part, f),
         \A i \in 1 .. Len(job) : ~Replaces(i, dir, part)
  PROVE  disk[dir][part] = f
  BY DEF Ends

(* A file ends in one way.                                                 *)
LEMMA EndsOnce ==
  ASSUME EachOnce, NEW dir, NEW part, NEW f, NEW g,
         Ends(dir, part, f), Ends(dir, part, g)
  PROVE  f = g
  BY DEF Ends, EachOnce, Replaces

(* A caller's StageModel does not touch active/ and previous/.             *)
LEMMA CallerEnds ==
  ASSUME ControlInv, writer # "manager", ActivationTypeOK, clears = 0,
         NEW dir \in Dirs, dir # "candidate", NEW part, NEW f, Ends(dir, part, f)
  PROVE  disk[dir][part] = f
<1>1. CASE writer = "none"
  BY <1>1, EndsUnlocked DEF ActivationTypeOK
<1>2. CASE writer = "caller"
  BY <1>2 DEF Ends, ControlInv, Replaces
<1> QED
  BY <1>1, <1>2 DEF ActivationTypeOK

-----------------------------------------------------------------------------
(* The two steps of a replacement keep what the files end as.              *)
LEMMA HeadFacts ==
  ASSUME ActivationTypeOK, ~Unlocked
  PROVE  /\ Len(job) \in Nat \ {0} /\ Head(job) = job[1]
         /\ job[1] \in WriteRecord
         /\ Len(Tail(job)) = Len(job) - 1
         /\ \A i \in 1 .. Len(job) - 1 : Tail(job)[i] = job[i + 1]
         /\ Tail(job) \in Seq(WriteRecord)
         /\ \A i \in 1 .. Len(job) : job[i] \in WriteRecord
<1>1. job \in Seq(WriteRecord) /\ job # <<>>
  BY DEF ActivationTypeOK, Unlocked, WriteRecord
<1> QED
  BY <1>1

LEMMA RemoveEnds ==
  ASSUME ActivationTypeOK, Remove, NEW dir \in Dirs, NEW part \in Parts, NEW f,
         Ends(dir, part, f)
  PROVE  Ends(dir, part, f)'
<1>1. /\ job' = job /\ ~Unlocked
      /\ disk' = [disk EXCEPT ![job[1].dir][job[1].part] = NoModel]
  BY HeadFacts DEF Remove
<1>2. CASE \E i \in 1 .. Len(job) : Replaces(i, dir, part) /\ job[i].file = f
  BY <1>1, <1>2 DEF Ends, Replaces
<1>3. CASE (\A i \in 1 .. Len(job) : ~Replaces(i, dir, part)) /\ disk[dir][part] = f
  <2>1. ~Replaces(1, dir, part)
    BY <1>1, <1>3, HeadFacts
  <2>2. disk'[dir][part] = disk[dir][part]
    BY <1>1, <2>1, HeadFacts DEF Replaces, ActivationTypeOK
  <2> QED
    BY <1>1, <1>3, <2>2 DEF Ends, Replaces
<1> QED
  BY <1>2, <1>3 DEF Ends

LEMMA RenameEnds ==
  ASSUME ActivationTypeOK, EachOnce, Rename,
         NEW dir \in Dirs, NEW part \in Parts, NEW f, Ends(dir, part, f)
  PROVE  Ends(dir, part, f)'
<1>1. /\ job' = Tail(job) /\ ~Unlocked
      /\ disk' = [disk EXCEPT ![job[1].dir][job[1].part] = job[1].file]
  BY HeadFacts DEF Rename, Continue
<1>2. /\ job[1].dir \in Dirs /\ job[1].part \in Parts
      /\ 1 \in 1 .. Len(job)
  BY <1>1, HeadFacts DEF WriteRecord
<1>3. /\ Len(job') = Len(job) - 1
      /\ \A i \in 1 .. Len(job') : i + 1 \in 1 .. Len(job) /\ job'[i] = job[i + 1]
  BY <1>1, HeadFacts
<1>4. CASE Replaces(1, dir, part) /\ job[1].file = f
  <2>1. disk'[dir][part] = f
    BY <1>1, <1>2, <1>4 DEF Replaces, ActivationTypeOK
  <2>2. \A i \in 1 .. Len(job') : ~(job'[i].dir = dir /\ job'[i].part = part)
    <3> SUFFICES ASSUME NEW i \in 1 .. Len(job'), job'[i].dir = dir, job'[i].part = part
                 PROVE  FALSE
      OBVIOUS
    <3>1. i + 1 \in 1 .. Len(job) /\ Replaces(i + 1, job[1].dir, job[1].part)
      BY <1>3, <1>4 DEF Replaces
    <3>2. i + 1 = 1
      BY <1>2, <3>1 DEF EachOnce
    <3> QED
      BY <3>2
  <2> QED
    BY <2>1, <2>2 DEF Ends, Replaces
<1>5. CASE \E i \in 2 .. Len(job) : Replaces(i, dir, part) /\ job[i].file = f
  <2>1. PICK i \in 2 .. Len(job) : Replaces(i, dir, part) /\ job[i].file = f
    BY <1>5
  <2>2. i - 1 \in 1 .. Len(job') /\ job'[i - 1] = job[i]
    BY <1>3, HeadFacts, <1>1
  <2> QED
    BY <2>1, <2>2 DEF Ends, Replaces
<1>6. CASE (\A i \in 1 .. Len(job) : ~Replaces(i, dir, part)) /\ disk[dir][part] = f
  <2>1. disk'[dir][part] = disk[dir][part]
    BY <1>1, <1>2, <1>6 DEF Replaces, ActivationTypeOK
  <2> QED
    BY <1>3, <1>6, <2>1 DEF Ends, Replaces
<1>7. \A i \in 1 .. Len(job) : i = 1 \/ i \in 2 .. Len(job)
  BY <1>1, HeadFacts
<1> QED
  BY <1>4, <1>5, <1>6, <1>7 DEF Ends

-----------------------------------------------------------------------------
LEMMA InitInv == Init => ActivationInv
<1> SUFFICES ASSUME Init PROVE ActivationInv
  OBVIOUS
<1>1. ActivationTypeOK
  BY DEF Init, ActivationTypeOK, Files, Nothing
<1>2. ControlInv
  BY DEF Init, ControlInv, EachOnce, Nothing
<1>3. \A dir \in Dirs, part \in Parts : Ends(dir, part, NoModel)
  BY EndsUnlocked DEF Init
<1>4. FilesFollow
  BY <1>3 DEF Init, FilesFollow, EndsAs, Nothing, Dirs, Parts
<1>5. ActiveFirst
  BY DEF Init, ActiveFirst
<1>6. Paired
  BY <1>3 DEF Paired, Files, Parts
<1> QED
  BY <1>1, <1>2, <1>4, <1>5, <1>6 DEF ActivationInv

(* A step that leaves the manager alone keeps FilesFollow when it keeps    *)
(* what the models in active/ and previous/ end as, and Paired when it     *)
(* keeps what all files end as.                                            *)
LEMMA FollowKept ==
  ASSUME ActivationTypeOK, FilesFollow, UNCHANGED managerVars,
         Undisturbed' => Undisturbed,
         \A dir \in {"active", "previous"}, f \in Files :
           Ends(dir, "model", f) => Ends(dir, "model", f)'
  PROVE  FilesFollow'
<1>1. mem.active \in Files /\ mem.previous \in Files /\ target \in Files
  BY DEF ActivationTypeOK
<1>2. \A f, g \in Files : EndsAs(f, g) => EndsAs(f, g)'
  BY DEF EndsAs
<1>3. mem' = mem /\ pc' = pc /\ target' = target /\ Retained' = Retained
  BY DEF managerVars, Retained
<1>4. Retained \in Files
  BY <1>1 DEF Retained
<1> SUFFICES ASSUME Undisturbed' PROVE FilesFollow'
  BY DEF FilesFollow
<1>5. pc \in {"idle", "rotate", "swap"} => EndsAs(mem.active, mem.previous)'
  BY <1>1, <1>2, <1>3 DEF FilesFollow
<1>6. pc = "save" => EndsAs(mem.active, mem.active)'
  BY <1>1, <1>2, <1>3 DEF FilesFollow
<1>7. pc = "switch" => EndsAs(target, Retained)'
  BY <1>1, <1>2, <1>3, <1>4 DEF FilesFollow
<1>8. pc = "exchange" => EndsAs(target, mem.active)'
  BY <1>1, <1>2, <1>3 DEF FilesFollow
<1>9. pc \in {"swap", "exchange"} => target = mem.previous
  BY DEF FilesFollow
<1> QED
  BY <1>3, <1>5, <1>6, <1>7, <1>8, <1>9 DEF FilesFollow

LEMMA PairedKept ==
  ASSUME Paired, starts' = starts, faults' = faults,
         \A dir \in Dirs, part \in Parts, f \in Files :
           Ends(dir, part, f) => Ends(dir, part, f)'
  PROVE  Paired'
<1> SUFFICES ASSUME starts' = 0, faults' = 0, NEW dir \in Dirs
             PROVE  \E m \in Files :
                      Ends(dir, "model", m)' /\ (m # NoModel => Ends(dir, "meta", m)')
  BY DEF Paired
<1>1. PICK m \in Files : Ends(dir, "model", m) /\ (m # NoModel => Ends(dir, "meta", m))
  BY DEF Paired
<1> QED
  BY <1>1 DEF Parts

LEMMA EndsKept ==
  ASSUME ActivationTypeOK, FilesFollow, Paired,
         UNCHANGED <<managerVars, countVars>>,
         \A dir \in Dirs, part \in Parts, f \in Files :
           Ends(dir, part, f) => Ends(dir, part, f)'
  PROVE  FilesFollow' /\ Paired'
<1>1. Undisturbed' = Undisturbed /\ starts' = starts /\ faults' = faults
  BY DEF Undisturbed, countVars
<1>2. \A dir \in {"active", "previous"}, f \in Files :
        Ends(dir, "model", f) => Ends(dir, "model", f)'
  BY DEF Dirs, Parts
<1>3. FilesFollow'
  BY <1>1, <1>2, FollowKept
<1> QED
  BY <1>1, <1>3, PairedKept

(* A job that loses its first replacement, or the rest of its work.        *)
LEMMA ShrinkControl ==
  ASSUME ActivationTypeOK, ControlInv, ~Unlocked,
         job' \in {<<>>, Tail(job)},
         writer' = IF job' = <<>> THEN "none" ELSE writer,
         UNCHANGED managerVars, clears' = clears
  PROVE  /\ ControlInv'
         /\ job' \in Seq(WriteRecord)
         /\ writer' \in {"none", "caller", "manager"}
         /\ writer' = "none" <=> job' = <<>>
<1>1. /\ \A i \in 1 .. Len(job') : i + 1 \in 1 .. Len(job) /\ job'[i] = job[i + 1]
      /\ job' \in Seq(WriteRecord)
  <2>1. CASE job' = <<>>
    BY <2>1
  <2>2. CASE job' = Tail(job)
    BY <2>2, HeadFacts
  <2> QED
    BY <2>1, <2>2
<1>2. EachOnce'
  <2> SUFFICES ASSUME NEW i \in 1 .. Len(job'), NEW j \in 1 .. Len(job'),
                      job'[i].dir = job'[j].dir, job'[i].part = job'[j].part
               PROVE  i = j
    BY DEF EachOnce, Replaces
  <2>1. EachOnce
    BY DEF ControlInv
  <2>2. i + 1 = j + 1
    BY <1>1, <2>1 DEF EachOnce, Replaces
  <2> QED
    BY <2>2
<1>3. writer' = "caller" /\ clears' = 0 =>
        \A i \in 1 .. Len(job') : job'[i].dir = "candidate"
  BY <1>1 DEF ControlInv
<1>4. writer' \in {writer, "none"} /\ writer # "none"
  BY DEF ActivationTypeOK, Unlocked
<1>5. ControlInv'
  BY <1>2, <1>3, <1>4 DEF ControlInv, managerVars
<1> QED
  BY <1>1, <1>4, <1>5 DEF ActivationTypeOK

LEMMA RemoveInv ==
  ASSUME ActivationInv, Remove
  PROVE  ActivationInv'
<1>1. ActivationTypeOK /\ ControlInv
  BY DEF ActivationInv
<1>2. /\ job' = job /\ writer' = writer /\ ~Unlocked
      /\ disk' = [disk EXCEPT ![job[1].dir][job[1].part] = NoModel]
      /\ UNCHANGED <<managerVars, staged, countVars>>
  BY <1>1, HeadFacts DEF Remove
<1>3. job[1].dir \in Dirs /\ job[1].part \in Parts
  BY <1>1, <1>2, HeadFacts DEF WriteRecord
<1>4. ActivationTypeOK'
  <2>1. disk' \in [Dirs -> [Parts -> Files]]
    BY <1>1, <1>2, <1>3 DEF ActivationTypeOK, Files
  <2> QED
    BY <1>1, <1>2, <2>1 DEF ActivationTypeOK, managerVars, countVars
<1>5. ControlInv'
  BY <1>1, <1>2 DEF ControlInv, EachOnce, Replaces, managerVars, countVars
<1>6. FilesFollow' /\ Paired'
  BY <1>1, <1>2, RemoveEnds, EndsKept DEF ActivationInv
<1>7. ActiveFirst'
  <2> SUFFICES ASSUME Undisturbed', pc' # "idle", writer' = "manager",
                      NEW i \in 1 .. Len(job'), job'[i].dir = "active", job'[i].part = "model"
               PROVE  i = 1 /\ Stored("active")' = NoModel
    BY DEF ActiveFirst, Replaces
  <2>1. i = 1
    BY <1>2 DEF ActivationInv, ActiveFirst, Replaces, Undisturbed, managerVars, countVars
  <2>2. disk'["active"]["model"] = NoModel
    BY <1>1, <1>2, <1>3, <2>1 DEF ActivationTypeOK
  <2> QED
    BY <2>1, <2>2 DEF Stored
<1> QED
  BY <1>4, <1>5, <1>6, <1>7 DEF ActivationInv

LEMMA RenameInv ==
  ASSUME ActivationInv, Rename
  PROVE  ActivationInv'
<1>1. ActivationTypeOK /\ ControlInv /\ EachOnce
  BY DEF ActivationInv, ControlInv
<1>2. /\ job' = Tail(job) /\ ~Unlocked
      /\ writer' = IF job' = <<>> THEN "none" ELSE writer
      /\ disk' = [disk EXCEPT ![job[1].dir][job[1].part] = job[1].file]
      /\ staged' \in {staged, job[1].file}
      /\ UNCHANGED <<managerVars, countVars>>
  BY <1>1, HeadFacts DEF Rename, Continue
<1>3. /\ job[1].dir \in Dirs /\ job[1].part \in Parts /\ job[1].file \in Files
      /\ job' \in Seq(WriteRecord)
  BY <1>1, <1>2, HeadFacts DEF WriteRecord
<1>4. \A i \in 1 .. Len(job') : i + 1 \in 1 .. Len(job) /\ job'[i] = job[i + 1]
  BY <1>1, <1>2, HeadFacts
<1>5. ActivationTypeOK' /\ ControlInv'
  <2>1. disk' \in [Dirs -> [Parts -> Files]]
    BY <1>1, <1>2, <1>3 DEF ActivationTypeOK
  <2>2. /\ ControlInv' /\ writer' \in {"none", "caller", "manager"}
        /\ writer' = "none" <=> job' = <<>>
    BY <1>1, <1>2, ShrinkControl DEF countVars
  <2>3. staged' \in Files
    BY <1>1, <1>2, <1>3 DEF ActivationTypeOK
  <2> QED
    BY <1>1, <1>2, <1>3, <2>1, <2>2, <2>3
    DEF ActivationTypeOK, managerVars, countVars, WriteRecord
<1>6. FilesFollow' /\ Paired'
  BY <1>1, <1>2, RenameEnds, EndsKept DEF ActivationInv
<1>7. ActiveFirst'
  <2> SUFFICES ASSUME Undisturbed', pc' # "idle", writer' = "manager",
                      NEW i \in 1 .. Len(job'), job'[i].dir = "active", job'[i].part = "model"
               PROVE  FALSE
    BY DEF ActiveFirst, Replaces
  <2>1. Undisturbed /\ pc # "idle" /\ writer = "manager"
    BY <1>2 DEF Undisturbed, managerVars, countVars
  <2>2. i + 1 = 1
    BY <1>4, <2>1 DEF ActivationInv, ActiveFirst, Replaces
  <2> QED
    BY <2>2
<1> QED
  BY <1>5, <1>6, <1>7 DEF ActivationInv

LEMMA FailWriteInv ==
  ASSUME ActivationInv, FailWrite
  PROVE  ActivationInv'
<1>1. /\ ActivationTypeOK /\ ControlInv /\ ~Unlocked
      /\ job' \in {<<>>, Tail(job)}
      /\ writer' = IF job' = <<>> THEN "none" ELSE writer
      /\ UNCHANGED <<disk, managerVars, staged, starts, clears>>
      /\ faults < MaxFaults /\ faults' = faults + 1
  BY DEF ActivationInv, FailWrite, Continue
<1>2. /\ ControlInv' /\ job' \in Seq(WriteRecord)
      /\ writer' \in {"none", "caller", "manager"}
      /\ writer' = "none" <=> job' = <<>>
  BY <1>1, ShrinkControl
<1>3. faults' \in 0 .. MaxFaults /\ faults' # 0
  BY <1>1 DEF ActivationTypeOK
<1>4. ActivationTypeOK'
  BY <1>1, <1>2, <1>3 DEF ActivationTypeOK, WriteRecord, managerVars
<1>5. FilesFollow' /\ ActiveFirst' /\ Paired'
  BY <1>3 DEF FilesFollow, ActiveFirst, Paired, Undisturbed
<1> QED
  BY <1>2, <1>4, <1>5 DEF ActivationInv

-----------------------------------------------------------------------------
(* A call that replaces the model and the metadata of one directory.       *)
LEMMA BothReplaced ==
  ASSUME NEW dir \in Dirs, NEW f \in Files, NEW must \in BOOLEAN,
         job' = <<Write(dir, "model", f, must), Write(dir, "meta", f, must)>>,
         disk' = disk
  PROVE  /\ job' \in Seq(WriteRecord) /\ job' # <<>>
         /\ EachOnce'
         /\ \A i \in 1 .. Len(job') : job'[i].dir = dir /\ (job'[i].part = "model" => i = 1)
         /\ Ends(dir, "model", f)' /\ Ends(dir, "meta", f)'
         /\ \A other \in Dirs \ {dir}, part \in Parts :
              Ends(other, part, disk[other][part])'
<1>1. /\ Len(job') = 2 /\ job' # <<>>
      /\ job'[1] = Write(dir, "model", f, must) /\ job'[2] = Write(dir, "meta", f, must)
  OBVIOUS
<1>2. /\ job'[1] \in WriteRecord /\ job'[2] \in WriteRecord
      /\ job'[1].dir = dir /\ job'[1].part = "model" /\ job'[1].file = f
      /\ job'[2].dir = dir /\ job'[2].part = "meta" /\ job'[2].file = f
  BY <1>1 DEF Write, WriteRecord, Parts
<1>3. job' \in Seq(WriteRecord)
  BY <1>1, <1>2
<1>4. \A i \in 1 .. Len(job') : i = 1 \/ i = 2
  BY <1>1
<1>5. EachOnce'
  BY <1>2, <1>4 DEF EachOnce, Replaces
<1>6. Ends(dir, "model", f)' /\ Ends(dir, "meta", f)'
  BY <1>1, <1>2 DEF Ends, Replaces
<1>7. ASSUME NEW other \in Dirs \ {dir}, NEW part \in Parts
      PROVE  Ends(other, part, disk[other][part])'
  BY <1>2, <1>4 DEF Ends, Replaces
<1> QED
  BY <1>1, <1>2, <1>3, <1>4, <1>5, <1>6, <1>7

(* Such a call pairs the files of its directory and leaves the others.     *)
LEMMA BothPaired ==
  ASSUME ActivationTypeOK, Paired, Unlocked, starts' = starts, faults' = faults,
         NEW dir \in Dirs, NEW f \in Files, NEW must \in BOOLEAN,
         job' = <<Write(dir, "model", f, must), Write(dir, "meta", f, must)>>,
         disk' = disk
  PROVE  Paired'
<1> SUFFICES ASSUME starts' = 0, faults' = 0, NEW d \in Dirs
             PROVE  \E m \in Files :
                      Ends(d, "model", m)' /\ (m # NoModel => Ends(d, "meta", m)')
  BY DEF Paired
<1>1. CASE d = dir
  BY <1>1, BothReplaced
<1>2. CASE d # dir
  <2>1. PICK m \in Files : Ends(d, "model", m) /\ (m # NoModel => Ends(d, "meta", m))
    BY DEF Paired
  <2>2. disk[d]["model"] = m /\ (m # NoModel => disk[d]["meta"] = m)
    BY <2>1, EndsUnlocked DEF Unlocked
  <2>3. /\ Ends(d, "model", disk[d]["model"])'
        /\ Ends(d, "meta", disk[d]["meta"])'
    BY <1>2, BothReplaced DEF Parts
  <2>4. Ends(d, "model", m)' /\ (m # NoModel => Ends(d, "meta", m)')
    BY <2>2, <2>3
  <2> QED
    BY <2>4
<1> QED
  BY <1>1, <1>2

LEMMA StageAgainInv ==
  ASSUME ActivationInv, NEW m \in Models, StageAgain(m)
  PROVE  ActivationInv'
<1>1. /\ UNCHANGED <<disk, job, writer, managerVars, countVars>>
      /\ staged' = m /\ m \in Files
  BY DEF StageAgain, storeVars, Files
<1>2. ActivationTypeOK' /\ ControlInv'
  BY <1>1 DEF ActivationInv, ActivationTypeOK, ControlInv, EachOnce, Replaces,
     managerVars, countVars
<1>3. \A dir \in Dirs, part \in Parts, f \in Files :
        Ends(dir, part, f) => Ends(dir, part, f)'
  BY <1>1 DEF Ends, Replaces
<1>4. FilesFollow' /\ Paired'
  BY <1>1, <1>3, EndsKept DEF ActivationInv
<1>5. ActiveFirst'
  BY <1>1 DEF ActivationInv, ActiveFirst, Undisturbed, Replaces, Stored, managerVars, countVars
<1> QED
  BY <1>2, <1>4, <1>5 DEF ActivationInv

LEMMA StageModelInv ==
  ASSUME ActivationInv, NEW m \in Models, StageModel(m)
  PROVE  ActivationInv'
<1>1. /\ ActivationTypeOK /\ ControlInv /\ Unlocked /\ m \in Files
      /\ "candidate" \in Dirs /\ TRUE \in BOOLEAN
      /\ job' = <<Write("candidate", "model", m, TRUE), Write("candidate", "meta", m, TRUE)>>
      /\ disk' = disk
  BY DEF ActivationInv, StageModel, Call, StageJob, Files, Dirs
<1>2. /\ job' \in Seq(WriteRecord) /\ job' # <<>> /\ EachOnce'
      /\ \A i \in 1 .. Len(job') : job'[i].dir = "candidate"
  BY <1>1, BothReplaced
<1>3. /\ writer' = "caller" /\ staged' = NoModel
      /\ UNCHANGED <<managerVars, countVars>>
  BY <1>1, <1>2 DEF StageModel, Call, StageJob
<1>4. ActivationTypeOK'
  BY <1>1, <1>2, <1>3 DEF ActivationTypeOK, WriteRecord, managerVars, countVars, Files
<1>5. ControlInv'
  BY <1>1, <1>2, <1>3 DEF ControlInv, managerVars, countVars
<1>6. FilesFollow'
  <2>1. ASSUME NEW dir \in {"active", "previous"}, NEW f \in Files, Ends(dir, "model", f)
        PROVE  Ends(dir, "model", f)'
    <3>1. disk[dir]["model"] = f
      BY <1>1, <2>1, EndsUnlocked DEF Unlocked
    <3>2. Ends(dir, "model", disk[dir]["model"])'
      BY <1>1, BothReplaced DEF Dirs, Parts
    <3> QED
      BY <1>1, <3>1, <3>2
  <2> QED
    BY <1>1, <1>3, <2>1, FollowKept DEF ActivationInv, Undisturbed, countVars
<1>7. Paired'
  BY <1>1, <1>3, BothPaired DEF ActivationInv, countVars
<1>8. ActiveFirst'
  BY <1>3 DEF ActiveFirst
<1> QED
  BY <1>4, <1>5, <1>6, <1>7, <1>8 DEF ActivationInv

LEMMA ClearInv ==
  ASSUME ActivationInv, NEW dir \in {"candidate", "previous"}, Clear(dir)
  PROVE  ActivationInv'
<1>1. /\ ActivationTypeOK /\ ControlInv /\ Unlocked /\ NoModel \in Files
      /\ dir \in Dirs /\ FALSE \in BOOLEAN
      /\ job' = <<Write(dir, "model", NoModel, FALSE), Write(dir, "meta", NoModel, FALSE)>>
      /\ disk' = disk
  BY DEF ActivationInv, Clear, Call, Files, Dirs
<1>2. job' \in Seq(WriteRecord) /\ job' # <<>> /\ EachOnce'
  BY <1>1, BothReplaced
<1>3. /\ writer' = "caller"
      /\ clears < MaxClears /\ clears' = clears + 1
      /\ UNCHANGED <<managerVars, staged, starts, faults>>
  BY <1>1, <1>2 DEF Clear, Call
<1>4. clears' \in 0 .. MaxClears /\ clears' # 0
  BY <1>1, <1>3 DEF ActivationTypeOK
<1>5. ActivationTypeOK'
  BY <1>1, <1>2, <1>3, <1>4 DEF ActivationTypeOK, WriteRecord, managerVars
<1>6. ControlInv'
  BY <1>1, <1>2, <1>3, <1>4 DEF ControlInv, managerVars
<1>7. FilesFollow' /\ ActiveFirst'
  BY <1>4 DEF FilesFollow, ActiveFirst, Undisturbed
<1>8. Paired'
  BY <1>1, <1>3, BothPaired DEF ActivationInv
<1> QED
  BY <1>5, <1>6, <1>7, <1>8 DEF ActivationInv

-----------------------------------------------------------------------------
(* Steps of the manager that leave the store alone.                        *)
LEMMA ManagerOnly ==
  ASSUME ActivationInv, UNCHANGED <<storeVars, staged, countVars>>
  PROVE  /\ ActivationTypeOK' <=>
              /\ mem' \in [{"active", "previous"} -> Files]
              /\ pc' \in {"idle", "rotate", "save", "switch", "swap", "exchange"}
              /\ target' \in Files
         /\ EachOnce'
         /\ writer' = "caller" /\ clears' = 0 =>
              \A i \in 1 .. Len(job') : job'[i].dir = "candidate"
         /\ Paired'
         /\ \A dir, part, f : Ends(dir, part, f) => Ends(dir, part, f)'
<1>1. UNCHANGED <<disk, job, writer, staged, starts, faults, clears>>
  BY DEF storeVars, countVars
<1>2. \A dir, part, f : Ends(dir, part, f) => Ends(dir, part, f)'
  BY <1>1 DEF Ends, Replaces
<1>3. Paired'
  BY <1>1, <1>2, PairedKept DEF ActivationInv
<1> QED
  BY <1>1, <1>2, <1>3 DEF ActivationInv, ActivationTypeOK, ControlInv, EachOnce, Replaces

LEMMA ActivateInv ==
  ASSUME ActivationInv, Activate
  PROVE  ActivationInv'
<1>1. /\ pc = "idle" /\ Unlocked /\ Candidate # NoModel
      /\ target' = Candidate /\ mem' = mem
      /\ pc' = IF mem.active = NoModel THEN "save" ELSE "rotate"
      /\ UNCHANGED <<storeVars, staged, countVars>>
      /\ ActivationTypeOK /\ ControlInv
  BY DEF Activate, FirstCall, ActivationInv
<1>2. target' \in Models
  BY <1>1 DEF Candidate, ActivationTypeOK, Dirs, Parts, Files
<1>3. writer' = "none" /\ writer = "none"
  BY <1>1 DEF ActivationTypeOK, Unlocked, storeVars
<1>4. ActivationTypeOK'
  BY <1>1, <1>2, ManagerOnly DEF ActivationTypeOK, Files
<1>5. ControlInv'
  BY <1>1, <1>2, <1>3, ManagerOnly DEF ControlInv
<1>6. FilesFollow'
  <2> SUFFICES ASSUME Undisturbed'
               PROVE  /\ EndsAs(mem.active, mem.previous)'
                      /\ pc' = "save" => EndsAs(mem.active, mem.active)'
    BY <1>1 DEF FilesFollow
  <2>1. Ends("active", "model", mem.active)
    BY <1>1 DEF FilesFollow, ActivationInv, Undisturbed, countVars, EndsAs
  <2>2. mem.previous # NoModel => Ends("previous", "model", mem.previous)
    BY <1>1 DEF FilesFollow, ActivationInv, Undisturbed, countVars, EndsAs
  <2>3. Ends("active", "model", mem.active)'
    BY <1>1, <2>1, ManagerOnly
  <2>4. mem.previous # NoModel => Ends("previous", "model", mem.previous)'
    BY <1>1, <2>2, ManagerOnly
  <2> QED
    BY <1>1, <2>3, <2>4 DEF EndsAs
<1>7. ActiveFirst'
  BY <1>3 DEF ActiveFirst
<1>8. Paired'
  BY <1>1, ManagerOnly
<1> QED
  BY <1>4, <1>5, <1>6, <1>7, <1>8 DEF ActivationInv

-----------------------------------------------------------------------------
LEMMA ConcatNone == ASSUME NEW x PROVE <<x>> \o <<>> = <<x>>
  OBVIOUS

LEMMA ConcatOne == ASSUME NEW x, NEW y PROVE <<x>> \o <<y>> = <<x, y>>
<1> DEFINE s == <<x>> \o <<y>>
<1>1. <<x>> \in Seq({x, y}) /\ <<y>> \in Seq({x, y}) /\ <<x, y>> \in Seq({x, y})
  OBVIOUS
<1>2. s \in Seq({x, y}) /\ Len(s) = 2 /\ s[1] = x /\ s[2] = y
  BY <1>1
<1>3. Len(<<x, y>>) = 2 /\ <<x, y>>[1] = x /\ <<x, y>>[2] = y
  OBVIOUS
<1> HIDE DEF s
<1>4. \A i \in 1 .. Len(s) : s[i] = <<x, y>>[i]
  <2>1. \A i \in 1 .. 2 : i = 1 \/ i = 2
    OBVIOUS
  <2> QED
    BY <1>2, <1>3, <2>1
<1>5. Len(s) = Len(<<x, y>>)
  BY <1>2, <1>3
<1>6. s = <<x, y>>
  BY <1>1, <1>2, <1>4, <1>5, SeqEqual
<1> QED
  BY <1>6 DEF s

(* RotateActiveToPrevious replaces files of previous/ only, the model      *)
(* first and the metadata if the active model has some.                    *)
LEMMA RotateFacts ==
  ASSUME Unlocked, job' = RotateJob, disk' = disk,
         NEW m \in Files, NEW t \in Files,
         disk["active"].model = m, disk["active"].meta = t
  PROVE  /\ job' \in Seq(WriteRecord) /\ EachOnce'
         /\ \A i \in 1 .. Len(job') : job'[i].dir = "previous"
         /\ m # NoModel =>
              /\ Ends("previous", "model", m)'
              /\ t # NoModel => Ends("previous", "meta", t)'
         /\ m = NoModel => job' = <<>>
         /\ \A dir \in Dirs \ {"previous"} : \A part, f :
              disk[dir][part] = f => Ends(dir, part, f)'
<1>1. \A dir \in Dirs \ {"previous"} : \A part, f :
        (\A i \in 1 .. Len(job') : job'[i].dir = "previous") /\ disk[dir][part] = f
          => Ends(dir, part, f)'
  BY DEF Ends, Replaces
<1> DEFINE w == Write("previous", "model", m, TRUE)
<1> DEFINE v == Write("previous", "meta", t, FALSE)
<1>2. /\ w \in WriteRecord /\ w.dir = "previous" /\ w.part = "model" /\ w.file = m
      /\ v \in WriteRecord /\ v.dir = "previous" /\ v.part = "meta" /\ v.file = t
  <2>1. /\ "previous" \in Dirs /\ "model" \in Parts /\ "meta" \in Parts
        /\ TRUE \in BOOLEAN /\ FALSE \in BOOLEAN
    BY DEF Dirs, Parts
  <2> QED
    BY <2>1 DEF Write, WriteRecord
<1> HIDE DEF w, v
<1>3. CASE m = NoModel
  <2>1. job' = <<>>
    BY <1>3 DEF RotateJob
  <2> QED
    BY <1>1, <1>3, <2>1 DEF EachOnce
<1>4. CASE m # NoModel /\ t = NoModel
  <2>1. job' = <<w>>
    BY <1>4, ConcatNone DEF RotateJob, IfPresent, w
  <2>2. /\ Len(job') = 1 /\ job'[1] = w
        /\ \A i \in 1 .. Len(job') : i = 1
    BY <2>1
  <2>3. job' \in Seq(WriteRecord)
    BY <1>2, <2>1
  <2>4. EachOnce'
    BY <2>2 DEF EachOnce
  <2>5. Ends("previous", "model", m)'
    BY <1>2, <2>2 DEF Ends, Replaces
  <2>6. \A i \in 1 .. Len(job') : job'[i].dir = "previous"
    BY <1>2, <2>2
  <2> QED
    BY <1>1, <1>4, <2>3, <2>4, <2>5, <2>6
<1>5. CASE m # NoModel /\ t # NoModel
  <2>1. job' = <<w, v>>
    BY <1>5, ConcatOne DEF RotateJob, IfPresent, w, v
  <2>2. /\ Len(job') = 2 /\ job'[1] = w /\ job'[2] = v
        /\ \A i \in 1 .. Len(job') : i = 1 \/ i = 2
    BY <2>1
  <2>3. job' \in Seq(WriteRecord)
    BY <1>2, <2>1
  <2>4. EachOnce'
    BY <1>2, <2>2 DEF EachOnce, Replaces
  <2>5. Ends("previous", "model", m)' /\ Ends("previous", "meta", t)'
    BY <1>2, <2>2 DEF Ends, Replaces
  <2>6. \A i \in 1 .. Len(job') : job'[i].dir = "previous"
    BY <1>2, <2>2
  <2> QED
    BY <1>1, <1>5, <2>3, <2>4, <2>5, <2>6
<1> QED
  BY <1>3, <1>4, <1>5

(* What Paired says when no job is under way.                              *)
LEMMA PairedUnlocked ==
  ASSUME Paired, Unlocked, starts = 0, faults = 0, NEW dir \in Dirs
  PROVE  disk[dir]["model"] # NoModel => disk[dir]["meta"] = disk[dir]["model"]
<1>1. PICK m \in Files : Ends(dir, "model", m) /\ (m # NoModel => Ends(dir, "meta", m))
  BY DEF Paired
<1> QED
  BY <1>1, EndsUnlocked DEF Unlocked

(* A file pair that is paired and not touched.                             *)
LEMMA PairUntouched ==
  ASSUME ActivationTypeOK, Paired, Unlocked, starts = 0, faults = 0, NEW dir \in Dirs,
         \A part, f : disk[dir][part] = f => Ends(dir, part, f)'
  PROVE  \E m \in Files : Ends(dir, "model", m)' /\ (m # NoModel => Ends(dir, "meta", m)')
<1>1. PICK m \in Files : m = disk[dir]["model"]
  BY DEF ActivationTypeOK, Parts
<1>2. m # NoModel => disk[dir]["meta"] = m
  BY <1>1, PairedUnlocked
<1> QED
  BY <1>1, <1>2

LEMMA RotateInv ==
  ASSUME ActivationInv, RotateActiveToPrevious
  PROVE  ActivationInv'
<1>1. /\ pc = "rotate" /\ pc' = "save" /\ Unlocked
      /\ job' = RotateJob /\ disk' = disk
      /\ writer' = IF job' = <<>> THEN "none" ELSE "manager"
      /\ UNCHANGED <<mem, target, staged, countVars>>
      /\ ActivationTypeOK /\ ControlInv
  BY DEF RotateActiveToPrevious, Call, ActivationInv
<1> PICK m \in Files, t \in Files : disk["active"].model = m /\ disk["active"].meta = t
  BY <1>1 DEF ActivationTypeOK, Dirs, Parts
<1>2. /\ job' \in Seq(WriteRecord) /\ EachOnce'
      /\ \A i \in 1 .. Len(job') : job'[i].dir = "previous"
      /\ m # NoModel =>
              /\ Ends("previous", "model", m)'
              /\ t # NoModel => Ends("previous", "meta", t)'
      /\ m = NoModel => job' = <<>>
      /\ \A dir \in Dirs \ {"previous"} : \A part, f :
              disk[dir][part] = f => Ends(dir, part, f)'
  BY <1>1, RotateFacts
<1>3. ActivationTypeOK'
  BY <1>1, <1>2 DEF ActivationTypeOK, WriteRecord, countVars
<1>4. ControlInv'
  BY <1>1, <1>2 DEF ControlInv
<1>5. FilesFollow'
  <2> SUFFICES ASSUME Undisturbed' PROVE EndsAs(mem.active, mem.active)'
    BY <1>1 DEF FilesFollow
  <2>1. Ends("active", "model", mem.active) /\ mem.active # NoModel
    BY <1>1 DEF FilesFollow, ActivationInv, Undisturbed, countVars, EndsAs, ControlInv
  <2>2. m = mem.active
    BY <1>1, <2>1, EndsUnlocked DEF Unlocked
  <2>3. Ends("previous", "model", m)' /\ Ends("active", "model", m)'
    BY <1>2, <2>1, <2>2 DEF Dirs
  <2> QED
    BY <1>1, <2>2, <2>3 DEF EndsAs
<1>6. ActiveFirst'
  BY <1>2 DEF ActiveFirst, Replaces
<1>7. Paired'
  <2> SUFFICES ASSUME starts' = 0, faults' = 0, NEW d \in Dirs
               PROVE  \E f \in Files :
                        Ends(d, "model", f)' /\ (f # NoModel => Ends(d, "meta", f)')
    BY DEF Paired
  <2>1. Paired /\ starts = 0 /\ faults = 0
    BY <1>1 DEF ActivationInv, countVars
  <2>2. CASE m = NoModel \/ d # "previous"
    <3>1. \A part, f : disk[d][part] = f => Ends(d, part, f)'
      <4>1. CASE m = NoModel
        BY <1>1, <1>2, <4>1 DEF Ends
      <4>2. CASE d # "previous"
        BY <1>2, <4>2
      <4> QED
        BY <2>2, <4>1, <4>2
    <3> QED
      BY <1>1, <2>1, <3>1, PairUntouched
  <2>3. CASE m # NoModel /\ d = "previous"
    <3>1. t = m
      BY <1>1, <2>1, <2>3, PairedUnlocked DEF Dirs
    <3> QED
      BY <1>2, <2>3, <3>1
  <2> QED
    BY <2>2, <2>3
<1> QED
  BY <1>3, <1>4, <1>5, <1>6, <1>7 DEF ActivationInv

-----------------------------------------------------------------------------
LEMMA ConcatTwo == ASSUME NEW x, NEW y, NEW z PROVE <<x, y>> \o <<z>> = <<x, y, z>>
<1> DEFINE S == {x, y, z}
<1> DEFINE s == <<x, y>> \o <<z>>
<1>1. <<x, y>> \in Seq(S) /\ <<z>> \in Seq(S) /\ <<x, y, z>> \in Seq(S)
  OBVIOUS
<1>2. s \in Seq(S) /\ Len(s) = 3 /\ s[1] = x /\ s[2] = y /\ s[3] = z
  BY <1>1
<1>3. /\ Len(<<x, y, z>>) = 3
      /\ <<x, y, z>>[1] = x /\ <<x, y, z>>[2] = y /\ <<x, y, z>>[3] = z
  OBVIOUS
<1> HIDE DEF s
<1>4. \A i \in 1 .. Len(s) : s[i] = <<x, y, z>>[i]
  <2>1. \A i \in 1 .. 3 : i = 1 \/ i = 2 \/ i = 3
    OBVIOUS
  <2> QED
    BY <1>2, <1>3, <2>1
<1>5. Len(s) = Len(<<x, y, z>>)
  BY <1>2, <1>3
<1>6. s = <<x, y, z>>
  BY <1>1, <1>2, <1>4, <1>5, SeqEqual
<1> QED
  BY <1>6 DEF s

LEMMA ConcatThree ==
  ASSUME NEW x, NEW y, NEW z, NEW u
  PROVE  <<x, y, z>> \o <<u>> = <<x, y, z, u>>
<1> DEFINE S == {x, y, z, u}
<1> DEFINE s == <<x, y, z>> \o <<u>>
<1>1. <<x, y, z>> \in Seq(S) /\ <<u>> \in Seq(S) /\ <<x, y, z, u>> \in Seq(S)
  OBVIOUS
<1>2. s \in Seq(S) /\ Len(s) = 4 /\ s[1] = x /\ s[2] = y /\ s[3] = z /\ s[4] = u
  BY <1>1
<1>3. /\ Len(<<x, y, z, u>>) = 4
      /\ <<x, y, z, u>>[1] = x /\ <<x, y, z, u>>[2] = y
      /\ <<x, y, z, u>>[3] = z /\ <<x, y, z, u>>[4] = u
  OBVIOUS
<1> HIDE DEF s
<1>4. \A i \in 1 .. Len(s) : s[i] = <<x, y, z, u>>[i]
  <2>1. \A i \in 1 .. 4 : i = 1 \/ i = 2 \/ i = 3 \/ i = 4
    OBVIOUS
  <2> QED
    BY <1>2, <1>3, <2>1
<1>5. Len(s) = Len(<<x, y, z, u>>)
  BY <1>2, <1>3
<1>6. s = <<x, y, z, u>>
  BY <1>1, <1>2, <1>4, <1>5, SeqEqual
<1> QED
  BY <1>6 DEF s

LEMMA ConcatNothing == ASSUME NEW x, NEW y PROVE <<x, y>> \o <<>> = <<x, y>>
<1>1. <<x, y>> \in Seq({x, y})
  OBVIOUS
<1> QED
  BY <1>1, ConcatEmptySeq

LEMMA ConcatNothing3 ==
  ASSUME NEW x, NEW y, NEW z
  PROVE  <<x, y, z>> \o <<>> = <<x, y, z>>
<1>1. <<x, y, z>> \in Seq({x, y, z})
  OBVIOUS
<1> QED
  BY <1>1, ConcatEmptySeq

(* SwapActiveAndPrevious replaces the model of active/ first; a metadata   *)
(* file that is missing is not replaced.                                   *)
LEMMA SwapFacts ==
  ASSUME Unlocked, job' = SwapJob, disk' = disk,
         NEW a \in Files, NEW ta \in Files, NEW p \in Files, NEW tp \in Files,
         disk["active"].model = a, disk["active"].meta = ta,
         disk["previous"].model = p, disk["previous"].meta = tp
  PROVE  /\ job' \in Seq(WriteRecord) /\ EachOnce'
         /\ \A i \in 1 .. Len(job') :
              /\ job'[i].dir # "candidate"
              /\ job'[i].dir = "active" /\ job'[i].part = "model" => i = 1
         /\ NoModel \in {a, p} => job' = <<>>
         /\ NoModel \notin {a, p} =>
              /\ Ends("active", "model", p)' /\ Ends("previous", "model", a)'
              /\ tp # NoModel => Ends("active", "meta", tp)'
              /\ ta # NoModel => Ends("previous", "meta", ta)'
<1> DEFINE w1 == Write("active", "model", p, TRUE)
<1> DEFINE w2 == Write("active", "meta", tp, FALSE)
<1> DEFINE w3 == Write("previous", "model", a, TRUE)
<1> DEFINE w4 == Write("previous", "meta", ta, FALSE)
<1>1. "active" \in Dirs /\ "previous" \in Dirs /\ "model" \in Parts /\ "meta" \in Parts
  BY DEF Dirs, Parts
<1>2. /\ w1 \in WriteRecord /\ w1.dir = "active" /\ w1.part = "model" /\ w1.file = p
      /\ w2 \in WriteRecord /\ w2.dir = "active" /\ w2.part = "meta" /\ w2.file = tp
      /\ w3 \in WriteRecord /\ w3.dir = "previous" /\ w3.part = "model" /\ w3.file = a
      /\ w4 \in WriteRecord /\ w4.dir = "previous" /\ w4.part = "meta" /\ w4.file = ta
  BY <1>1 DEF Write, WriteRecord
<1>3. CASE NoModel \in {a, p}
  <2>1. job' = <<>>
    BY <1>3 DEF SwapJob
  <2> QED
    BY <1>3, <2>1 DEF EachOnce
<1>4. CASE NoModel \notin {a, p}
  <2>1. job' = <<w1>> \o IfPresent("active", tp) \o <<w3>> \o IfPresent("previous", ta)
    BY <1>4 DEF SwapJob
  <2>2. /\ IfPresent("active", tp) = IF tp = NoModel THEN <<>> ELSE <<w2>>
        /\ IfPresent("previous", ta) = IF ta = NoModel THEN <<>> ELSE <<w4>>
    BY DEF IfPresent
  <2> HIDE DEF w1, w2, w3, w4
  <2>3. CASE tp = NoModel /\ ta = NoModel
    <3>1. job' = <<w1, w3>>
      BY <2>1, <2>2, <2>3, ConcatNone, ConcatOne, ConcatNothing
    <3>2. Len(job') = 2 /\ job'[1] = w1 /\ job'[2] = w3
      BY <3>1
    <3>3. \A i \in 1 .. Len(job') : i \in {1, 2}
      BY <3>2
    <3>4. job' \in Seq(WriteRecord)
      BY <1>2, <3>1
    <3>5. EachOnce'
      BY <1>2, <3>2, <3>3 DEF EachOnce, Replaces
    <3>6. Ends("active", "model", p)' /\ Ends("previous", "model", a)'
      BY <1>2, <3>2 DEF Ends, Replaces
    <3>7. \A i \in 1 .. Len(job') :
            /\ job'[i].dir # "candidate"
            /\ job'[i].dir = "active" /\ job'[i].part = "model" => i = 1
      BY <1>2, <3>2, <3>3
    <3> QED
      BY <1>4, <2>3, <3>4, <3>5, <3>6, <3>7
  <2>4. CASE tp # NoModel /\ ta = NoModel
    <3>1. job' = <<w1, w2, w3>>
      <4>1. job' = <<w1>> \o <<w2>> \o <<w3>> \o <<>>
        BY <2>1, <2>2, <2>4
      <4>2. <<w1>> \o <<w2>> = <<w1, w2>>
        BY ConcatOne
      <4>3. <<w1, w2>> \o <<w3>> = <<w1, w2, w3>>
        BY ConcatTwo
      <4>4. <<w1, w2, w3>> \o <<>> = <<w1, w2, w3>>
        BY ConcatNothing3
      <4> QED
        BY <4>1, <4>2, <4>3, <4>4
    <3>2. Len(job') = 3 /\ job'[1] = w1 /\ job'[2] = w2 /\ job'[3] = w3
      BY <3>1
    <3>3. \A i \in 1 .. Len(job') : i \in {1, 2, 3}
      BY <3>2
    <3>4. job' \in Seq(WriteRecord)
      BY <1>2, <3>1
    <3>5. EachOnce'
      BY <1>2, <3>2, <3>3 DEF EachOnce, Replaces
    <3>6. /\ Ends("active", "model", p)' /\ Ends("previous", "model", a)'
          /\ Ends("active", "meta", tp)'
      BY <1>2, <3>2 DEF Ends, Replaces
    <3>7. \A i \in 1 .. Len(job') :
            /\ job'[i].dir # "candidate"
            /\ job'[i].dir = "active" /\ job'[i].part = "model" => i = 1
      BY <1>2, <3>2, <3>3
    <3> QED
      BY <1>4, <2>4, <3>4, <3>5, <3>6, <3>7
  <2>5. CASE tp = NoModel /\ ta # NoModel
    <3>1. job' = <<w1, w3, w4>>
      <4>1. job' = <<w1>> \o <<>> \o <<w3>> \o <<w4>>
        BY <2>1, <2>2, <2>5
      <4>2. <<w1>> \o <<>> = <<w1>>
        BY ConcatNone
      <4>3. <<w1>> \o <<w3>> = <<w1, w3>>
        BY ConcatOne
      <4>4. <<w1, w3>> \o <<w4>> = <<w1, w3, w4>>
        BY ConcatTwo
      <4> QED
        BY <4>1, <4>2, <4>3, <4>4
    <3>2. Len(job') = 3 /\ job'[1] = w1 /\ job'[2] = w3 /\ job'[3] = w4
      BY <3>1
    <3>3. \A i \in 1 .. Len(job') : i \in {1, 2, 3}
      BY <3>2
    <3>4. job' \in Seq(WriteRecord)
      BY <1>2, <3>1
    <3>5. EachOnce'
      BY <1>2, <3>2, <3>3 DEF EachOnce, Replaces
    <3>6. /\ Ends("active", "model", p)' /\ Ends("previous", "model", a)'
          /\ Ends("previous", "meta", ta)'
      BY <1>2, <3>2 DEF Ends, Replaces
    <3>7. \A i \in 1 .. Len(job') :
            /\ job'[i].dir # "candidate"
            /\ job'[i].dir = "active" /\ job'[i].part = "model" => i = 1
      BY <1>2, <3>2, <3>3
    <3> QED
      BY <1>4, <2>5, <3>4, <3>5, <3>6, <3>7
  <2>6. CASE tp # NoModel /\ ta # NoModel
    <3>1. job' = <<w1, w2, w3, w4>>
      <4>1. job' = <<w1>> \o <<w2>> \o <<w3>> \o <<w4>>
        BY <2>1, <2>2, <2>6
      <4>2. <<w1>> \o <<w2>> = <<w1, w2>>
        BY ConcatOne
      <4>3. <<w1, w2>> \o <<w3>> = <<w1, w2, w3>>
        BY ConcatTwo
      <4>4. <<w1, w2, w3>> \o <<w4>> = <<w1, w2, w3, w4>>
        BY ConcatThree
      <4> QED
        BY <4>1, <4>2, <4>3, <4>4
    <3>2. Len(job') = 4 /\ job'[1] = w1 /\ job'[2] = w2 /\ job'[3] = w3 /\ job'[4] = w4
      BY <3>1
    <3>3. \A i \in 1 .. Len(job') : i \in {1, 2, 3, 4}
      BY <3>2
    <3>4. job' \in Seq(WriteRecord)
      BY <1>2, <3>1
    <3>5. EachOnce'
      BY <1>2, <3>2, <3>3 DEF EachOnce, Replaces
    <3>6. /\ Ends("active", "model", p)' /\ Ends("previous", "model", a)'
          /\ Ends("active", "meta", tp)' /\ Ends("previous", "meta", ta)'
      BY <1>2, <3>2 DEF Ends, Replaces
    <3>7. \A i \in 1 .. Len(job') :
            /\ job'[i].dir # "candidate"
            /\ job'[i].dir = "active" /\ job'[i].part = "model" => i = 1
      BY <1>2, <3>2, <3>3
    <3> QED
      BY <1>4, <2>6, <3>4, <3>5, <3>6, <3>7
  <2> QED
    BY <2>3, <2>4, <2>5, <2>6
<1> QED
  BY <1>3, <1>4

LEMMA SaveInv ==
  ASSUME ActivationInv, SaveActive
  PROVE  ActivationInv'
<1>1. /\ pc = "save" /\ pc' = "switch" /\ Unlocked /\ disk' = disk
      /\ job' = <<Write("active", "model", target, TRUE),
                  Write("active", "meta", target, TRUE)>>
      /\ UNCHANGED <<mem, target, staged, countVars>>
      /\ ActivationTypeOK /\ ControlInv
      /\ target \in Models /\ target \in Files /\ "active" \in Dirs /\ TRUE \in BOOLEAN
  BY DEF SaveActive, Call, SaveJob, ActivationInv, ControlInv, Files, Dirs
<1>2. /\ job' \in Seq(WriteRecord) /\ job' # <<>> /\ EachOnce'
      /\ \A i \in 1 .. Len(job') : job'[i].dir = "active" /\ (job'[i].part = "model" => i = 1)
      /\ Ends("active", "model", target)'
  BY <1>1, BothReplaced
<1>3. writer' = "manager"
  BY <1>1, <1>2 DEF SaveActive, Call, SaveJob
<1>4. ActivationTypeOK'
  BY <1>1, <1>2, <1>3 DEF ActivationTypeOK, WriteRecord, countVars
<1>5. ControlInv'
  BY <1>1, <1>2, <1>3 DEF ControlInv
<1>6. ASSUME Undisturbed'
      PROVE  /\ Stored("active") = mem.active
             /\ mem.active # NoModel => Stored("previous") = mem.active
             /\ Retained = mem.active
  <2>1. /\ Ends("active", "model", mem.active)
        /\ mem.active # NoModel => Ends("previous", "model", mem.active)
    BY <1>1, <1>6 DEF FilesFollow, ActivationInv, EndsAs, Undisturbed, countVars
  <2>2. Retained = mem.active
    BY <1>1 DEF Retained, ControlInv
  <2> QED
    BY <1>1, <2>1, <2>2, EndsUnlocked DEF Unlocked, Stored
<1>7. FilesFollow'
  <2> SUFFICES ASSUME Undisturbed'
               PROVE  EndsAs(target, Retained)'
    BY <1>1 DEF FilesFollow
  <2>1. Retained' = mem.active
    BY <1>1, <1>6 DEF Retained
  <2>2. ASSUME mem.active # NoModel PROVE Ends("previous", "model", mem.active)'
    <3>1. Ends("previous", "model", disk["previous"]["model"])'
      BY <1>1, BothReplaced DEF Dirs, Parts
    <3> QED
      BY <1>1, <1>6, <2>2, <3>1 DEF Stored
  <2> QED
    BY <1>1, <1>2, <2>1, <2>2 DEF EndsAs
<1>8. ActiveFirst'
  <2> SUFFICES ASSUME Undisturbed', NEW i \in 1 .. Len(job'), job'[i].part = "model"
               PROVE  i = 1 /\ (Stored("previous") # NoModel \/ Stored("active") = NoModel)
    BY <1>1 DEF ActiveFirst, Replaces, Stored
  <2> QED
    BY <1>2, <1>6
<1>9. Paired'
  BY <1>1, BothPaired DEF ActivationInv, countVars
<1> QED
  BY <1>4, <1>5, <1>7, <1>8, <1>9 DEF ActivationInv

(* The two steps that switch the serving model, at the end of an           *)
(* activation or a rollback.                                               *)
LEMMA SwitchInv ==
  ASSUME ActivationInv, Switch
  PROVE  ActivationInv'
<1>1. /\ pc = "switch" /\ pc' = "idle" /\ target' = NoModel
      /\ mem' = [active |-> target, previous |-> Retained]
      /\ writer # "manager"
      /\ UNCHANGED <<storeVars, staged, countVars>>
      /\ ActivationTypeOK /\ ControlInv /\ target \in Models
  BY DEF Switch, ActivationInv, ControlInv
<1>2. Retained \in Files /\ mem'.active = target /\ mem'.previous = Retained
  BY <1>1 DEF Retained, ActivationTypeOK
<1>3. ActivationTypeOK'
  BY <1>1, <1>2, ManagerOnly DEF Files
<1>4. ControlInv'
  BY <1>1, <1>2, ManagerOnly DEF ControlInv, storeVars
<1>5. FilesFollow'
  <2> SUFFICES ASSUME Undisturbed' PROVE EndsAs(mem.active, mem.previous)'
    BY <1>1 DEF FilesFollow
  <2>1. /\ Ends("active", "model", target)
        /\ Retained # NoModel => Ends("previous", "model", Retained)
    BY <1>1 DEF FilesFollow, ActivationInv, EndsAs, Undisturbed, countVars
  <2>2. PICK f, g : f = target /\ g = Retained
    OBVIOUS
  <2>3. Ends("active", "model", f)' /\ (g # NoModel => Ends("previous", "model", g)')
    BY <1>1, <2>1, <2>2, ManagerOnly
  <2> QED
    BY <1>2, <2>2, <2>3 DEF EndsAs
<1>6. ActiveFirst' /\ Paired'
  BY <1>1, ManagerOnly DEF ActiveFirst
<1> QED
  BY <1>3, <1>4, <1>5, <1>6 DEF ActivationInv

LEMMA ExchangeInv ==
  ASSUME ActivationInv, Exchange
  PROVE  ActivationInv'
<1>1. /\ pc = "exchange" /\ pc' = "idle" /\ target' = NoModel
      /\ mem' = [active |-> target, previous |-> mem.active]
      /\ writer # "manager"
      /\ UNCHANGED <<storeVars, staged, countVars>>
      /\ ActivationTypeOK /\ ControlInv /\ target \in Models
  BY DEF Exchange, ActivationInv, ControlInv
<1>2. mem.active \in Files /\ mem'.active = target /\ mem'.previous = mem.active
  BY <1>1 DEF ActivationTypeOK
<1>3. ActivationTypeOK'
  BY <1>1, <1>2, ManagerOnly DEF Files
<1>4. ControlInv'
  BY <1>1, <1>2, ManagerOnly DEF ControlInv, storeVars
<1>5. FilesFollow'
  <2> SUFFICES ASSUME Undisturbed' PROVE EndsAs(mem.active, mem.previous)'
    BY <1>1 DEF FilesFollow
  <2>1. /\ Ends("active", "model", target)
        /\ mem.active # NoModel => Ends("previous", "model", mem.active)
    BY <1>1 DEF FilesFollow, ActivationInv, EndsAs, Undisturbed, countVars
  <2>2. PICK f, g : f = target /\ g = mem.active
    OBVIOUS
  <2>3. Ends("active", "model", f)' /\ (g # NoModel => Ends("previous", "model", g)')
    BY <1>1, <2>1, <2>2, ManagerOnly
  <2> QED
    BY <1>2, <2>2, <2>3 DEF EndsAs
<1>6. ActiveFirst' /\ Paired'
  BY <1>1, ManagerOnly DEF ActiveFirst
<1> QED
  BY <1>3, <1>4, <1>5, <1>6 DEF ActivationInv

LEMMA RollbackInv ==
  ASSUME ActivationInv, Rollback
  PROVE  ActivationInv'
<1>1. /\ pc = "idle" /\ pc' = "swap" /\ Unlocked /\ mem' = mem
      /\ mem.previous # NoModel /\ target' = PreviousStored
      /\ UNCHANGED <<storeVars, staged, countVars>>
      /\ ActivationTypeOK /\ ControlInv
  BY DEF Rollback, ActivationInv
<1>2. target' \in Models
  BY <1>1 DEF PreviousStored, Stored, ActivationTypeOK, Dirs, Parts, Files
<1>3. writer' = "none"
  BY <1>1 DEF ActivationTypeOK, Unlocked, storeVars
<1>4. ActivationTypeOK'
  BY <1>1, <1>2, ManagerOnly DEF ActivationTypeOK, Files
<1>5. ControlInv'
  BY <1>1, <1>2, <1>3, ManagerOnly DEF ControlInv
<1>6. FilesFollow'
  <2> SUFFICES ASSUME Undisturbed'
               PROVE  EndsAs(mem.active, mem.previous)' /\ target' = mem'.previous
    BY <1>1 DEF FilesFollow
  <2>1. Ends("active", "model", mem.active) /\ Ends("previous", "model", mem.previous)
    BY <1>1 DEF FilesFollow, ActivationInv, Undisturbed, countVars, EndsAs
  <2>2. PICK f, g : f = mem.active /\ g = mem.previous
    OBVIOUS
  <2>3. Ends("active", "model", f)' /\ Ends("previous", "model", g)'
    BY <1>1, <2>1, <2>2, ManagerOnly
  <2>4. Stored("previous") = mem.previous
    BY <1>1, <2>1, EndsUnlocked DEF Unlocked, Stored
  <2> QED
    BY <1>1, <2>2, <2>3, <2>4 DEF EndsAs, PreviousStored
<1>7. ActiveFirst' /\ Paired'
  BY <1>1, <1>3, ManagerOnly DEF ActiveFirst
<1> QED
  BY <1>4, <1>5, <1>6, <1>7 DEF ActivationInv

LEMMA SwapInv ==
  ASSUME ActivationInv, SwapActiveAndPrevious
  PROVE  ActivationInv'
<1>1. /\ pc = "swap" /\ pc' = "exchange" /\ Unlocked
      /\ job' = SwapJob /\ disk' = disk
      /\ writer' = IF job' = <<>> THEN "none" ELSE "manager"
      /\ UNCHANGED <<mem, target, staged, countVars>>
      /\ ActivationTypeOK /\ ControlInv /\ target \in Models
  BY DEF SwapActiveAndPrevious, Call, ActivationInv, ControlInv
<1> PICK a \in Files, ta \in Files, p \in Files, tp \in Files :
      /\ disk["active"].model = a /\ disk["active"].meta = ta
      /\ disk["previous"].model = p /\ disk["previous"].meta = tp
  BY <1>1 DEF ActivationTypeOK, Dirs, Parts
<1>2. /\ job' \in Seq(WriteRecord) /\ EachOnce'
      /\ \A i \in 1 .. Len(job') :
           /\ job'[i].dir # "candidate"
           /\ job'[i].dir = "active" /\ job'[i].part = "model" => i = 1
      /\ NoModel \in {a, p} => job' = <<>>
      /\ NoModel \notin {a, p} =>
           /\ Ends("active", "model", p)' /\ Ends("previous", "model", a)'
           /\ tp # NoModel => Ends("active", "meta", tp)'
           /\ ta # NoModel => Ends("previous", "meta", ta)'
  BY <1>1, SwapFacts
<1>3. ActivationTypeOK'
  BY <1>1, <1>2 DEF ActivationTypeOK, WriteRecord, countVars
<1>4. ControlInv'
  BY <1>1, <1>2 DEF ControlInv
<1>5. ASSUME Undisturbed'
      PROVE  a = mem.active /\ p = target /\ target = mem.previous /\ NoModel \notin {a, p}
  <2>1. Undisturbed
    BY <1>1, <1>5 DEF Undisturbed, countVars
  <2>2. target = mem.previous /\ target # NoModel /\ mem.active # NoModel
    BY <1>1, <2>1 DEF FilesFollow, ActivationInv, ControlInv
  <2>3. Ends("active", "model", mem.active) /\ Ends("previous", "model", mem.previous)
    BY <1>1, <2>1, <2>2 DEF FilesFollow, ActivationInv, EndsAs
  <2> QED
    BY <1>1, <2>2, <2>3, EndsUnlocked DEF Unlocked
<1>6. FilesFollow'
  <2> SUFFICES ASSUME Undisturbed'
               PROVE  EndsAs(target, mem.active)' /\ target' = mem'.previous
    BY <1>1 DEF FilesFollow
  <2>1. Ends("active", "model", p)' /\ Ends("previous", "model", a)'
    BY <1>2, <1>5
  <2> QED
    BY <1>1, <1>5, <2>1 DEF EndsAs
<1>7. ActiveFirst'
  <2> SUFFICES ASSUME Undisturbed', NEW i \in 1 .. Len(job'),
                      job'[i].dir = "active", job'[i].part = "model"
               PROVE  i = 1 /\ Stored("previous")' # NoModel
    BY DEF ActiveFirst, Replaces
  <2> QED
    BY <1>1, <1>2, <1>5 DEF Stored
<1>8. Paired'
  <2> SUFFICES ASSUME starts' = 0, faults' = 0, NEW d \in Dirs
               PROVE  \E f \in Files :
                        Ends(d, "model", f)' /\ (f # NoModel => Ends(d, "meta", f)')
    BY DEF Paired
  <2>1. Paired /\ starts = 0 /\ faults = 0
    BY <1>1 DEF ActivationInv, countVars
  <2>2. CASE d = "candidate" \/ NoModel \in {a, p}
    <3>1. \A i \in 1 .. Len(job') : job'[i].dir # d
      BY <1>2, <2>2
    <3>2. \A part, f : disk[d][part] = f => Ends(d, part, f)'
      BY <1>1, <3>1 DEF Ends, Replaces
    <3> QED
      BY <1>1, <2>1, <3>2, PairUntouched
  <2>3. CASE d # "candidate" /\ NoModel \notin {a, p}
    <3>1. ta = a /\ tp = p
      BY <1>1, <2>1, <2>3, PairedUnlocked DEF Dirs
    <3>2. CASE d = "active"
      BY <1>2, <2>3, <3>1, <3>2
    <3>3. CASE d = "previous"
      BY <1>2, <2>3, <3>1, <3>3
    <3> QED
      BY <2>3, <3>2, <3>3 DEF Dirs
  <2> QED
    BY <2>2, <2>3
<1> QED
  BY <1>3, <1>4, <1>6, <1>7, <1>8 DEF ActivationInv

(* A restart gives up the job; what it finds on disk is what then serves.  *)
LEMMA StartInv ==
  ASSUME ActivationInv, NEW initial \in InitialModels \cup {NoModel}, Start(initial)
  PROVE  ActivationInv'
<1>1. /\ starts < MaxStarts /\ starts' = starts + 1
      /\ pc' = "idle" /\ target' = NoModel
      /\ UNCHANGED <<disk, staged, faults, clears>>
      /\ ActivationTypeOK
  BY DEF Start, ActivationInv
<1>2. starts' \in 0 .. MaxStarts /\ starts' # 0
  BY <1>1 DEF ActivationTypeOK
<1>3. Paired' /\ ActiveFirst'
  BY <1>1, <1>2 DEF Paired, ActiveFirst
<1>4. CASE initial = NoModel
  <2>1. mem' = Recovered /\ job' = <<>> /\ writer' = "none"
    BY <1>4 DEF Start
  <2>2. /\ Recovered \in [{"active", "previous"} -> Files]
        /\ Recovered.active = Stored("active")
        /\ Recovered.active = NoModel => Recovered.previous = NoModel
        /\ Recovered.previous # NoModel => Recovered.previous = Stored("previous")
    BY <1>1 DEF Recovered, Nothing, Stored, ActivationTypeOK, Dirs, Parts, Files
  <2>3. ActivationTypeOK'
    BY <1>1, <1>2, <2>1, <2>2 DEF ActivationTypeOK, Files
  <2>4. ControlInv'
    BY <1>1, <2>1, <2>2 DEF ControlInv, EachOnce
  <2>5. FilesFollow'
    <3> SUFFICES EndsAs(mem.active, mem.previous)'
      BY <1>1 DEF FilesFollow
    <3>1. \A dir, f : disk[dir]["model"] = f => Ends(dir, "model", f)'
      BY <1>1, <2>1 DEF Ends
    <3>2. PICK f, g : f = Recovered.active /\ g = Recovered.previous
      OBVIOUS
    <3>3. Ends("active", "model", f)' /\ (g # NoModel => Ends("previous", "model", g)')
      BY <2>2, <3>1, <3>2 DEF Stored
    <3> QED
      BY <2>1, <3>2, <3>3 DEF EndsAs
  <2> QED
    BY <1>3, <2>3, <2>4, <2>5 DEF ActivationInv
<1>5. CASE initial # NoModel
  <2>1. /\ mem' = [active |-> initial, previous |-> NoModel]
        /\ job' = <<Write("active", "model", initial, TRUE),
                    Write("active", "meta", initial, TRUE)>>
        /\ writer' = "manager"
    BY <1>5 DEF Start, SaveJob
  <2>2. initial \in Models /\ initial \in Files /\ "active" \in Dirs /\ TRUE \in BOOLEAN
    BY <1>5 DEF Files, Dirs
  <2>3. /\ job' \in Seq(WriteRecord) /\ job' # <<>> /\ EachOnce'
        /\ Ends("active", "model", initial)'
    BY <1>1, <2>1, <2>2, BothReplaced
  <2>4. mem'.active = initial /\ mem'.previous = NoModel
    BY <2>1
  <2>5. ActivationTypeOK'
    <3>1. mem' \in [{"active", "previous"} -> Files]
      BY <2>1, <2>2 DEF Files
    <3>2. target' \in Files
      BY <1>1 DEF Files
    <3> QED
      BY <1>1, <1>2, <2>1, <2>3, <3>1, <3>2 DEF ActivationTypeOK, WriteRecord
  <2>6. ControlInv'
    BY <1>1, <2>1, <2>2, <2>3, <2>4 DEF ControlInv
  <2>7. FilesFollow'
    BY <1>1, <2>3, <2>4 DEF FilesFollow, EndsAs
  <2> QED
    BY <1>3, <2>5, <2>6, <2>7 DEF ActivationInv
<1> QED
  BY <1>4, <1>5

LEMMA NextInv == ActivationInv /\ [Next]_vars => ActivationInv'
<1> SUFFICES ASSUME ActivationInv, [Next]_vars PROVE ActivationInv'
  OBVIOUS
<1>1. CASE Remove \/ Rename \/ FailWrite
  BY <1>1, RemoveInv, RenameInv, FailWriteInv
<1>2. CASE \E m \in Models : StageAgain(m) \/ StageModel(m)
  BY <1>2, StageAgainInv, StageModelInv
<1>3. CASE \E dir \in {"candidate", "previous"} : Clear(dir)
  BY <1>3, ClearInv
<1>4. CASE Activate \/ RotateActiveToPrevious \/ SaveActive \/ Switch
  BY <1>4, ActivateInv, RotateInv, SaveInv, SwitchInv
<1>5. CASE Rollback \/ SwapActiveAndPrevious \/ Exchange
  BY <1>5, RollbackInv, SwapInv, ExchangeInv
<1>6. CASE \E initial \in InitialModels \cup {NoModel} : Start(initial)
  BY <1>6, StartInv
<1>7. CASE UNCHANGED vars
  <2>1. /\ UNCHANGED <<disk, job, writer, mem, pc, target, staged, starts, faults, clears>>
    BY <1>7 DEF vars, storeVars, managerVars, countVars
  <2>2. \A dir \in Dirs, part \in Parts, f \in Files :
          Ends(dir, part, f) => Ends(dir, part, f)'
    BY <2>1 DEF Ends, Replaces
  <2>3. FilesFollow' /\ Paired'
    BY <2>1, <2>2, EndsKept DEF ActivationInv, managerVars, countVars
  <2>4. ActivationTypeOK' /\ ControlInv' /\ ActiveFirst'
    BY <2>1 DEF ActivationInv, ActivationTypeOK, ControlInv, EachOnce, ActiveFirst,
       Replaces, Undisturbed, Stored
  <2> QED
    BY <2>3, <2>4 DEF ActivationInv
<1> QED
  BY <1>1, <1>2, <1>3, <1>4, <1>5, <1>6, <1>7 DEF Next

-----------------------------------------------------------------------------
(* Type correctness: every write of a job is one to a known file, and the  *)
(* mutex is free exactly when no job is under way.                         *)
THEOREM ActivationTypeTheorem == Spec => []ActivationTypeOK
<1>1. ActivationInv => ActivationTypeOK
  BY DEF ActivationInv
<1> QED
  BY InitInv, NextInv, <1>1, PTL DEF Spec

(* A caller's job writes candidate/ only, until previous/ is cleared.      *)
LEMMA MirrorsMemory == ActivationInv => DiskMirrorsMemory
<1> SUFFICES ASSUME ActivationInv, AtRest, Undisturbed
             PROVE  /\ Stored("active") = mem.active
                    /\ mem.previous # NoModel => Stored("previous") = mem.previous
  BY DEF DiskMirrorsMemory
<1>1. /\ Ends("active", "model", mem.active)
      /\ mem.previous # NoModel => Ends("previous", "model", mem.previous)
      /\ ControlInv /\ ActivationTypeOK /\ writer # "manager" /\ clears = 0
  BY DEF ActivationInv, FilesFollow, EndsAs, AtRest, Undisturbed
<1>2. "active" \in Dirs /\ "previous" \in Dirs
  BY DEF Dirs
<1>3. disk["active"]["model"] = mem.active
  BY <1>1, <1>2, CallerEnds
<1>4. mem.previous # NoModel => disk["previous"]["model"] = mem.previous
  BY <1>1, <1>2, CallerEnds
<1> QED
  BY <1>3, <1>4 DEF Stored

(* Without failed replacements and clears, what serves inference is what a *)
(* restart would load, wherever crashes interrupted the file operations.   *)
THEOREM DiskTheorem == Spec => []DiskMirrorsMemory
  BY InitInv, NextInv, MirrorsMemory, PTL DEF Spec

LEMMA NeverBlocks == ActivationInv => MetadataNeverBlocks
<1> SUFFICES ASSUME ActivationInv, Unlocked, faults = 0, starts = 0, NEW dir \in Dirs
             PROVE  Stored(dir) = NoModel \/ Agrees(dir)
  BY DEF MetadataNeverBlocks, Dirs, Candidate, Stored
<1>1. disk[dir]["model"] # NoModel => disk[dir]["meta"] = disk[dir]["model"]
  BY PairedUnlocked DEF ActivationInv
<1> QED
  BY <1>1 DEF Stored, Agrees

(* Without failed replacements and crashes the metadata on disk is that of *)
(* the model beside it whenever the mutex is free, so that neither a       *)
(* rollback nor an activation is refused for it, clears included.          *)
THEOREM MetadataTheorem == Spec => []MetadataNeverBlocks
  BY InitInv, NextInv, NeverBlocks, PTL DEF Spec

-----------------------------------------------------------------------------
(* While previous/ is being replaced, active/ already holds the model that *)
(* is to stay there; while active/ is, previous/ holds one.                *)
LEMMA RemoveSurvives ==
  ASSUME ActivationInv, Remove, AnyModel, Undisturbed, pc # "idle"
  PROVE  AnyModel'
<1>1. /\ ActivationTypeOK /\ ControlInv /\ ActiveFirst /\ FilesFollow /\ ~Unlocked
      /\ disk[job[1].dir][job[1].part] # NoModel
      /\ disk' = [disk EXCEPT ![job[1].dir][job[1].part] = NoModel]
      /\ clears = 0
  BY HeadFacts DEF Remove, ActivationInv, Undisturbed
<1>2. /\ job[1].dir \in Dirs /\ job[1].part \in Parts /\ 1 \in 1 .. Len(job)
      /\ writer # "none"
  BY <1>1, HeadFacts DEF WriteRecord, ActivationTypeOK, Unlocked
<1>3. CASE job[1].part # "model" \/ job[1].dir = "candidate"
  BY <1>1, <1>2, <1>3 DEF AnyModel, Stored, ActivationTypeOK, Dirs, Parts
<1>4. ASSUME job[1].part = "model", job[1].dir # "candidate"
      PROVE  writer = "manager"
  BY <1>1, <1>2, <1>4 DEF ControlInv, ActivationTypeOK
<1>5. CASE Replaces(1, "active", "model")
  <2>1. writer = "manager"
    BY <1>4, <1>5 DEF Replaces
  <2>2. disk["previous"]["model"] # NoModel
    BY <1>1, <1>2, <1>5, <2>1 DEF ActiveFirst, Replaces, Stored
  <2>3. disk'["previous"]["model"] = disk["previous"]["model"]
    BY <1>1, <1>5 DEF Replaces, ActivationTypeOK, Dirs, Parts
  <2> QED
    BY <2>2, <2>3 DEF AnyModel, Stored
<1>6. CASE Replaces(1, "previous", "model")
  <2>1. writer = "manager"
    BY <1>4, <1>6 DEF Replaces
  <2>2. \A i \in 1 .. Len(job) : ~Replaces(i, "active", "model")
    BY <1>1, <1>6, <2>1 DEF ActiveFirst, Replaces
  <2>3. pc \in {"save", "switch", "exchange"} /\ target # NoModel
    BY <1>1, <2>1 DEF ControlInv, ActivationTypeOK
  <2>4. \E f \in Models : Ends("active", "model", f)
    <3>1. CASE pc = "save"
      <4>1. mem.active \in Models
        BY <1>1, <2>1, <3>1 DEF ControlInv, ActivationTypeOK, Files
      <4> QED
        BY <1>1, <3>1, <4>1 DEF FilesFollow, EndsAs
    <3>2. CASE pc \in {"switch", "exchange"}
      <4>1. target \in Models
        BY <1>1 DEF ControlInv
      <4> QED
        BY <1>1, <3>2, <4>1 DEF FilesFollow, EndsAs
    <3> QED
      BY <2>3, <3>1, <3>2
  <2>5. disk["active"]["model"] # NoModel
    BY <2>2, <2>4, EndsUntouched
  <2>6. disk'["active"]["model"] = disk["active"]["model"]
    BY <1>1, <1>6 DEF Replaces, ActivationTypeOK, Dirs, Parts
  <2> QED
    BY <2>5, <2>6 DEF AnyModel, Stored
<1> QED
  BY <1>2, <1>3, <1>5, <1>6 DEF Replaces, Dirs

LEMMA RenameSurvives ==
  ASSUME ActivationInv, Rename, AnyModel
  PROVE  AnyModel'
<1>1. /\ ActivationTypeOK /\ ~Unlocked
      /\ disk[job[1].dir][job[1].part] = NoModel
      /\ disk' = [disk EXCEPT ![job[1].dir][job[1].part] = job[1].file]
  BY HeadFacts DEF Rename, ActivationInv
<1>2. job[1].dir \in Dirs /\ job[1].part \in Parts
  BY <1>1, HeadFacts DEF WriteRecord
<1>3. PICK dir \in {"active", "previous"} : disk[dir]["model"] # NoModel
  BY DEF AnyModel, Stored
<1>4. disk'[dir]["model"] = disk[dir]["model"]
  BY <1>1, <1>2, <1>3 DEF ActivationTypeOK, Dirs, Parts
<1> QED
  BY <1>3, <1>4 DEF AnyModel, Stored

(* No step of an activation or rollback, and no crash within one, leaves   *)
(* both active/ and previous/ without a model when one of them had one.    *)
THEOREM SurvivalTheorem == Spec => AModelSurvives
<1>1. ActivationInv /\ [Next]_vars =>
        [AnyModel /\ Undisturbed /\ pc # "idle" => AnyModel']_vars
  <2> SUFFICES ASSUME ActivationInv, [Next]_vars, AnyModel, Undisturbed, pc # "idle"
               PROVE  AnyModel'
    OBVIOUS
  <2>1. Remove \/ Rename \/ disk' = disk
    BY DEF Next, FailWrite, StageAgain, StageModel, Clear, Activate, RotateActiveToPrevious,
       SaveActive, Switch, Rollback, SwapActiveAndPrevious, Exchange, Start, Call,
       vars, storeVars
  <2>2. CASE disk' = disk
    BY <2>2 DEF AnyModel, Stored
  <2> QED
    BY <2>1, <2>2, RemoveSurvives, RenameSurvives
<1> QED
  BY InitInv, NextInv, <1>1, PTL DEF Spec, AModelSurvives

(* Every completed rollback exchanges the active model and its predecessor *)
(* as long as no replacement failed and previous/ was not cleared.         *)
THEOREM RollbackTheorem == Spec => RollbackExchanges
<1>1. ActivationInv /\ [Next]_vars => [Undisturbed => RestoringStep]_vars
  <2> SUFFICES ASSUME ActivationInv, [Next]_vars, Undisturbed,
                      pc = "exchange", pc' = "idle", starts' = starts
               PROVE  mem' = [active |-> mem.previous, previous |-> mem.active]
    BY DEF RestoringStep
  <2>1. \A initial \in InitialModels \cup {NoModel} : ~Start(initial)
    BY DEF Start, ActivationInv, ActivationTypeOK
  <2>2. Exchange
    BY <2>1 DEF Next, Remove, Rename, FailWrite, StageAgain, StageModel, Clear, Activate,
       RotateActiveToPrevious, SaveActive, Switch, Rollback, SwapActiveAndPrevious,
       vars, managerVars
  <2>3. target = mem.previous
    BY DEF ActivationInv, FilesFollow
  <2> QED
    BY <2>2, <2>3 DEF Exchange
<1> QED
  BY InitInv, NextInv, <1>1, PTL DEF Spec, RollbackExchanges

=============================================================================
