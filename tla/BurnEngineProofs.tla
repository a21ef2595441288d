-------------------------- MODULE BurnEngineProofs --------------------------
(***************************************************************************)
(* Theorems about BurnEngine for any number of workers, directories,       *)
(* images, media and requests, in three parts:                             *)
(*   - threads: jobs exclude each other, a directory has one owner;        *)
(*   - working copies: no directory is forgotten before somebody has tried *)
(*     to remove it, the cache offers verified copies only, and what an    *)
(*     XGD3 job burns is such a copy of the image the user selected;       *)
(*   - what the engine shows and does to the drive: its snapshots are the  *)
(*     life of one job at a time (BurnLifecycle), only burns write, on     *)
(*     media that was checked, and what is reported complete is on the     *)
(*     disc.                                                               *)
(***************************************************************************)
EXTENDS BurnEngine, TLAPS

-----------------------------------------------------------------------------
(* The inductive invariant                                                 *)

\* A worker that has not settled works on a request of the window; so will
\* the one that Start is about to spawn, and then there is no other.
Requested ==
  /\ ui = "spawn" => pending \in Requests
  /\ \A t \in Workers : Active(t) => job[t].req \in Requests

SpawnsAlone == ui = "spawn" => \A t \in Workers : ~Active(t)

\* Where a worker uses its temporary directory it has one; a Dreamcast image
\* never takes the path of the standard images.
NeedsDirectory(t) ==
  \/ pc[t] \in {"copy", "autofix", "verify", "store", "extract"}
  \/ pc[t] = "atip" /\ job[t].req.target = "dreamcast"

HasDirectory ==
  \A t \in Workers :
    /\ NeedsDirectory(t) => job[t].tmp # None
    /\ pc[t] = "validate" => job[t].req.target # "dreamcast"

\* A directory taken out of the cache is removed by the very next step.
DoomedBriefly ==
  \A t \in Workers : job[t].doomed # None => pc[t] \in DOMAIN AfterDrop

IInv ==
  /\ TypeOK
  /\ Exclusive
  /\ Requested
  /\ SpawnsAlone
  /\ HasDirectory
  /\ DoomedBriefly
  /\ DirectoriesOwnedOnce

-----------------------------------------------------------------------------
(* Types of the updates the actions make                                   *)

\* The locals of a worker that has just started
LEMMA NoJobTyped == NoJob \in JobType
BY DEF NoJob, JobType

\* Each assignment to a local variable keeps the types of all of them.
LEMMA LocalsTyped ==
  ASSUME NEW j \in JobType
  PROVE  /\ \A r \in Requests \union {None} : [j EXCEPT !.req = r] \in JobType
         /\ \A d \in Dirs \union {None} :
              /\ [j EXCEPT !.tmp = d] \in JobType
              /\ [j EXCEPT !.image = d] \in JobType
              /\ [j EXCEPT !.doomed = d] \in JobType
              /\ [j EXCEPT !.tmp = d, !.image = d] \in JobType
              /\ [j EXCEPT !.tmp = None, !.doomed = d] \in JobType
         /\ \A c \in Seq(Nat) :
              /\ [j EXCEPT !.caps = c] \in JobType
              /\ \A b \in Nat : [j EXCEPT !.caps = c, !.bytes = b] \in JobType
         /\ \A n \in Nat : [j EXCEPT !.session = n] \in JobType
         /\ \A x \in {"notstarted", "failed", "ok"} :
              [j EXCEPT !.result = x] \in JobType
BY DEF JobType

\* What a helper prints about the capacity of a disc is a sequence of numbers.
LEMMA ReportsTyped == CapacityReports \subseteq Seq(Nat)
<1>1. Capacities \subseteq Nat
  BY DEF Capacities, DualLayer, FullXgd3
<1>2. \A c \in Nat : <<c>> \in Seq(Nat)
  OBVIOUS
<1>3. <<>> \in Seq(Nat)
  OBVIOUS
<1> QED BY <1>1, <1>2, <1>3 DEF CapacityReports

\* file_size is a number, whatever has become of the image.
LEMMA BytesTyped ==
  ASSUME NEW t \in Workers
  PROVE  ImageBytes(t) \in Nat
<1>1. CASE Readable(Content(t))
  <2>1. Content(t).source \in Sources /\ Content(t).version \in 1 .. MaxVersion
    BY <1>1, BoundsAssumption DEF Readable, Contents
  <2>2. Size[Content(t).source][Content(t).version] \in Sizes
    BY <2>1, SizeAssumption
  <2> QED BY <2>2 DEF ImageBytes, Sizes
<1>2. CASE ~Readable(Content(t))
  BY <1>2 DEF ImageBytes
<1> QED BY <1>1, <1>2

\* A run of -mediainfo assigns to what the job knows of the disc and of its image
\* and to nothing else; only the first run asks for the size of the image.
LEMMA MediaLocals ==
  ASSUME job \in [Workers -> JobType], NEW t \in Workers,
         CheckMedia(t) \/ ReadCapacity(t)
  PROVE  \E j \in JobType :
           /\ job' = [job EXCEPT ![t] = j]
           /\ j.req = job[t].req /\ j.tmp = job[t].tmp
           /\ j.image = job[t].image /\ j.doomed = job[t].doomed
           /\ j.session = job[t].session /\ j.result = job[t].result
           /\ ReadCapacity(t) => j.bytes = job[t].bytes
<1>1. job[t] \in JobType
  OBVIOUS
<1>2. CASE CheckMedia(t)
  <2>1. PICK report \in CapacityReports :
          job' = [job EXCEPT ![t].caps = report, ![t].bytes = ImageBytes(t)]
    BY <1>2 DEF CheckMedia
  <2> DEFINE j == [job[t] EXCEPT !.caps = report, !.bytes = ImageBytes(t)]
  <2>2. job' = [job EXCEPT ![t] = j]
    BY <2>1
  <2>3. j \in JobType
    BY <1>1, LocalsTyped, ReportsTyped, BytesTyped
  <2>4. /\ j.req = job[t].req /\ j.tmp = job[t].tmp
        /\ j.image = job[t].image /\ j.doomed = job[t].doomed
        /\ j.session = job[t].session /\ j.result = job[t].result
    BY <1>1 DEF JobType
  <2>5. ~ReadCapacity(t)
    BY <1>2 DEF CheckMedia, ReadCapacity
  <2> HIDE DEF j
  <2> QED BY <2>2, <2>3, <2>4, <2>5
<1>3. CASE ReadCapacity(t)
  <2>1. PICK report \in CapacityReports : job' = [job EXCEPT ![t].caps = report]
    BY <1>3 DEF ReadCapacity
  <2> DEFINE j == [job[t] EXCEPT !.caps = report]
  <2>2. job' = [job EXCEPT ![t] = j]
    BY <2>1
  <2>3. j \in JobType
    BY <1>1, LocalsTyped, ReportsTyped
  <2>4. /\ j.req = job[t].req /\ j.tmp = job[t].tmp
        /\ j.image = job[t].image /\ j.doomed = job[t].doomed
        /\ j.session = job[t].session /\ j.result = job[t].result
        /\ j.bytes = job[t].bytes
    BY <1>1 DEF JobType
  <2> HIDE DEF j
  <2> QED BY <2>2, <2>3, <2>4
<1> QED BY <1>2, <1>3

\* A removal leaves every other directory alone, and one that is still there
\* afterwards is a directory given up.
LEMMA RemoveAllFacts ==
  ASSUME FileTypes, NEW d \in Dirs \union {None}, RemoveAll(d)
  PROVE  /\ dirs' \in [Dirs -> Copies \union {None}]
         /\ \A e \in Dirs : e # d => dirs'[e] = dirs[e]
         /\ d \in Dirs => dirs'[d] \in {None, dirs[d]}
         /\ lost \subseteq lost' /\ lost' \subseteq lost \union {d}
         /\ lost' \subseteq Dirs
         /\ d \in Dirs /\ dirs'[d] # None => d \in lost'
<1>1. PICK left \in IF d = None THEN {None} ELSE {None, dirs[d]} :
        /\ dirs' = [e \in Dirs |-> IF e = d THEN left ELSE dirs[e]]
        /\ lost' = IF left = None THEN lost ELSE lost \union {d}
  BY DEF RemoveAll
<1>2. d = None => d \notin Dirs /\ left = None
  BY <1>1, NoneAssumption
<1>3. d \in Dirs => left \in Copies \union {None}
  BY <1>1 DEF FileTypes
<1> QED BY <1>1, <1>2, <1>3 DEF FileTypes

\* The members of BurnSnapshot after each critical section.
LEMMA SnapshotsTyped ==
  ASSUME snap \in Snapshots
  PROVE  /\ IdleSnapshot \in Snapshots
         /\ [IdleSnapshot EXCEPT !.busy = TRUE, !.stage = "Preparing"] \in Snapshots
         /\ \A stage \in Stages, p \in 0 .. FullProgress :
              [snap EXCEPT !.stage = stage, !.busy = FALSE, !.writing = FALSE,
                           !.progress = p] \in Snapshots
         /\ \A p \in 0 .. FullProgress :
              /\ [snap EXCEPT !.progress = p] \in Snapshots
              /\ [snap EXCEPT !.progress = p, !.writing = FALSE] \in Snapshots
<1>1. 0 \in 0 .. FullProgress
  BY BoundsAssumption
<1>2. IdleSnapshot \in Snapshots
  BY <1>1 DEF Snapshots, IdleSnapshot, Stages
<1>3. [IdleSnapshot EXCEPT !.busy = TRUE, !.stage = "Preparing"] \in Snapshots
  BY <1>2 DEF Snapshots, Stages
<1>4. \A stage \in Stages, p \in 0 .. FullProgress :
        [snap EXCEPT !.stage = stage, !.busy = FALSE, !.writing = FALSE,
                     !.progress = p] \in Snapshots
  BY DEF Snapshots
<1>5. \A p \in 0 .. FullProgress :
        /\ [snap EXCEPT !.progress = p] \in Snapshots
        /\ [snap EXCEPT !.progress = p, !.writing = FALSE] \in Snapshots
  BY DEF Snapshots
<1> QED BY <1>2, <1>3, <1>4, <1>5

\* The three ways to leave a step: with the locals and the snapshot as they
\* are, with an assignment to one worker's locals, by settling the job.
LEMMA ProceedTyped ==
  ASSUME ThreadTypes, NEW t \in Workers, NEW label \in Labels,
         Proceed(t, label), UNCHANGED uiVars
  PROVE  ThreadTypes'
BY DEF ThreadTypes, Proceed, Goto, uiVars

\* A step that assigns to the locals of one worker and to the snapshot
LEMMA AssignTyped ==
  ASSUME ThreadTypes, NEW t \in Workers, NEW label \in Labels,
         NEW j \in JobType, job' = [job EXCEPT ![t] = j],
         Goto(t, label), snap' \in Snapshots, UNCHANGED uiVars
  PROVE  ThreadTypes'
BY DEF ThreadTypes, Goto, uiVars

\* The last critical section of a job
LEMMA SettleTyped ==
  ASSUME ThreadTypes, NEW t \in Workers, NEW stage \in Stages,
         NEW p \in 0 .. FullProgress, Settle(t, stage, p), UNCHANGED uiVars
  PROVE  ThreadTypes'
<1>1. job[t] \in JobType
  BY DEF ThreadTypes
<1>2. job[t].tmp \in Dirs \union {None}
  BY <1>1 DEF JobType
<1>3. [NoJob EXCEPT !.tmp = job[t].tmp] \in JobType
  BY <1>2, NoJobTyped, LocalsTyped
<1>4. snap' \in Snapshots
  BY SnapshotsTyped DEF Settle, ThreadTypes
<1> QED BY <1>3, <1>4, AssignTyped DEF Settle, Labels

\* SetPreparationProgress clamps what it is given.
LEMMA PreparationTyped ==
  ASSUME snap \in Snapshots, NEW p \in Nat, ShowPreparation(p)
  PROVE  snap' \in Snapshots
<1>1. AtMost(FullProgress, p) \in 0 .. FullProgress
  BY BoundsAssumption DEF AtMost
<1> QED BY <1>1, SnapshotsTyped DEF ShowPreparation

-----------------------------------------------------------------------------
(* Type correctness                                                        *)

\* The constructor's state has its types.
LEMMA InitTyped == Init => TypeOK
<1> SUFFICES ASSUME Init PROVE TypeOK
  OBVIOUS
<1>1. ThreadTypes
  <2>1. IdleSnapshot \in Snapshots
    BY BoundsAssumption DEF IdleSnapshot, Snapshots, Stages
  <2> QED BY <2>1, NoJobTyped DEF Init, ThreadTypes, Labels
<1>2. FileTypes
  BY BoundsAssumption DEF Init, FileTypes, Caches, NoCopy
<1>3. DriveTypes
  BY DEF Init, DriveTypes
<1> QED BY <1>1, <1>2, <1>3 DEF TypeOK

\* Start, StartBurnerMaxTest, Reset and WM_CLOSE
LEMMA UiRequestTyped ==
  ASSUME TypeOK, UiRequest
  PROVE  TypeOK'
<1> USE DEF TypeOK
<1>1. FileTypes' /\ DriveTypes'
  BY DEF UiRequest, FileTypes, DriveTypes, fileVars, driveVars
<1>2. ASSUME NEW r \in Requests, StartJob(r)
      PROVE  ThreadTypes'
  BY <1>2, SnapshotsTyped DEF StartJob, ThreadTypes
<1>3. CASE Reset
  BY <1>1, <1>3, SnapshotsTyped DEF Reset, ThreadTypes, uiVars
<1>4. CASE Quit
  BY <1>1, <1>4 DEF Quit, ThreadTypes
<1> QED BY <1>1, <1>2, <1>3, <1>4 DEF UiRequest

\* The rest of Start, and the destructor; a thread is only ever spawned for a
\* request of the window.
LEMMA UiContinueTyped ==
  ASSUME TypeOK, ui = "spawn" => pending \in Requests, UiContinue
  PROVE  TypeOK'
<1> USE DEF TypeOK
<1>1. DriveTypes'
  BY DEF UiContinue, DriveTypes, driveVars
<1>2. CASE SpawnWorker /\ UNCHANGED fileVars
  <2>1. FileTypes'
    BY <1>2 DEF UiContinue, FileTypes, fileVars
  <2>2. PICK t \in Workers :
          /\ incoming' = t
          /\ pc' = [pc EXCEPT ![t] = "run"]
          /\ job' = [job EXCEPT ![t] = [NoJob EXCEPT !.req = pending]]
    BY <1>2 DEF SpawnWorker
  <2>3. [NoJob EXCEPT !.req = pending] \in JobType
    BY <1>2, NoJobTyped, LocalsTyped DEF SpawnWorker
  <2>4. ThreadTypes'
    BY <1>2, <2>2, <2>3 DEF SpawnWorker, ThreadTypes, Labels
  <2> QED BY <1>1, <2>1, <2>4
<1>3. CASE InstallWorker /\ UNCHANGED fileVars
  BY <1>1, <1>3 DEF UiContinue, InstallWorker, ThreadTypes, Labels, FileTypes,
     fileVars
<1>4. CASE Destroy
  <2>1. ThreadTypes'
    BY <1>4 DEF Destroy, ThreadTypes
  <2>2. NoCopy \in Caches
    BY DEF NoCopy, Caches
  <2>3. prepared.dir \in Dirs \union {None}
    BY DEF FileTypes, Caches
  <2>4. FileTypes'
    BY <1>4, <2>2, <2>3, RemoveAllFacts DEF UiContinue, Destroy, FileTypes
  <2> QED BY <1>1, <2>1, <2>4
<1> QED BY <1>2, <1>3, <1>4 DEF UiContinue

\* What other programs and the user do to files and discs
LEMMA EnvironmentTyped ==
  ASSUME TypeOK, Environment
  PROVE  TypeOK'
<1> USE DEF TypeOK
<1>1. ThreadTypes'
  BY DEF Environment, ThreadTypes, uiVars
<1>2. tools' = tools /\ prepared' = prepared /\ lost' = lost
  BY DEF Environment
<1>3. CASE InsertDisc
  <2>1. <<>> \in Seq([session : Nat, source : Sources \union {None},
                      version : Nat, closes : BOOLEAN])
    OBVIOUS
  <2>2. <<Ruined>> \in Seq([session : Nat, source : Sources \union {None},
                      version : Nat, closes : BOOLEAN])
    BY DEF Ruined
  <2>3. disc' \in Discs
    BY <1>3, <2>1, <2>2, BoundsAssumption DEF InsertDisc, Discs
  <2> QED BY <1>1, <1>2, <1>3, <2>3 DEF InsertDisc, FileTypes, DriveTypes
<1>4. CASE RemoveDisc
  BY <1>1, <1>2, <1>4 DEF RemoveDisc, FileTypes, DriveTypes
<1>5. CASE PowerCycle
  BY <1>1, <1>2, <1>5 DEF PowerCycle, FileTypes, DriveTypes
<1>6. ASSUME NEW s \in Sources, EditSource(s) \/ LoseSource(s)
      PROVE  TypeOK'
  <2>1. ver' \in [Sources -> 0 .. MaxVersion]
    BY <1>6, BoundsAssumption DEF EditSource, LoseSource, FileTypes
  <2> QED BY <1>1, <1>2, <1>6, <2>1
          DEF EditSource, LoseSource, FileTypes, DriveTypes, driveVars
<1>7. CASE LoseWorkingCopy
  BY <1>1, <1>2, <1>7 DEF LoseWorkingCopy, FileTypes, DriveTypes, driveVars
<1> QED BY <1>3, <1>4, <1>5, <1>6, <1>7 DEF Environment

\* Reports of progress
LEMMA ReportTyped ==
  ASSUME TypeOK, NEW t \in Workers, Report(t)
  PROVE  TypeOK'
<1> USE DEF TypeOK
<1>1. FileTypes' /\ DriveTypes'
  BY DEF Report, PreparationProgress, WriteProgress, FileTypes, DriveTypes,
     fileVars, driveVars
<1>2. snap' \in Snapshots
  <2>1. CASE PreparationProgress(t)
    BY <2>1, PreparationTyped, BoundsAssumption
    DEF PreparationProgress, Parsed, ThreadTypes
  <2>2. CASE WriteProgress(t)
    <3>1. PICK p \in Parsed :
            snap' = [snap EXCEPT !.progress =
                       IF AtMost(WriteCap, p) < snap.progress
                       THEN snap.progress ELSE AtMost(WriteCap, p)]
      BY <2>2 DEF WriteProgress
    <3>2. snap.progress \in 0 .. FullProgress
      BY DEF ThreadTypes, Snapshots
    <3>3. AtMost(WriteCap, p) \in 0 .. FullProgress
      BY BoundsAssumption DEF AtMost, WriteCap, Parsed
    <3> QED BY <3>1, <3>2, <3>3, SnapshotsTyped DEF ThreadTypes
  <2> QED BY <2>1, <2>2 DEF Report
<1>3. ThreadTypes'
  BY <1>2 DEF Report, PreparationProgress, WriteProgress, ThreadTypes, uiVars
<1> QED BY <1>1, <1>3

\* Steps that only choose how the job goes on
LEMMA DecisionTyped ==
  ASSUME IInv, NEW t \in Workers, UNCHANGED <<uiVars, ver>>,
         \/ Run(t) \/ Validate(t) \/ StepFails(t) \/ Fail(t) \/ Announce(t)
         \/ CheckDrive(t) \/ EnableBurnerMax(t) \/ CapacityVerdict(t)
         \/ CheckAtip(t) \/ AfterRecorder(t) \/ TestVerdict(t)
  PROVE  TypeOK'
<1> USE DEF IInv, TypeOK
<1>1. CASE Run(t)
  <2>1. ThreadTypes'
    BY <1>1 DEF Run, Goto, Labels, ThreadTypes, uiVars
  <2> QED BY <1>1, <2>1 DEF Run, FileTypes, DriveTypes, fileVars, driveVars
<1>2. CASE Validate(t)
  <2>1. FileTypes' /\ DriveTypes'
    BY <1>2 DEF Validate, FileTypes, DriveTypes, fileVars, driveVars
  <2>2. CASE Settle(t, "Ready", snap.progress)
    BY <2>1, <2>2, SettleTyped DEF Stages, ThreadTypes, Snapshots
  <2>3. CASE ~Settle(t, "Ready", snap.progress)
    <3>1. PICK label \in Labels : Proceed(t, label)
      BY <1>2, <2>3 DEF Validate, Labels
    <3> QED BY <2>1, <3>1, ProceedTyped
  <2> QED BY <2>2, <2>3
<1>3. CASE StepFails(t)
  BY <1>3, ProceedTyped
  DEF StepFails, Labels, FileTypes, DriveTypes, fileVars, driveVars
<1>4. CASE Fail(t)
  BY <1>4, SettleTyped
  DEF Fail, Stages, ThreadTypes, Snapshots, FileTypes, DriveTypes, fileVars, driveVars
<1>5. CASE Announce(t)
  BY <1>5, ProceedTyped
  DEF Announce, Labels, FileTypes, DriveTypes, fileVars, driveVars
<1>6. CASE CheckDrive(t)
  BY <1>6, ProceedTyped
  DEF CheckDrive, Labels, FileTypes, DriveTypes, fileVars, driveVars
<1>7. CASE EnableBurnerMax(t)
  <2>1. ThreadTypes'
    BY <1>7, ProceedTyped DEF EnableBurnerMax, Labels
  <2>2. FileTypes' /\ DriveTypes'
    BY <1>7 DEF EnableBurnerMax, FileTypes, DriveTypes, fileVars, driveVars
  <2> QED BY <2>1, <2>2
<1>8. CASE CapacityVerdict(t)
  <2>1. FileTypes' /\ DriveTypes'
    BY <1>8 DEF CapacityVerdict, FileTypes, DriveTypes, fileVars, driveVars
  <2>2. \/ \E label \in Labels : Proceed(t, label)
        \/ Settle(t, "Ready", 0)
    BY <1>8 DEF CapacityVerdict, Labels
  <2> QED BY <2>1, <2>2, ProceedTyped, SettleTyped, BoundsAssumption DEF Stages
<1>9. CASE CheckAtip(t)
  BY <1>9, ProceedTyped
  DEF CheckAtip, Labels, FileTypes, DriveTypes, fileVars, driveVars
<1>10. CASE AfterRecorder(t)
  <2>1. FileTypes' /\ DriveTypes'
    BY <1>10 DEF AfterRecorder, FileTypes, DriveTypes, fileVars, driveVars
  <2>2. \/ \E label \in Labels : Proceed(t, label)
        \/ \E p \in 0 .. FullProgress : Settle(t, "Ready", p)
    BY <1>10, BoundsAssumption DEF AfterRecorder, AfterSession, Labels
  <2> QED BY <2>1, <2>2, ProceedTyped, SettleTyped DEF Stages
<1>11. CASE TestVerdict(t)
  <2>1. FileTypes' /\ DriveTypes'
    BY <1>11 DEF TestVerdict, FileTypes, DriveTypes, fileVars, driveVars
  <2>2. Proceed(t, "fail") \/ Settle(t, "Ready", 0)
    BY <1>11 DEF TestVerdict
  <2> QED BY <2>1, <2>2, ProceedTyped, SettleTyped, BoundsAssumption
          DEF Stages, Labels
<1> QED BY <1>1, <1>2, <1>3, <1>4, <1>5, <1>6, <1>7, <1>8, <1>9, <1>10, <1>11

\* A worker in a job has a request of the window, for one of the images.
LEMMA RequestOfActive ==
  ASSUME IInv, NEW t \in Workers, Active(t)
  PROVE  /\ job[t] \in JobType
         /\ job[t].req \in Requests
         /\ job[t].req.source \in Sources
         /\ job[t].tmp \in Dirs \union {None}
<1>1. job[t] \in JobType /\ job[t].req \in Requests
  BY DEF IInv, TypeOK, ThreadTypes, Requested
<1>2. job[t].req \in AllRequests
  BY <1>1, RequestsAssumption
<1> QED BY <1>1, <1>2 DEF AllRequests, JobType

\* Steps that assign to a local variable or to the snapshot
LEMMA AssignmentTyped ==
  ASSUME IInv, NEW t \in Workers, UNCHANGED <<uiVars, ver>>,
         \/ TryReuse(t) \/ DropDirectory(t) \/ PrepareWorkingCopy(t)
         \/ MakeExtractionDirectory(t) \/ StorePrepared(t) \/ ClearPrepared(t)
         \/ CheckMedia(t) \/ ReadCapacity(t) \/ BeginSession(t) \/ Unwind(t)
  PROVE  TypeOK'
<1> USE DEF TypeOK
<1>1. ThreadTypes /\ FileTypes /\ DriveTypes
  BY DEF IInv
<1>2. job[t] \in JobType
  BY <1>1 DEF ThreadTypes
<1>3. NoCopy \in Caches /\ prepared.dir \in Dirs \union {None}
  BY <1>1 DEF NoCopy, Caches, FileTypes
<1>4. snap \in Snapshots
  BY <1>1 DEF ThreadTypes
<1>5. CASE TryReuse(t)
  <2>1. FileTypes' /\ DriveTypes'
    BY <1>1, <1>3, <1>5 DEF TryReuse, FileTypes, DriveTypes, driveVars
  <2>2. snap' \in Snapshots
    BY <1>4, <1>5, PreparationTyped, BoundsAssumption DEF TryReuse
  <2>3. [job[t] EXCEPT !.image = prepared.dir] \in JobType
    BY <1>2, <1>3, LocalsTyped
  <2>4. [job[t] EXCEPT !.doomed = prepared.dir] \in JobType
    BY <1>2, <1>3, LocalsTyped
  <2>5. ThreadTypes'
    BY <1>1, <1>5, <2>2, <2>3, <2>4, AssignTyped DEF TryReuse, Labels
  <2> QED BY <2>1, <2>5
<1>6. CASE DropDirectory(t)
  <2>1. FileTypes' /\ DriveTypes'
    <3>1. job[t].doomed \in Dirs \union {None}
      BY <1>2 DEF JobType
    <3> QED BY <1>1, <1>6, <3>1, RemoveAllFacts
            DEF DropDirectory, FileTypes, DriveTypes, driveVars
  <2>2. [job[t] EXCEPT !.doomed = None] \in JobType
    BY <1>2, LocalsTyped
  <2>3. AfterDrop[pc[t]] \in Labels
    BY <1>6 DEF DropDirectory, AfterDrop, Labels
  <2> QED BY <1>1, <1>4, <1>6, <2>1, <2>2, <2>3, AssignTyped DEF DropDirectory
<1>7. CASE PrepareWorkingCopy(t) \/ MakeExtractionDirectory(t)
  <2>1. NewDirectory(t)
    BY <1>7 DEF PrepareWorkingCopy, MakeExtractionDirectory
  <2>2. PICK d \in Dirs :
          /\ dirs' = [dirs EXCEPT ![d] = [holds |-> None, verified |-> FALSE]]
          /\ job' = [job EXCEPT ![t].tmp = d, ![t].image = d]
    BY <2>1 DEF NewDirectory
  <2>3. FileTypes' /\ DriveTypes'
    BY <1>1, <1>7, <2>2
    DEF PrepareWorkingCopy, MakeExtractionDirectory, FileTypes, Copies,
        DriveTypes, driveVars
  <2>4. job' = [job EXCEPT ![t] = [job[t] EXCEPT !.tmp = d, !.image = d]]
    BY <1>1, <2>2 DEF ThreadTypes
  <2>5. [job[t] EXCEPT !.tmp = d, !.image = d] \in JobType
    BY <1>2, LocalsTyped
  <2>6. snap' \in Snapshots
    BY <1>4, <1>7, PreparationTyped
    DEF PrepareWorkingCopy, MakeExtractionDirectory
  <2>7. \E label \in Labels : Goto(t, label)
    BY <1>7 DEF PrepareWorkingCopy, MakeExtractionDirectory, Labels
  <2> QED BY <1>1, <2>3, <2>4, <2>5, <2>6, <2>7, AssignTyped
<1>8. CASE StorePrepared(t)
  <2>1. job[t].tmp \in Dirs
    BY <1>8, <1>2 DEF StorePrepared, IInv, HasDirectory, NeedsDirectory, JobType
  <2>2. job[t].req.source \in Sources
    BY <1>8, RequestOfActive DEF StorePrepared, Active
  <2>3. [valid |-> TRUE, source |-> job[t].req.source, dir |-> job[t].tmp,
         id |-> ver[job[t].req.source]] \in Caches
    BY <1>1, <2>1, <2>2, BoundsAssumption DEF FileTypes, Caches
  <2>4. FileTypes' /\ DriveTypes'
    BY <1>1, <1>8, <2>1, <2>3 DEF StorePrepared, FileTypes, DriveTypes, driveVars
  <2>5. PICK j \in JobType : job' = [job EXCEPT ![t] = j]
    <3>1. [job[t] EXCEPT !.tmp = None] \in JobType
      BY <1>2, LocalsTyped
    <3>2. [job[t] EXCEPT !.tmp = None, !.doomed = prepared.dir] \in JobType
      BY <1>2, <1>3, LocalsTyped
    <3>3. \/ job' = [job EXCEPT ![t] = [job[t] EXCEPT !.tmp = None]]
          \/ job' = [job EXCEPT ![t] = [job[t] EXCEPT !.tmp = None,
                                                   !.doomed = prepared.dir]]
      BY <1>1, <1>8 DEF StorePrepared, ThreadTypes
    <3> QED BY <3>1, <3>2, <3>3
  <2> QED BY <1>1, <1>4, <1>8, <2>4, <2>5, AssignTyped DEF StorePrepared, Labels
<1>9. CASE ClearPrepared(t)
  <2>1. FileTypes' /\ DriveTypes'
    BY <1>1, <1>3, <1>9 DEF ClearPrepared, FileTypes, DriveTypes, driveVars
  <2>2. [job[t] EXCEPT !.doomed = prepared.dir] \in JobType
    BY <1>2, <1>3, LocalsTyped
  <2> QED BY <1>1, <1>4, <1>9, <2>1, <2>2, AssignTyped DEF ClearPrepared, Labels
<1>10. CASE CheckMedia(t) \/ ReadCapacity(t)
  <2>1. FileTypes' /\ DriveTypes'
    BY <1>1, <1>10 DEF CheckMedia, ReadCapacity, FileTypes, DriveTypes, fileVars,
       driveVars
  <2>3. PICK j \in JobType : job' = [job EXCEPT ![t] = j]
    BY <1>1, <1>10, MediaLocals DEF ThreadTypes
  <2>4. \E label \in Labels : Goto(t, label)
    BY <1>10 DEF CheckMedia, AfterMediaCheck, ReadCapacity, Labels
  <2>5. snap' \in Snapshots
    BY <1>4, <1>10 DEF CheckMedia, ReadCapacity
  <2> QED BY <1>1, <2>1, <2>3, <2>4, <2>5, AssignTyped
<1>11. CASE BeginSession(t)
  <2>1. FileTypes' /\ DriveTypes'
    BY <1>1, <1>11 DEF BeginSession, FileTypes, DriveTypes, fileVars, driveVars
  <2>2. job[t].session + 1 \in Nat
    BY <1>2 DEF JobType
  <2>3. [job[t] EXCEPT !.session = job[t].session + 1] \in JobType
    BY <1>2, <2>2, LocalsTyped
  <2>4. snap' \in Snapshots
    BY <1>4, <1>11, <2>2, BoundsAssumption
    DEF BeginSession, Snapshots, Stages, SessionStage, BurnsDisc
  <2> QED BY <1>1, <1>11, <2>1, <2>3, <2>4, AssignTyped DEF BeginSession, Labels
<1>12. CASE Unwind(t)
  <2>1. FileTypes' /\ DriveTypes'
    <3>1. job[t].tmp \in Dirs \union {None}
      BY <1>2 DEF JobType
    <3> QED BY <1>1, <1>12, <3>1, RemoveAllFacts
            DEF Unwind, FileTypes, DriveTypes, driveVars
  <2> QED BY <1>1, <1>4, <1>12, <2>1, NoJobTyped, AssignTyped DEF Unwind, Labels
<1> QED BY <1>5, <1>6, <1>7, <1>8, <1>9, <1>10, <1>11, <1>12

\* Steps that change what is in a directory or on the disc
LEMMA CopyTyped ==
  ASSUME IInv, NEW t \in Workers, UNCHANGED <<uiVars, ver>>,
         \/ CopyImage(t) \/ AutoFix(t) \/ Verify(t) \/ ExtractImage(t)
         \/ RecorderEnds(t) \/ RestoreStreaming(t) \/ Complete(t)
  PROVE  TypeOK'
<1> USE DEF TypeOK
<1>1. ThreadTypes /\ FileTypes /\ DriveTypes /\ job[t] \in JobType /\ snap \in Snapshots
  BY DEF IInv, ThreadTypes
<1>2. ASSUME NEW label \in Labels, Goto(t, label), job' = job, snap' \in Snapshots
      PROVE  ThreadTypes'
  BY <1>1, <1>2 DEF ThreadTypes, Goto, uiVars
<1>3. ASSUME CopySource(t), Active(t), NeedsDirectory(t)
      PROVE  dirs' \in [Dirs -> Copies \union {None}]
  <2>1. job[t].tmp \in Dirs /\ dirs[job[t].tmp] \in Copies
    BY <1>1, <1>3 DEF IInv, HasDirectory, DirectoriesOwnedOnce, FileTypes, JobType
  <2>2. job[t].req.source \in Sources
    BY <1>3, RequestOfActive
  <2>3. [source |-> job[t].req.source, version |-> ver[job[t].req.source]] \in Contents
    BY <1>1, <2>2, BoundsAssumption DEF FileTypes, Contents
  <2>4. [dirs[job[t].tmp] EXCEPT !.holds =
           [source |-> job[t].req.source, version |-> ver[job[t].req.source]]] \in Copies
    BY <2>1, <2>3 DEF Copies
  <2> QED BY <1>1, <1>3, <2>1, <2>4 DEF CopySource, FileTypes
<1>4. CASE CopyImage(t)
  <2>1. snap' \in Snapshots
    BY <1>1, <1>4, PreparationTyped DEF CopyImage
  <2>2. ThreadTypes'
    BY <1>2, <1>4, <2>1 DEF CopyImage, Labels
  <2>3. dirs' \in [Dirs -> Copies \union {None}]
    BY <1>3, <1>4 DEF CopyImage, Active, NeedsDirectory
  <2> QED BY <1>1, <1>4, <2>2, <2>3 DEF CopyImage, FileTypes, DriveTypes, driveVars
<1>5. CASE AutoFix(t)
  <2>1. snap' \in Snapshots
    BY <1>1, <1>5, PreparationTyped DEF AutoFix
  <2>2. ThreadTypes'
    BY <1>2, <1>5, <2>1 DEF AutoFix, Labels
  <2> QED BY <1>1, <1>5, <2>2 DEF AutoFix, FileTypes, DriveTypes, fileVars, driveVars
<1>6. CASE Verify(t)
  <2>1. snap' \in Snapshots
    BY <1>1, <1>6, PreparationTyped, BoundsAssumption DEF Verify
  <2>2. ThreadTypes'
    BY <1>2, <1>6, <2>1 DEF Verify, Labels
  <2>3. job[t].tmp \in Dirs /\ dirs[job[t].tmp] \in Copies
    BY <1>1, <1>6
    DEF Verify, IInv, HasDirectory, NeedsDirectory, DirectoriesOwnedOnce,
        FileTypes, JobType
  <2>4. [dirs[job[t].tmp] EXCEPT !.verified = TRUE] \in Copies
    BY <2>3 DEF Copies
  <2>5. dirs' \in [Dirs -> Copies \union {None}]
    BY <1>1, <1>6, <2>3, <2>4 DEF Verify, FileTypes
  <2> QED BY <1>1, <1>6, <2>2, <2>5 DEF Verify, FileTypes, DriveTypes, driveVars
<1>7. CASE ExtractImage(t)
  <2>1. dirs' \in [Dirs -> Copies \union {None}]
    BY <1>3, <1>7 DEF ExtractImage, Active, NeedsDirectory
  <2>2. ThreadTypes'
    <3>1. snap.progress \in 0 .. FullProgress
      BY <1>1 DEF Snapshots
    <3>2. \/ Settle(t, "Ready", snap.progress)
          \/ Proceed(t, "begin")
      BY <1>7 DEF ExtractImage
    <3> QED BY <1>1, <3>1, <3>2, SettleTyped, ProceedTyped DEF Labels, Stages
  <2> QED BY <1>1, <1>7, <2>1, <2>2 DEF ExtractImage, FileTypes, DriveTypes, driveVars
<1>8. CASE RecorderEnds(t)
  <2>1. PICK result \in {"notstarted", "failed", "ok"} :
          /\ job' = [job EXCEPT ![t].result = result]
          /\ \/ UNCHANGED disc
             \/ disc # None /\ disc' = [disc EXCEPT !.data = <<Ruined>>]
             \/ /\ disc # None /\ Readable(Content(t))
                /\ disc' = [disc EXCEPT !.data = Append(@, SessionOf(t))]
          /\ streaming' \in {"override", streaming}
    BY <1>8 DEF RecorderEnds, Writable
  <2>2. ThreadTypes'
    <3>1. [job[t] EXCEPT !.result = result] \in JobType
      BY <1>1, LocalsTyped
    <3>2. AfterWrite(t) \in Labels
      BY DEF AfterWrite, Labels
    <3> QED BY <1>1, <1>8, <2>1, <3>1, <3>2, AssignTyped DEF RecorderEnds
  <2>3. disc' \in Discs \union {None}
    <3>1. CASE UNCHANGED disc
      BY <1>1, <3>1 DEF DriveTypes
    <3>2. CASE disc # None /\ disc' = [disc EXCEPT !.data = <<Ruined>>]
      <4>1. <<Ruined>> \in Seq([session : Nat, source : Sources \union {None},
                               version : Nat, closes : BOOLEAN])
        BY DEF Ruined
      <4> QED BY <1>1, <3>2, <4>1 DEF DriveTypes, Discs
    <3>3. CASE /\ disc # None /\ Readable(Content(t))
               /\ disc' = [disc EXCEPT !.data = Append(@, SessionOf(t))]
      <4>1. SessionOf(t) \in [session : Nat, source : Sources \union {None},
                              version : Nat, closes : BOOLEAN]
        BY <1>1, <3>3, BoundsAssumption DEF SessionOf, Readable, Contents, JobType
      <4>2. disc \in Discs
        BY <1>1, <3>3 DEF DriveTypes
      <4>3. Append(disc.data, SessionOf(t))
              \in Seq([session : Nat, source : Sources \union {None},
                      version : Nat, closes : BOOLEAN])
        BY <4>1, <4>2 DEF Discs
      <4> QED BY <3>3, <4>2, <4>3 DEF Discs
    <3> QED BY <2>1, <3>1, <3>2, <3>3
  <2> QED BY <1>1, <1>8, <2>1, <2>2, <2>3
          DEF RecorderEnds, FileTypes, DriveTypes, fileVars
<1>9. CASE RestoreStreaming(t)
  <2>1. ThreadTypes'
    BY <1>1, <1>2, <1>9 DEF RestoreStreaming, Labels
  <2> QED BY <1>1, <1>9, <2>1 DEF RestoreStreaming, FileTypes, DriveTypes, fileVars
<1>10. CASE Complete(t)
  <2>1. ThreadTypes'
    BY <1>1, <1>10, SettleTyped, BoundsAssumption DEF Complete, Stages
  <2> QED BY <1>1, <1>10, <2>1 DEF Complete, FileTypes, DriveTypes, fileVars
<1> QED BY <1>4, <1>5, <1>6, <1>7, <1>8, <1>9, <1>10

-----------------------------------------------------------------------------
(* What a step does to the threads and to the owners of directories        *)

OthersKeep(t) ==
  \A u \in Workers : u # t => pc'[u] = pc[u] /\ job'[u] = job[u]

\* A step within a job
GoesOn(t) ==
  /\ OthersKeep(t) /\ UNCHANGED uiVars
  /\ Active(t) /\ Active(t)'
  /\ snap'.busy = snap.busy
  /\ job'[t].req = job[t].req

\* The step that settles a job
Ends(t) ==
  /\ OthersKeep(t) /\ UNCHANGED uiVars
  /\ Active(t) /\ pc'[t] = "tail"
  /\ ~snap'.busy

ThreadsOK == Exclusive /\ Requested /\ SpawnsAlone

\* Within a job neither busy nor the set of workers in a job changes.
LEMMA GoesOnThreads ==
  ASSUME IInv, NEW t \in Workers, GoesOn(t)
  PROVE  ThreadsOK'
<1> USE DEF IInv, GoesOn, OthersKeep
<1>1. \A u \in Workers : Active(u)' <=> Active(u)
  BY DEF Active
<1>2. Exclusive'
  BY <1>1 DEF Exclusive, OneJobAtATime, BusyMeansActive, uiVars
<1>3. Requested' /\ SpawnsAlone'
  BY <1>1 DEF Requested, SpawnsAlone, uiVars
<1> QED BY <1>2, <1>3 DEF ThreadsOK

\* The step that settles a job takes busy down, and no other job is running.
LEMMA EndsThreads ==
  ASSUME IInv, NEW t \in Workers, Ends(t)
  PROVE  ThreadsOK'
<1> USE DEF IInv, Ends, OthersKeep
<1>1. \A u \in Workers : ~Active(u)'
  BY DEF Active, Exclusive, OneJobAtATime
<1>2. ui' # "spawn"
  BY DEF SpawnsAlone, uiVars
<1> QED BY <1>1, <1>2
        DEF ThreadsOK, Exclusive, OneJobAtATime, BusyMeansActive, Requested,
            SpawnsAlone

\* A step that leaves every directory with its owner
KeepsOwners(t) ==
  /\ OthersKeep(t)
  /\ prepared' = prepared
  /\ \A d \in Dirs : dirs[d] # None => dirs'[d] # None
  /\ job'[t].tmp = job[t].tmp
  /\ job'[t].doomed = None
  /\ NeedsDirectory(t)' => NeedsDirectory(t)
  /\ pc'[t] = "validate" => job'[t].req.target # "dreamcast"

OwnersOK == HasDirectory /\ DoomedBriefly /\ DirectoriesOwnedOnce

\* A step that moves no directory cannot break the ownership of directories.
LEMMA KeepsOwnersOK ==
  ASSUME IInv, NEW t \in Workers, KeepsOwners(t)
  PROVE  OwnersOK'
<1> USE DEF IInv, KeepsOwners, OthersKeep
<1>1. HasDirectory'
  BY DEF HasDirectory, NeedsDirectory
<1>2. DoomedBriefly'
  BY DEF DoomedBriefly
<1>3. DirectoriesOwnedOnce'
  <2>1. \A u \in Workers : /\ job'[u].tmp = job[u].tmp
                           /\ job[u].tmp \in Dirs \union {None}
                           /\ job'[u].doomed \in {None, job[u].doomed}
    BY DEF TypeOK, ThreadTypes, JobType
  <2> QED BY <2>1 DEF DirectoriesOwnedOnce
<1> QED BY <1>1, <1>2, <1>3 DEF OwnersOK

\* The steps that leave directories with their owners, one by one
LEMMA QuietSteps ==
  ASSUME IInv, NEW t \in Workers, UNCHANGED <<uiVars, ver>>,
         \/ Run(t) \/ Validate(t) \/ StepFails(t) \/ Fail(t) \/ Announce(t)
         \/ CheckDrive(t) \/ EnableBurnerMax(t) \/ CapacityVerdict(t)
         \/ CheckAtip(t) \/ AfterRecorder(t) \/ TestVerdict(t)
         \/ CheckMedia(t) \/ ReadCapacity(t) \/ BeginSession(t)
         \/ CopyImage(t) \/ AutoFix(t) \/ Verify(t) \/ ExtractImage(t)
         \/ RecorderEnds(t) \/ RestoreStreaming(t) \/ Complete(t)
         \/ PreparationProgress(t) \/ WriteProgress(t)
  PROVE  KeepsOwners(t) /\ (GoesOn(t) \/ Ends(t))
<1>1. /\ pc \in [Workers -> Labels] /\ job \in [Workers -> JobType]
      /\ snap \in Snapshots /\ dirs \in [Dirs -> Copies \union {None}]
  BY DEF IInv, TypeOK, ThreadTypes, FileTypes
<1>2. job[t] \in JobType
  BY <1>1
<1>3. pc[t] \notin DOMAIN AfterDrop => job[t].doomed = None
  BY DEF IInv, DoomedBriefly
<1>4. Active(t) => snap.busy
  BY DEF IInv, Exclusive, BusyMeansActive
<1>5. ASSUME NEW label \in Labels, Proceed(t, label), UNCHANGED <<dirs, prepared>>,
             Active(t), label \notin {"unborn", "tail", "exited", "copy",
                                      "autofix", "verify", "store"},
             pc[t] \notin DOMAIN AfterDrop,
             label \in {"extract", "atip"} =>
               (NeedsDirectory(t)' => NeedsDirectory(t)),
             label = "validate" => job[t].req.target # "dreamcast"
      PROVE  KeepsOwners(t) /\ GoesOn(t)
  <2>1. OthersKeep(t) /\ pc'[t] = label /\ job' = job /\ snap' = snap
    BY <1>1, <1>5 DEF Proceed, Goto, OthersKeep
  <2>2. NeedsDirectory(t)' => NeedsDirectory(t)
    BY <1>5, <2>1 DEF NeedsDirectory
  <2> QED BY <1>3, <1>5, <2>1, <2>2 DEF KeepsOwners, GoesOn, Active
<1>6. ASSUME NEW stage \in Stages, NEW p \in 0 .. FullProgress,
             Settle(t, stage, p), prepared' = prepared, Active(t),
             \A d \in Dirs : dirs[d] # None => dirs'[d] # None
      PROVE  KeepsOwners(t) /\ Ends(t)
  <2>1. OthersKeep(t) /\ pc'[t] = "tail" /\ ~snap'.busy
    BY <1>1, <1>6 DEF Settle, Goto, OthersKeep, Snapshots
  <2>2. job'[t].tmp = job[t].tmp /\ job'[t].doomed = None
    BY <1>1, <1>6 DEF Settle, NoJob
  <2> QED BY <1>6, <2>1, <2>2 DEF KeepsOwners, Ends, NeedsDirectory
<1>7. ASSUME NEW j \in JobType, job' = [job EXCEPT ![t] = j],
             NEW label \in Labels, Goto(t, label), snap'.busy = snap.busy,
             prepared' = prepared, Active(t),
             \A d \in Dirs : dirs[d] # None => dirs'[d] # None,
             j.req = job[t].req, j.tmp = job[t].tmp, j.doomed = job[t].doomed,
             label \notin {"unborn", "tail", "exited", "atip", "extract", "validate"},
             label \in {"copy", "autofix", "verify", "store"} => NeedsDirectory(t),
             pc[t] \notin DOMAIN AfterDrop
      PROVE  KeepsOwners(t) /\ GoesOn(t)
  <2>1. OthersKeep(t) /\ pc'[t] = label /\ job'[t] = j
    BY <1>1, <1>7 DEF Goto, OthersKeep
  <2>2. NeedsDirectory(t)' => NeedsDirectory(t)
    BY <1>7, <2>1 DEF NeedsDirectory
  <2> QED BY <1>3, <1>7, <2>1, <2>2 DEF KeepsOwners, GoesOn, Active
<1> USE DEF Active, AfterDrop, Labels, NeedsDirectory, fileVars, driveVars
<1>11. CASE Run(t)
  <2>1. PICK label \in {"fail", "mediainfo", "mkdtemp", "validate"} :
          /\ Proceed(t, label)
          /\ label = "validate" => job[t].req.target # "dreamcast"
    BY <1>11 DEF Run, Proceed
  <2> QED BY <1>5, <1>11, <2>1 DEF Run
<1>12. CASE Validate(t)
  <2>1. job[t].req.target # "dreamcast"
    BY <1>12 DEF Validate, IInv, HasDirectory
  <2>2. \/ Settle(t, "Ready", snap.progress)
        \/ \E label \in {"fail", "reuse", "mediainfo", "atip"} : Proceed(t, label)
    BY <1>12 DEF Validate
  <2>3. CASE Settle(t, "Ready", snap.progress)
    BY <1>1, <1>6, <1>12, <2>3 DEF Validate, Stages, Snapshots
  <2>4. ASSUME NEW label \in {"fail", "reuse", "mediainfo", "atip"},
               Proceed(t, label)
        PROVE  KeepsOwners(t) /\ GoesOn(t)
    <3>1. NeedsDirectory(t)' => label # "atip"
      BY <1>1, <2>1, <2>4 DEF Proceed, Goto
    <3> QED BY <1>5, <1>12, <2>4, <3>1 DEF Validate
  <2> QED BY <2>2, <2>3, <2>4
<1>13. CASE StepFails(t)
  BY <1>5, <1>13 DEF StepFails
<1>14. CASE Fail(t)
  BY <1>1, <1>6, <1>14 DEF Fail, Stages, Snapshots
<1>15. CASE Announce(t)
  BY <1>5, <1>15 DEF Announce
<1>16. CASE CheckDrive(t)
  BY <1>5, <1>16 DEF CheckDrive
<1>17. CASE EnableBurnerMax(t)
  BY <1>5, <1>17 DEF EnableBurnerMax
<1>18. CASE CapacityVerdict(t)
  <2>1. \/ Settle(t, "Ready", 0)
        \/ \E label \in {"fail", "begin"} : Proceed(t, label)
    BY <1>18 DEF CapacityVerdict
  <2> QED BY <1>5, <1>6, <1>18, <2>1, BoundsAssumption DEF CapacityVerdict, Stages
<1>19. CASE CheckAtip(t)
  <2>1. \/ Proceed(t, "begin")
        \/ Proceed(t, "extract") /\ job[t].req.target = "dreamcast"
    BY <1>19 DEF CheckAtip
  <2> QED BY <1>5, <1>19, <2>1 DEF CheckAtip
<1>20. CASE AfterRecorder(t)
  <2>1. \/ \E p \in 0 .. FullProgress : Settle(t, "Ready", p)
        \/ \E label \in {"fail", "clear", "begin", "complete"} : Proceed(t, label)
    BY <1>20, BoundsAssumption DEF AfterRecorder, AfterSession
  <2> QED BY <1>5, <1>6, <1>20, <2>1 DEF AfterRecorder, Stages
<1>21. CASE CheckMedia(t) \/ ReadCapacity(t)
  <2>1. PICK j \in JobType :
          /\ job' = [job EXCEPT ![t] = j]
          /\ j.req = job[t].req /\ j.tmp = job[t].tmp
          /\ j.doomed = job[t].doomed
    BY <1>1, <1>21, MediaLocals DEF IInv, TypeOK, ThreadTypes
  <2>2. PICK label \in {"burnermax", "capacity", "checkdrive", "fit"} :
          Goto(t, label)
    BY <1>21 DEF CheckMedia, AfterMediaCheck, ReadCapacity
  <2>3. /\ Active(t) /\ pc[t] \notin DOMAIN AfterDrop
        /\ snap' = snap /\ prepared' = prepared /\ dirs' = dirs
    BY <1>21 DEF CheckMedia, ReadCapacity
  <2> QED BY <1>7, <2>1, <2>2, <2>3
<1>22. CASE BeginSession(t)
  <2>1. [job[t] EXCEPT !.session = job[t].session + 1] \in JobType
    <3>1. job[t].session + 1 \in Nat
      BY <1>2 DEF JobType
    <3> QED BY <1>2, <3>1, LocalsTyped
  <2>2. snap'.busy = snap.busy
    BY <1>1, <1>4, <1>22 DEF BeginSession, Snapshots
  <2> QED BY <1>1, <1>2, <1>7, <1>22, <2>1, <2>2 DEF BeginSession, JobType
<1>23. ASSUME CopyImage(t) \/ AutoFix(t) \/ Verify(t) \/ ExtractImage(t)
       PROVE  \A d \in Dirs : dirs[d] # None => dirs'[d] # None
  <2>1. CASE AutoFix(t)
    BY <2>1 DEF AutoFix
  <2>2. CASE CopyImage(t) \/ Verify(t) \/ ExtractImage(t)
    <3>2. job[t].tmp \in Dirs /\ dirs[job[t].tmp] \in Copies
      BY <1>1, <1>2, <2>2
      DEF CopyImage, Verify, ExtractImage, IInv, HasDirectory,
          DirectoriesOwnedOnce, JobType
    <3>3. \A d \in Dirs : d # job[t].tmp => dirs'[d] = dirs[d]
      BY <1>1, <2>2 DEF CopyImage, Verify, ExtractImage, CopySource
    <3>4. \E h \in Contents \union {None}, v \in BOOLEAN :
            dirs'[job[t].tmp] = [holds |-> h, verified |-> v]
      <4>1. CASE Verify(t)
        <5>1. dirs'[job[t].tmp] = [dirs[job[t].tmp] EXCEPT !.verified = TRUE]
          BY <1>1, <3>2, <4>1 DEF Verify
        <5> QED BY <3>2, <5>1 DEF Copies
      <4>2. CASE CopyImage(t) \/ ExtractImage(t)
        <5> DEFINE h == [source |-> job[t].req.source,
                         version |-> ver[job[t].req.source]]
        <5>1. dirs'[job[t].tmp] = [dirs[job[t].tmp] EXCEPT !.holds = h]
          BY <1>1, <3>2, <4>2 DEF CopyImage, ExtractImage, CopySource
        <5>2. h \in Contents
          <6>1. job[t].req.source \in Sources
            BY <4>2, RequestOfActive DEF CopyImage, ExtractImage
          <6>2. ver[job[t].req.source] \in 0 .. MaxVersion
            BY <6>1 DEF IInv, TypeOK, FileTypes
          <6> QED BY <6>1, <6>2 DEF Contents
        <5> HIDE DEF h
        <5> QED BY <3>2, <5>1, <5>2 DEF Copies
      <4> QED BY <2>2, <4>1, <4>2
    <3>5. dirs'[job[t].tmp] \in Copies
      BY <3>4 DEF Copies
    <3> QED BY <3>2, <3>3, <3>5, NoneIsNoCopy
  <2> QED BY <1>23, <2>1, <2>2
<1>24. CASE CopyImage(t) \/ AutoFix(t) \/ Verify(t)
  <2>1. /\ job' = [job EXCEPT ![t] = job[t]]
        /\ snap'.busy = snap.busy
        /\ prepared' = prepared
    BY <1>1, <1>24 DEF CopyImage, AutoFix, Verify, ShowPreparation, Snapshots
  <2>2. PICK label \in {"autofix", "verify", "store"} : Goto(t, label)
    BY <1>24 DEF CopyImage, AutoFix, Verify
  <2>3. Active(t) /\ NeedsDirectory(t) /\ pc[t] \notin DOMAIN AfterDrop
    BY <1>24 DEF CopyImage, AutoFix, Verify
  <2>4. \A d \in Dirs : dirs[d] # None => dirs'[d] # None
    BY <1>23, <1>24
  <2> QED BY <1>2, <1>7, <2>1, <2>2, <2>3, <2>4
<1>25. CASE ExtractImage(t)
  <2>1. \A d \in Dirs : dirs[d] # None => dirs'[d] # None
    BY <1>23, <1>25
  <2>2. CASE Settle(t, "Ready", snap.progress)
    BY <1>1, <1>6, <1>25, <2>1, <2>2 DEF ExtractImage, Stages, Snapshots
  <2>3. CASE Proceed(t, "begin")
    <3>1. job' = [job EXCEPT ![t] = job[t]] /\ snap' = snap
      BY <1>1, <2>3 DEF Proceed
    <3> QED BY <1>2, <1>7, <1>25, <2>1, <2>3, <3>1 DEF ExtractImage, Proceed
  <2> QED BY <1>25, <2>2, <2>3 DEF ExtractImage
<1>26. CASE RecorderEnds(t)
  <2>1. PICK result \in {"notstarted", "failed", "ok"} :
          job' = [job EXCEPT ![t] = [job[t] EXCEPT !.result = result]]
    BY <1>1, <1>26 DEF RecorderEnds
  <2>2. [job[t] EXCEPT !.result = result] \in JobType
    BY <1>2, LocalsTyped
  <2>3. PICK label \in {"restore", "written"} : Goto(t, label)
    BY <1>26 DEF RecorderEnds, AfterWrite
  <2> QED BY <1>2, <1>7, <1>26, <2>1, <2>2, <2>3 DEF RecorderEnds, JobType
<1>27. CASE RestoreStreaming(t)
  <2>1. job' = [job EXCEPT ![t] = job[t]]
    BY <1>1, <1>27 DEF RestoreStreaming
  <2> QED BY <1>2, <1>7, <1>27, <2>1 DEF RestoreStreaming
<1>28. CASE Complete(t)
  BY <1>6, <1>28, BoundsAssumption DEF Complete, Stages
<1>29. CASE PreparationProgress(t) \/ WriteProgress(t)
  <2>1. /\ job' = [job EXCEPT ![t] = job[t]] /\ pc' = [pc EXCEPT ![t] = pc[t]]
        /\ snap'.busy = snap.busy
        /\ prepared' = prepared /\ dirs' = dirs
    BY <1>1, <1>29
    DEF PreparationProgress, WriteProgress, ShowPreparation, Snapshots
  <2>2. pc[t] \in {"copy", "autofix", "verify", "write"}
    BY <1>29 DEF PreparationProgress, WriteProgress
  <2> QED BY <1>2, <1>7, <2>1, <2>2 DEF Goto
<1>30. CASE TestVerdict(t)
  <2>1. Proceed(t, "fail") \/ Settle(t, "Ready", 0)
    BY <1>30 DEF TestVerdict
  <2> QED BY <1>5, <1>6, <1>30, <2>1, BoundsAssumption DEF TestVerdict, Stages
<1> QED BY <1>11, <1>12, <1>13, <1>14, <1>15, <1>16, <1>17, <1>18, <1>19,
           <1>20, <1>21, <1>22, <1>24, <1>25, <1>26, <1>27, <1>28, <1>29,
           <1>30

-----------------------------------------------------------------------------
(* The steps that move directories between owners                          *)

\* They are steps within a job.
LEMMA MovesGoOn ==
  ASSUME IInv, NEW t \in Workers, UNCHANGED <<uiVars, ver>>,
         \/ TryReuse(t) \/ DropDirectory(t) \/ PrepareWorkingCopy(t)
         \/ MakeExtractionDirectory(t) \/ StorePrepared(t) \/ ClearPrepared(t)
  PROVE  GoesOn(t)
<1>1. /\ pc \in [Workers -> Labels] /\ job \in [Workers -> JobType]
      /\ job[t] \in JobType /\ snap \in Snapshots
  BY DEF IInv, TypeOK, ThreadTypes
<1>2. ASSUME NEW j \in JobType, job' = [job EXCEPT ![t] = j],
             j.req = job[t].req, snap'.busy = snap.busy, Active(t),
             NEW label \in Labels \ {"unborn", "tail", "exited"}, Goto(t, label)
      PROVE  GoesOn(t)
  BY <1>1, <1>2 DEF GoesOn, OthersKeep, Active, Goto
<1>3. CASE TryReuse(t) \/ ClearPrepared(t)
  <2>1. prepared.dir \in Dirs \union {None}
    BY DEF IInv, TypeOK, FileTypes, Caches
  <2>2. /\ [job[t] EXCEPT !.image = prepared.dir] \in JobType
        /\ [job[t] EXCEPT !.doomed = prepared.dir] \in JobType
    BY <1>1, <2>1, LocalsTyped
  <2>3. \/ job' = [job EXCEPT ![t] = [job[t] EXCEPT !.image = prepared.dir]]
        \/ job' = [job EXCEPT ![t] = [job[t] EXCEPT !.doomed = prepared.dir]]
    BY <1>1, <1>3 DEF TryReuse, ClearPrepared
  <2>4. snap'.busy = snap.busy
    BY <1>1, <1>3 DEF TryReuse, ClearPrepared, ShowPreparation, Snapshots
  <2>5. PICK label \in {"mediainfo", "dropStale", "dropBurned"} : Goto(t, label)
    BY <1>3 DEF TryReuse, ClearPrepared
  <2> QED BY <1>1, <1>2, <1>3, <2>2, <2>3, <2>4, <2>5
          DEF TryReuse, ClearPrepared, Active, Labels, JobType
<1>4. CASE DropDirectory(t)
  <2>1. [job[t] EXCEPT !.doomed = None] \in JobType
    BY <1>1, LocalsTyped
  <2>2. PICK label \in {"prepare", "announce", "complete"} : Goto(t, label)
    BY <1>4 DEF DropDirectory, AfterDrop
  <2> QED BY <1>1, <1>2, <1>4, <2>1, <2>2
          DEF DropDirectory, AfterDrop, Active, Labels, JobType
<1>5. CASE PrepareWorkingCopy(t) \/ MakeExtractionDirectory(t)
  <2>1. PICK d \in Dirs :
          job' = [job EXCEPT ![t] = [job[t] EXCEPT !.tmp = d, !.image = d]]
    BY <1>1, <1>5 DEF PrepareWorkingCopy, MakeExtractionDirectory, NewDirectory
  <2>2. [job[t] EXCEPT !.tmp = d, !.image = d] \in JobType
    BY <1>1, LocalsTyped
  <2>3. snap'.busy = snap.busy
    BY <1>1, <1>5
    DEF PrepareWorkingCopy, MakeExtractionDirectory, ShowPreparation, Snapshots
  <2>4. PICK label \in {"copy", "extract", "atip"} : Goto(t, label)
    BY <1>5 DEF PrepareWorkingCopy, MakeExtractionDirectory
  <2> QED BY <1>1, <1>2, <1>5, <2>1, <2>2, <2>3, <2>4
          DEF PrepareWorkingCopy, MakeExtractionDirectory, Active, Labels, JobType
<1>6. CASE StorePrepared(t)
  <2>1. prepared.dir \in Dirs \union {None}
    BY DEF IInv, TypeOK, FileTypes, Caches
  <2>2. /\ [job[t] EXCEPT !.tmp = None] \in JobType
        /\ [job[t] EXCEPT !.tmp = None, !.doomed = prepared.dir] \in JobType
    BY <1>1, <2>1, LocalsTyped
  <2>3. \/ job' = [job EXCEPT ![t] = [job[t] EXCEPT !.tmp = None]]
        \/ job' = [job EXCEPT ![t] = [job[t] EXCEPT !.tmp = None,
                                                 !.doomed = prepared.dir]]
    BY <1>1, <1>6 DEF StorePrepared
  <2> QED BY <1>1, <1>2, <1>6, <2>2, <2>3
          DEF StorePrepared, Active, Labels, JobType
<1> QED BY <1>3, <1>4, <1>5, <1>6

\* A directory taken out of the cache, to be reported missing or removed next
LEMMA CacheEmptied ==
  ASSUME IInv, NEW t \in Workers, OthersKeep(t), dirs' = dirs,
         prepared' = NoCopy, job'[t].doomed = prepared.dir,
         job'[t].tmp = job[t].tmp, pc'[t] \in DOMAIN AfterDrop
  PROVE  OwnersOK'
<1> USE DEF IInv, OthersKeep
<1>1. HasDirectory'
  BY DEF HasDirectory, NeedsDirectory, AfterDrop
<1>2. DoomedBriefly'
  BY DEF DoomedBriefly
<1>3. DirectoriesOwnedOnce'
  <2>1. \A u \in Workers : job'[u].tmp = job[u].tmp
    OBVIOUS
  <2>2. \A u \in Workers : job'[u].doomed \in {job[u].doomed, prepared.dir}
    OBVIOUS
  <2> QED BY <2>1, <2>2 DEF DirectoriesOwnedOnce, NoCopy
<1> QED BY <1>1, <1>2, <1>3 DEF OwnersOK

\* A removal deletes only what no other worker owns.
LEMMA Removed ==
  ASSUME IInv, NEW t \in Workers, DropDirectory(t) \/ Unwind(t)
  PROVE  OwnersOK'
<1>1. /\ pc \in [Workers -> Labels] /\ job \in [Workers -> JobType]
      /\ dirs \in [Dirs -> Copies \union {None}]
  BY DEF IInv, TypeOK, ThreadTypes, FileTypes
<1>2. /\ \A u \in Workers : u # t => pc'[u] = pc[u] /\ job'[u] = job[u]
      /\ job'[t].doomed = None /\ prepared' = prepared
      /\ ~NeedsDirectory(t)' /\ pc'[t] # "validate"
      /\ job'[t].tmp \in {job[t].tmp, None}
  <2>1. CASE DropDirectory(t)
    <3>1. job'[t] = [job[t] EXCEPT !.doomed = None] /\ job[t] \in JobType
      BY <1>1, <2>1 DEF DropDirectory
    <3>2. pc'[t] \in {"prepare", "announce", "complete"}
      BY <1>1, <2>1 DEF DropDirectory, Goto, AfterDrop
    <3> QED BY <1>1, <2>1, <3>1, <3>2
            DEF DropDirectory, Goto, NeedsDirectory, JobType
  <2>2. CASE Unwind(t)
    BY <1>1, <2>2 DEF Unwind, Goto, NeedsDirectory, NoJob
  <2> QED BY <2>1, <2>2
<1>3. \A u \in Workers : job'[u].tmp \in {job[u].tmp, None}
  BY <1>2
<1>4. \A u \in Workers : job'[u].tmp # None => dirs'[job'[u].tmp] # None
  <2> SUFFICES ASSUME NEW u \in Workers, job'[u].tmp # None
               PROVE  dirs'[job'[u].tmp] # None
    OBVIOUS
  <2>1. job'[u].tmp = job[u].tmp /\ job[u].tmp \in Dirs
    BY <1>1, <1>3 DEF JobType
  <2>2. dirs[job[u].tmp] # None
    BY <2>1 DEF IInv, DirectoriesOwnedOnce
  <2>3. CASE DropDirectory(t)
    BY <2>1, <2>2, <2>3 DEF DropDirectory, RemoveAll, IInv, DirectoriesOwnedOnce
  <2>4. CASE Unwind(t)
    <3>1. u # t
      BY <1>1, <2>1, <2>4, NoneAssumption DEF Unwind, NoJob
    <3> QED BY <2>1, <2>2, <2>4, <3>1
            DEF Unwind, RemoveAll, IInv, DirectoriesOwnedOnce
  <2> QED BY <2>3, <2>4
<1>5. HasDirectory'
  BY <1>2 DEF HasDirectory, IInv, NeedsDirectory
<1>6. DoomedBriefly'
  BY <1>2 DEF DoomedBriefly, IInv
<1>7. DirectoriesOwnedOnce'
  BY <1>2, <1>3, <1>4 DEF DirectoriesOwnedOnce, IInv
<1> QED BY <1>5, <1>6, <1>7 DEF OwnersOK

\* A new directory has a name nobody else uses.
LEMMA DirectoryMade ==
  ASSUME IInv, NEW t \in Workers,
         PrepareWorkingCopy(t) \/ MakeExtractionDirectory(t)
  PROVE  OwnersOK'
<1>1. /\ pc \in [Workers -> Labels] /\ job \in [Workers -> JobType]
      /\ dirs \in [Dirs -> Copies \union {None}]
  BY DEF IInv, TypeOK, ThreadTypes, FileTypes
<1>2. PICK d \in Dirs :
        /\ dirs[d] = None /\ d # prepared.dir
        /\ dirs' = [dirs EXCEPT ![d] = [holds |-> None, verified |-> FALSE]]
        /\ job' = [job EXCEPT ![t].tmp = d, ![t].image = d]
  BY DEF PrepareWorkingCopy, MakeExtractionDirectory, NewDirectory
<1>3. /\ \A u \in Workers : u # t => pc'[u] = pc[u] /\ job'[u] = job[u]
      /\ job'[t].tmp = d /\ job'[t].doomed = job[t].doomed /\ d # None
      /\ prepared' = prepared /\ pc'[t] # "validate"
  BY <1>1, <1>2, NoneAssumption
  DEF PrepareWorkingCopy, MakeExtractionDirectory, Goto, JobType
<1>4. \A u \in Workers : job[u].doomed = None
  <2>1. Active(t) /\ pc[t] \notin DOMAIN AfterDrop
    BY DEF PrepareWorkingCopy, MakeExtractionDirectory, Active, AfterDrop
  <2>2. \A u \in Workers : pc[u] \in DOMAIN AfterDrop => u = t
    BY <2>1 DEF Active, AfterDrop, IInv, Exclusive, OneJobAtATime
  <2> QED BY <2>1, <2>2 DEF IInv, DoomedBriefly
<1>5. \A u \in Workers : job[u].tmp # d
  BY <1>2, <1>3 DEF IInv, DirectoriesOwnedOnce
<1>6. [holds |-> None, verified |-> FALSE] # None
  <2>1. [holds |-> None, verified |-> FALSE] \in Copies
    BY DEF Copies
  <2> QED BY <2>1, NoneIsNoCopy
<1>7. HasDirectory'
  BY <1>3 DEF HasDirectory, IInv, NeedsDirectory
<1>8. DoomedBriefly'
  BY <1>3, <1>4 DEF DoomedBriefly, IInv
<1>9. DirectoriesOwnedOnce'
  <2>1. \A u \in Workers : job'[u].doomed = None
    BY <1>3, <1>4
  <2>2. \A u \in Workers : job'[u].tmp # None => dirs'[job'[u].tmp] # None
    <3> SUFFICES ASSUME NEW u \in Workers, job'[u].tmp # None
                 PROVE  dirs'[job'[u].tmp] # None
      OBVIOUS
    <3>1. CASE u = t
      BY <1>1, <1>2, <1>3, <1>6, <3>1
    <3>2. CASE u # t
      BY <1>1, <1>2, <1>3, <1>5, <3>2 DEF IInv, DirectoriesOwnedOnce
    <3> QED BY <3>1, <3>2
  <2>3. \A u \in Workers : job'[u].tmp # None => job'[u].tmp # prepared'.dir
    BY <1>2, <1>3 DEF IInv, DirectoriesOwnedOnce
  <2>4. \A u, v \in Workers : job'[u].tmp # None /\ u # v => job'[u].tmp # job'[v].tmp
    BY <1>3, <1>5 DEF IInv, DirectoriesOwnedOnce
  <2> QED BY <2>1, <2>2, <2>3, <2>4 DEF DirectoriesOwnedOnce
<1> QED BY <1>7, <1>8, <1>9 DEF OwnersOK

\* StorePreparedXgd3 hands the directory from the worker to the cache.
LEMMA DirectoryStored ==
  ASSUME IInv, NEW t \in Workers, StorePrepared(t)
  PROVE  OwnersOK'
<1>1. /\ pc \in [Workers -> Labels] /\ job \in [Workers -> JobType]
  BY DEF IInv, TypeOK, ThreadTypes
<1>2. /\ \A u \in Workers : u # t => pc'[u] = pc[u] /\ job'[u] = job[u]
      /\ job'[t].tmp = None /\ dirs' = dirs
      /\ pc'[t] = "dropReplaced"
  BY <1>1 DEF StorePrepared, Goto, JobType
<1>3. job'[t].doomed \in {None, prepared.dir}
  <2>1. job[t].doomed = None
    BY DEF StorePrepared, IInv, DoomedBriefly, AfterDrop
  <2> QED BY <1>1, <2>1 DEF StorePrepared, JobType
<1>4. prepared'.dir \in {prepared.dir, job[t].tmp}
  BY DEF StorePrepared
<1>5. job[t].tmp # None
  BY DEF StorePrepared, IInv, HasDirectory, NeedsDirectory
<1>6. HasDirectory'
  BY <1>2 DEF HasDirectory, IInv, NeedsDirectory
<1>7. DoomedBriefly'
  BY <1>2 DEF DoomedBriefly, IInv, AfterDrop
<1>8. DirectoriesOwnedOnce'
  BY <1>2, <1>3, <1>4, <1>5 DEF IInv, DirectoriesOwnedOnce
<1> QED BY <1>6, <1>7, <1>8 DEF OwnersOK

-----------------------------------------------------------------------------
(* The inductive invariant holds initially and every step preserves it     *)

\* The program starts with no worker, no directory and an empty cache.
LEMMA InitInvariant == Init => IInv
<1> SUFFICES ASSUME Init PROVE IInv
  OBVIOUS
<1>1. TypeOK
  BY InitTyped
<1>2. Exclusive /\ Requested /\ SpawnsAlone
  BY DEF Init, Exclusive, OneJobAtATime, BusyMeansActive, Active, Requested,
         SpawnsAlone, IdleSnapshot
<1>3. HasDirectory /\ DoomedBriefly /\ DirectoriesOwnedOnce
  BY DEF Init, HasDirectory, NeedsDirectory, DoomedBriefly,
         DirectoriesOwnedOnce, NoJob
<1> QED BY <1>1, <1>2, <1>3 DEF IInv

\* A step of the window's thread that accepts, refuses or ends something
LEMMA UiRequestStep == ASSUME IInv, UiRequest PROVE IInv'
<1> USE DEF IInv
<1>1. TypeOK'
  BY UiRequestTyped
<1>2. pc' = pc /\ job' = job /\ dirs' = dirs /\ prepared' = prepared
  BY DEF UiRequest, StartJob, Reset, Quit, fileVars
<1>3. OwnersOK'
  BY <1>2 DEF OwnersOK, HasDirectory, NeedsDirectory, DoomedBriefly,
              DirectoriesOwnedOnce
<1>4. \A t \in Workers : ~Active(t) /\ ~Active(t)'
  BY <1>2 DEF UiRequest, StartJob, Reset, Quit, Exclusive, BusyMeansActive, Active
<1>5. ThreadsOK'
  <2>1. CASE \E r \in Requests : StartJob(r)
    <3>1. snap'.busy
      BY <2>1 DEF StartJob, IdleSnapshot
    <3> QED BY <1>4, <2>1, <3>1
            DEF StartJob, ThreadsOK, Exclusive, OneJobAtATime, BusyMeansActive,
                Requested, SpawnsAlone
  <2>2. CASE Reset \/ Quit
    <3>1. ~snap'.busy /\ ui' # "spawn"
      BY <2>2 DEF Reset, Quit, IdleSnapshot, uiVars
    <3> QED BY <1>4, <3>1
            DEF ThreadsOK, Exclusive, OneJobAtATime, BusyMeansActive,
                Requested, SpawnsAlone
  <2> QED BY <2>1, <2>2 DEF UiRequest
<1> QED BY <1>1, <1>3, <1>5 DEF ThreadsOK, OwnersOK

\* A step of the window's thread inside Start or the destructor
LEMMA UiContinueStep == ASSUME IInv, UiContinue PROVE IInv'
<1> USE DEF IInv
<1>1. TypeOK'
  BY UiContinueTyped DEF Requested
<1>2. pc \in [Workers -> Labels] /\ job \in [Workers -> JobType]
      /\ dirs \in [Dirs -> Copies \union {None}] /\ snap' = snap
  BY DEF TypeOK, ThreadTypes, FileTypes, UiContinue, SpawnWorker, InstallWorker,
         Destroy
<1>3. CASE SpawnWorker /\ UNCHANGED fileVars
  <2>1. PICK t \in Workers :
          /\ pc' = [pc EXCEPT ![t] = "run"]
          /\ job' = [job EXCEPT ![t] = [NoJob EXCEPT !.req = pending]]
    BY <1>3 DEF SpawnWorker
  <2>2. /\ \A u \in Workers : u # t => pc'[u] = pc[u] /\ job'[u] = job[u]
        /\ pc'[t] = "run" /\ job'[t].tmp = None /\ job'[t].doomed = None
        /\ job'[t].req = pending
        /\ dirs' = dirs /\ prepared' = prepared
    BY <1>2, <1>3, <2>1 DEF NoJob, fileVars
  <2>3. ThreadsOK'
    <3>1. \A u \in Workers : Active(u)' <=> u = t
      BY <1>3, <2>2 DEF SpawnWorker, SpawnsAlone, Active
    <3>2. snap'.busy /\ ui' = "install"
      BY <1>2, <1>3 DEF SpawnWorker, Exclusive, BusyMeansActive
    <3> QED BY <1>3, <2>2, <3>1, <3>2
            DEF SpawnWorker, ThreadsOK, Exclusive, OneJobAtATime,
                BusyMeansActive, Requested, SpawnsAlone
  <2>4. OwnersOK'
    BY <2>2 DEF OwnersOK, HasDirectory, NeedsDirectory, DoomedBriefly,
                DirectoriesOwnedOnce
  <2> QED BY <1>1, <2>3, <2>4 DEF ThreadsOK, OwnersOK
<1>4. CASE InstallWorker /\ UNCHANGED fileVars
  <2>1. /\ \A u \in Workers :
             \/ pc'[u] = pc[u]
             \/ pc[u] = "exited" /\ pc'[u] = "unborn"
        /\ job' = job /\ dirs' = dirs /\ prepared' = prepared /\ ui' = "loop"
        /\ ui = "install"
    <3>1. \A u \in Workers : u = handle => pc[u] = "exited"
      BY <1>4, NoneAssumption DEF InstallWorker
    <3>2. \A u \in Workers : pc'[u] = IF u = handle THEN "unborn" ELSE pc[u]
      BY <1>4 DEF InstallWorker
    <3>3. /\ job' = job /\ dirs' = dirs /\ prepared' = prepared /\ ui' = "loop"
          /\ ui = "install"
      BY <1>4 DEF InstallWorker, fileVars
    <3> QED BY <3>1, <3>2, <3>3
  <2>2. \A u \in Workers : Active(u)' <=> Active(u)
    BY <2>1 DEF Active
  <2>3. ThreadsOK'
    <3>1. Exclusive'
      BY <1>2, <2>1, <2>2 DEF Exclusive, OneJobAtATime, BusyMeansActive
    <3> QED BY <2>1, <2>2, <3>1 DEF ThreadsOK, Requested, SpawnsAlone
  <2>4. OwnersOK'
    BY <2>1 DEF OwnersOK, HasDirectory, NeedsDirectory, DoomedBriefly,
                DirectoriesOwnedOnce, AfterDrop
  <2> QED BY <1>1, <2>3, <2>4 DEF ThreadsOK, OwnersOK
<1>5. CASE Destroy
  <2>1. /\ pc' = pc /\ job' = job /\ ui' = "closed" /\ ui = "closing"
        /\ prepared'.dir = None
        /\ \A d \in Dirs : d # prepared.dir => dirs'[d] = dirs[d]
    <3>1. FileTypes /\ prepared.dir \in Dirs \union {None}
      BY DEF TypeOK, FileTypes, Caches
    <3>2. \A d \in Dirs : d # prepared.dir => dirs'[d] = dirs[d]
      BY <1>5, <3>1, RemoveAllFacts DEF Destroy
    <3> QED BY <1>5, <3>2 DEF Destroy, NoCopy
  <2>2. ThreadsOK'
    BY <1>2, <2>1 DEF ThreadsOK, Exclusive, OneJobAtATime, BusyMeansActive,
                      Requested, SpawnsAlone, Active
  <2>3. DirectoriesOwnedOnce'
    <3>1. \A t \in Workers : job[t].tmp \in Dirs \union {None}
      BY <1>2 DEF JobType
    <3> QED BY <2>1, <3>1 DEF DirectoriesOwnedOnce
  <2>4. HasDirectory' /\ DoomedBriefly'
    BY <2>1 DEF HasDirectory, NeedsDirectory, DoomedBriefly
  <2> QED BY <1>1, <2>2, <2>3, <2>4 DEF ThreadsOK
<1> QED BY <1>3, <1>4, <1>5 DEF UiContinue

\* Files and discs change hands outside the program.
LEMMA EnvironmentStep == ASSUME IInv, Environment PROVE IInv'
<1> USE DEF IInv
<1>1. TypeOK'
  BY EnvironmentTyped
<1>2. /\ pc' = pc /\ job' = job /\ snap' = snap /\ prepared' = prepared
      /\ ui' = ui /\ pending' = pending
  BY DEF Environment, uiVars
<1>3. \A d \in Dirs : d # prepared.dir => dirs'[d] = dirs[d]
  BY DEF Environment, InsertDisc, RemoveDisc, PowerCycle, EditSource, LoseSource,
         LoseWorkingCopy, TypeOK, FileTypes
<1>4. \A t \in Workers : job[t].tmp \in Dirs \union {None}
  BY DEF TypeOK, ThreadTypes, JobType
<1>5. DirectoriesOwnedOnce'
  BY <1>2, <1>3, <1>4 DEF DirectoriesOwnedOnce
<1>6. HasDirectory' /\ DoomedBriefly'
  BY <1>2 DEF HasDirectory, NeedsDirectory, DoomedBriefly
<1>7. Exclusive' /\ Requested' /\ SpawnsAlone'
  BY <1>2 DEF Exclusive, OneJobAtATime, BusyMeansActive, Active, Requested,
              SpawnsAlone
<1> QED BY <1>1, <1>5, <1>6, <1>7

\* The destructors of a worker run while other workers may be in a job.
LEMMA UnwindThreads ==
  ASSUME IInv, NEW t \in Workers, UNCHANGED uiVars, Unwind(t)
  PROVE  ThreadsOK'
<1>1. \A u \in Workers :
        /\ Active(u)' <=> Active(u)
        /\ Active(u) => job'[u] = job[u]
  BY DEF IInv, TypeOK, ThreadTypes, Unwind, Goto, Active
<1>2. snap' = snap /\ ui' = ui /\ pending' = pending
  BY DEF Unwind, uiVars
<1> QED BY <1>1, <1>2
        DEF IInv, ThreadsOK, Exclusive, OneJobAtATime, BusyMeansActive,
            Requested, SpawnsAlone

\* A step of a worker
LEMMA WorkerStep ==
  ASSUME IInv, NEW t \in Workers, Advance(t) \/ Report(t)
  PROVE  IInv'
<1> DEFINE Quiet == \/ Run(t) \/ Validate(t) \/ StepFails(t) \/ Fail(t)
                    \/ Announce(t) \/ CheckDrive(t) \/ EnableBurnerMax(t)
                    \/ CapacityVerdict(t) \/ CheckAtip(t) \/ AfterRecorder(t)
                    \/ TestVerdict(t)
                    \/ CheckMedia(t) \/ ReadCapacity(t) \/ BeginSession(t)
                    \/ CopyImage(t) \/ AutoFix(t) \/ Verify(t)
                    \/ ExtractImage(t) \/ RecorderEnds(t)
                    \/ RestoreStreaming(t) \/ Complete(t)
                    \/ PreparationProgress(t) \/ WriteProgress(t)
           Moves == \/ TryReuse(t) \/ DropDirectory(t) \/ PrepareWorkingCopy(t)
                    \/ MakeExtractionDirectory(t) \/ StorePrepared(t)
                    \/ ClearPrepared(t)
<1>1. UNCHANGED <<uiVars, ver>> /\ (Quiet \/ Moves \/ Unwind(t))
  BY DEF Advance, Report
<1>2. TypeOK'
  <2>1. CASE Report(t)
    BY <2>1, ReportTyped DEF IInv
  <2>2. CASE Advance(t)
    BY <2>2, DecisionTyped, AssignmentTyped, CopyTyped DEF Advance
  <2> QED BY <2>1, <2>2
<1>3. CASE Quiet
  BY <1>1, <1>2, <1>3, QuietSteps, KeepsOwnersOK, GoesOnThreads, EndsThreads
  DEF IInv, ThreadsOK, OwnersOK
<1>4. CASE Moves
  <2>1. ThreadsOK'
    BY <1>1, <1>4, MovesGoOn, GoesOnThreads
  <2>2. OwnersOK'
    <3>1. OthersKeep(t)
      BY <1>1, <1>4, MovesGoOn DEF GoesOn
    <3>2. CASE TryReuse(t) \/ ClearPrepared(t)
      <4>1. /\ job \in [Workers -> JobType] /\ job[t] \in JobType
            /\ pc \in [Workers -> Labels] /\ dirs' = dirs
        BY <3>2 DEF TryReuse, ClearPrepared, IInv, TypeOK, ThreadTypes
      <4>2. job[t].doomed = None
        BY <3>2 DEF TryReuse, ClearPrepared, IInv, DoomedBriefly, AfterDrop
      <4>3. job'[t].tmp = job[t].tmp
        BY <3>2, <4>1 DEF TryReuse, ClearPrepared, JobType
      <4>4. CASE /\ prepared' = NoCopy /\ job'[t].doomed = prepared.dir
                 /\ pc'[t] \in DOMAIN AfterDrop
        BY <3>1, <4>1, <4>3, <4>4, CacheEmptied
      <4>5. CASE /\ prepared' = prepared /\ pc'[t] = "mediainfo"
                 /\ job'[t].doomed = None
        BY <3>1, <4>1, <4>3, <4>5, KeepsOwnersOK DEF KeepsOwners, NeedsDirectory
      <4>6. \/ /\ prepared' = prepared /\ pc'[t] = "mediainfo"
               /\ job'[t].doomed = job[t].doomed
            \/ /\ prepared' = NoCopy /\ job'[t].doomed = prepared.dir
               /\ pc'[t] \in {"dropStale", "dropBurned"}
        BY <3>2, <4>1 DEF TryReuse, ClearPrepared, Goto, JobType
      <4> QED BY <4>2, <4>4, <4>5, <4>6 DEF AfterDrop
    <3> QED BY <1>4, <3>2, Removed, DirectoryMade, DirectoryStored
  <2> QED BY <1>2, <2>1, <2>2 DEF IInv, ThreadsOK, OwnersOK
<1>5. CASE Unwind(t)
  BY <1>1, <1>2, <1>5, Removed, UnwindThreads DEF IInv, ThreadsOK, OwnersOK
<1> QED BY <1>1, <1>3, <1>4, <1>5

\* IInv is inductive.
LEMMA NextInvariant == ASSUME IInv, [Next]_vars PROVE IInv'
<1>1. CASE UNCHANGED vars
  BY <1>1 DEF IInv, TypeOK, ThreadTypes, FileTypes, DriveTypes, Exclusive,
     OneJobAtATime, BusyMeansActive, Active, Requested, SpawnsAlone,
     HasDirectory, NeedsDirectory, DoomedBriefly, DirectoriesOwnedOnce,
     vars, uiVars, fileVars, driveVars
<1>2. CASE Next
  BY <1>1, <1>2, UiRequestStep, UiContinueStep, WorkerStep, EnvironmentStep
  DEF Next, Stopped
<1> QED BY <1>1, <1>2

-----------------------------------------------------------------------------
(* Theorems                                                                *)

\* In every reachable state the inductive invariant holds.
THEOREM Invariance == Spec => []IInv
BY InitInvariant, NextInvariant, PTL DEF Spec

\* Every variable keeps its type whatever the helpers print and the user does;
\* in particular the progress the window draws stays between 0 and 1
\* (SetPreparationProgress and the clamps of the output parsers).
THEOREM TypeCorrectness == Spec => []TypeOK
BY Invariance, PTL DEF IInv

\* Two workers are never in a job at once, and busy is up exactly while one is
\* or is about to be, although Start is not blocked by the tail of the previous
\* worker (burn_engine.cpp:1048-1072 and the last critical section of a job).
THEOREM MutualExclusion == Spec => []Exclusive
BY Invariance, PTL DEF IInv

\* The directory of a worker exists until that worker gives it up, and nothing
\* else names it (TemporaryDirectory and the prepared-image cache).
THEOREM DirectoryOwnership == Spec => []DirectoriesOwnedOnce
BY Invariance, PTL DEF IInv

-----------------------------------------------------------------------------
(* The invariant on copies, inductive beside IInv                          *)

\* Until it makes one a worker has no temporary directory (so making one
\* forgets none), and after its destructors have run it has none again.
BeforeDirectory == {"unborn", "run", "validate", "reuse", "dropStale",
                    "prepare", "mkdtemp", "exited"}

NoneYet == \A t \in Workers : pc[t] \in BeforeDirectory => job[t].tmp = None

\* A DVD image is never extracted and never goes through the CD-R check.
DvdsAvoidCdSteps ==
  \A t \in Workers : pc[t] \in {"mkdtemp", "extract", "atip"} => ~IsDvd(job[t].req)

CacheNamesDirectory == prepared.valid => prepared.dir \in Dirs

\* What is known of the working copy while ABGX360's passes run over it
CopyGrows ==
  \A t \in Workers :
    /\ pc[t] \in {"copy", "autofix", "verify", "store"} =>
         job[t].image = job[t].tmp
    /\ pc[t] \in {"autofix", "verify", "store"} =>
         dirs[job[t].tmp].holds.source = job[t].req.source
    /\ pc[t] = "store" => dirs[job[t].tmp].verified

\* From the cache until its disc is recorded an XGD3 job has its copy, and no
\* destructor or pending removal names it.
HasCopy == {"dropReplaced", "announce", "mediainfo", "checkdrive", "burnermax",
            "capacity", "fit", "begin", "write", "restore", "written", "clear"}

NeedsCopy(t) ==
  pc[t] \in HasCopy /\ job[t].req.target = "xgd3" /\ job[t].req.op # "burnermax"

Safe(d, s) ==
  /\ d \in Dirs /\ dirs[d] # None
  /\ dirs[d].verified /\ dirs[d].holds.source = s
  /\ \A u \in Workers : d \notin {job[u].tmp, job[u].doomed}

CopyKept ==
  \A t \in Workers : NeedsCopy(t) => Safe(job[t].image, job[t].req.source)

CopyInv ==
  /\ NoneYet
  /\ DvdsAvoidCdSteps
  /\ CacheNamesDirectory
  /\ DirectoriesAccountedFor
  /\ CacheIsVerified
  /\ CopyGrows
  /\ CopyKept

-----------------------------------------------------------------------------
(* Steps that leave files and their owners alone                           *)

\* Where such a step may go
Onward(t) ==
  /\ pc'[t] \in BeforeDirectory => pc[t] \in BeforeDirectory
  /\ pc'[t] \in {"mkdtemp", "extract", "atip"} => ~IsDvd(job[t].req)
  /\ pc'[t] \in {"copy", "autofix", "verify", "store"} =>
       \/ pc'[t] = pc[t]
       \/ pc[t] = "autofix" /\ pc'[t] = "verify"
  /\ NeedsCopy(t)' => NeedsCopy(t)

LeavesFiles(t) ==
  /\ OthersKeep(t) /\ UNCHANGED fileVars
  /\ job'[t].req = job[t].req
  /\ job'[t].tmp = job[t].tmp
  /\ job'[t].image = job[t].image
  /\ job'[t].doomed = job[t].doomed

\* Such a step keeps everything that is known of the copies.
LEMMA OnwardOK ==
  ASSUME CopyInv, NEW t \in Workers, LeavesFiles(t), Onward(t)
  PROVE  CopyInv'
<1> USE DEF CopyInv, LeavesFiles, OthersKeep, fileVars
<1>1. \A u \in Workers : /\ job'[u].req = job[u].req
                         /\ job'[u].tmp = job[u].tmp
                         /\ job'[u].image = job[u].image
                         /\ job'[u].doomed = job[u].doomed
  OBVIOUS
<1>2. NoneYet' /\ DvdsAvoidCdSteps'
  BY <1>1 DEF Onward, NoneYet, DvdsAvoidCdSteps
<1>3. CacheNamesDirectory' /\ CacheIsVerified'
  BY DEF CacheNamesDirectory, CacheIsVerified
<1>4. DirectoriesAccountedFor'
  BY <1>1 DEF DirectoriesAccountedFor
<1>5. CopyGrows'
  BY <1>1 DEF Onward, CopyGrows
<1>6. CopyKept'
  BY <1>1 DEF Onward, CopyKept, NeedsCopy, Safe
<1> QED BY <1>2, <1>3, <1>4, <1>5, <1>6

\* The last critical section of a job keeps the temporary directory for the
\* destructors.
LEMMA SettleOK ==
  ASSUME IInv, CopyInv, NEW t \in Workers, NEW stage, NEW p,
         Settle(t, stage, p), Active(t), pc[t] \notin DOMAIN AfterDrop,
         UNCHANGED fileVars
  PROVE  CopyInv'
<1> USE DEF CopyInv, fileVars
<1>1. /\ \A u \in Workers : u # t => pc'[u] = pc[u] /\ job'[u] = job[u]
      /\ pc'[t] = "tail" /\ job'[t].tmp = job[t].tmp
      /\ job'[t].doomed = None /\ job[t].doomed = None
  BY DEF Settle, Goto, NoJob, IInv, TypeOK, ThreadTypes, DoomedBriefly
<1>2. NoneYet' /\ DvdsAvoidCdSteps'
  BY <1>1 DEF NoneYet, DvdsAvoidCdSteps, BeforeDirectory
<1>3. CacheNamesDirectory' /\ CacheIsVerified'
  BY DEF CacheNamesDirectory, CacheIsVerified
<1>4. DirectoriesAccountedFor'
  BY <1>1 DEF DirectoriesAccountedFor
<1>5. CopyGrows'
  BY <1>1 DEF CopyGrows
<1>6. CopyKept'
  BY <1>1 DEF CopyKept, NeedsCopy, HasCopy, Safe
<1> QED BY <1>2, <1>3, <1>4, <1>5, <1>6

\* While a worker is in a job, it alone uses directories of jobs, and only
\* its next step removes one that was taken out of the cache.
LEMMA WorkerFacts ==
  ASSUME IInv, NEW t \in Workers, Active(t)
  PROVE  /\ pc \in [Workers -> Labels] /\ job \in [Workers -> JobType]
         /\ dirs \in [Dirs -> Copies \union {None}]
         /\ job[t] \in JobType
         /\ job[t].req.source \in Sources
         /\ \A u \in Workers : u # t => ~Active(u) /\ job[u].doomed = None
         /\ pc[t] \notin DOMAIN AfterDrop => job[t].doomed = None
         /\ \A u \in Workers : job[u].tmp \in Dirs \union {None}
<1>1. /\ pc \in [Workers -> Labels] /\ job \in [Workers -> JobType]
      /\ dirs \in [Dirs -> Copies \union {None}]
  BY DEF IInv, TypeOK, ThreadTypes, FileTypes
<1>2. \A u \in Workers : u # t => ~Active(u)
  BY DEF IInv, Exclusive, OneJobAtATime
<1>3. \A u \in Workers : pc[u] \notin DOMAIN AfterDrop => job[u].doomed = None
  BY DEF IInv, DoomedBriefly
<1>4. \A u \in Workers : pc[u] \in DOMAIN AfterDrop => Active(u)
  BY DEF AfterDrop, Active
<1>5. \A u \in Workers : job[u].tmp \in Dirs \union {None}
  BY <1>1 DEF JobType
<1> QED BY <1>1, <1>2, <1>3, <1>4, <1>5, RequestOfActive

\* The steps that only look at the drive, run a helper that changes no file,
\* or choose how the job goes on
LEMMA OnwardSteps ==
  ASSUME IInv, CopyInv, NEW t \in Workers,
         \/ Run(t) \/ Validate(t) \/ StepFails(t) \/ Fail(t) \/ Announce(t)
         \/ CheckDrive(t) \/ EnableBurnerMax(t) \/ CapacityVerdict(t)
         \/ CheckAtip(t) \/ AfterRecorder(t) \/ TestVerdict(t)
         \/ CheckMedia(t) \/ ReadCapacity(t) \/ BeginSession(t)
         \/ AutoFix(t) \/ RecorderEnds(t) \/ RestoreStreaming(t)
         \/ Complete(t) \/ PreparationProgress(t) \/ WriteProgress(t)
  PROVE  CopyInv'
<1>1. pc \in [Workers -> Labels] /\ job \in [Workers -> JobType] /\ job[t] \in JobType
  BY DEF IInv, TypeOK, ThreadTypes
<1>2. ASSUME NEW label, Proceed(t, label), UNCHANGED fileVars,
             (pc'[t] = label /\ job'[t] = job[t]) => Onward(t)
      PROVE  CopyInv'
  <2>1. pc'[t] = label /\ job' = job /\ OthersKeep(t)
    BY <1>1, <1>2 DEF Proceed, Goto, OthersKeep
  <2> QED BY <1>2, <2>1, OnwardOK DEF LeavesFiles
<1>3. ASSUME NEW stage, NEW p, Settle(t, stage, p), UNCHANGED fileVars,
             Active(t), pc[t] \notin DOMAIN AfterDrop
      PROVE  CopyInv'
  BY <1>3, SettleOK
<1> USE DEF Onward, BeforeDirectory, NeedsCopy, HasCopy
<1>4. CASE Run(t)
  <2>1. PICK label \in {"fail", "mediainfo", "mkdtemp", "validate"} :
          /\ Proceed(t, label)
          /\ label = "mediainfo" => job[t].req.op = "burnermax"
          /\ label = "mkdtemp" => job[t].req.target = "dreamcast"
    BY <1>4 DEF Run, Proceed
  <2> QED BY <1>2, <1>4, <2>1 DEF Run, IsDvd, DvdTargets
<1>5. CASE Validate(t)
  <2>1. \/ Settle(t, "Ready", snap.progress)
        \/ \E label \in {"fail", "reuse", "mediainfo", "atip"} :
             /\ Proceed(t, label)
             /\ label = "mediainfo" => job[t].req.target # "xgd3"
             /\ label = "atip" => ~IsDvd(job[t].req)
    BY <1>5 DEF Validate
  <2> QED BY <1>2, <1>3, <1>5, <2>1 DEF Validate, Active, AfterDrop
<1>6. CASE StepFails(t)
  BY <1>2, <1>6 DEF StepFails
<1>7. CASE Fail(t)
  BY <1>3, <1>7 DEF Fail, Active, AfterDrop
<1>8. CASE Announce(t)
  BY <1>2, <1>8 DEF Announce
<1>9. CASE CheckDrive(t)
  BY <1>2, <1>9 DEF CheckDrive
<1>10. CASE EnableBurnerMax(t)
  BY <1>2, <1>10 DEF EnableBurnerMax
<1>11. CASE CapacityVerdict(t)
  <2>1. \/ Settle(t, "Ready", 0)
        \/ \E label \in {"fail", "begin"} : Proceed(t, label)
    BY <1>11 DEF CapacityVerdict
  <2> QED BY <1>2, <1>3, <1>11, <2>1 DEF CapacityVerdict, Active, AfterDrop
<1>12. CASE CheckAtip(t)
  <2>1. ~IsDvd(job[t].req)
    BY <1>12 DEF CheckAtip, CopyInv, DvdsAvoidCdSteps
  <2>2. \E label \in {"extract", "begin"} : Proceed(t, label)
    BY <1>12 DEF CheckAtip
  <2> QED BY <1>2, <1>12, <2>1, <2>2 DEF CheckAtip, IsDvd, DvdTargets
<1>13. CASE AfterRecorder(t)
  <2>1. \/ \E p : Settle(t, "Ready", p)
        \/ \E label \in {"fail", "clear", "begin", "complete"} :
             Proceed(t, label) /\ (label = "begin" => job[t].req.target = "dreamcast")
    BY <1>13 DEF AfterRecorder, AfterSession
  <2> QED BY <1>2, <1>3, <1>13, <2>1 DEF AfterRecorder, Active, AfterDrop
<1>14. CASE TestVerdict(t)
  <2>1. Settle(t, "Ready", 0) \/ Proceed(t, "fail")
    BY <1>14 DEF TestVerdict
  <2> QED BY <1>2, <1>3, <1>14, <2>1 DEF TestVerdict, Active, AfterDrop
<1>15. ASSUME NEW j, job' = [job EXCEPT ![t] = j], UNCHANGED fileVars,
              NEW label, Goto(t, label),
              j.req = job[t].req, j.tmp = job[t].tmp, j.image = job[t].image,
              j.doomed = job[t].doomed,
              (pc'[t] = label /\ job'[t] = j) => Onward(t)
       PROVE  CopyInv'
  <2>1. pc'[t] = label /\ job'[t] = j /\ OthersKeep(t)
    BY <1>1, <1>15 DEF Goto, OthersKeep
  <2> QED BY <1>15, <2>1, OnwardOK DEF LeavesFiles
<1>16. CASE CheckMedia(t) \/ ReadCapacity(t)
  <2>1. PICK report, bytes :
          job' = [job EXCEPT ![t] = [job[t] EXCEPT !.caps = report, !.bytes = bytes]]
    <3>1. CASE CheckMedia(t)
      BY <1>1, <3>1 DEF CheckMedia
    <3>2. CASE ReadCapacity(t)
      <4>1. PICK report : job' = [job EXCEPT ![t] = [job[t] EXCEPT !.caps = report]]
        BY <1>1, <3>2 DEF ReadCapacity
      <4>2. [job[t] EXCEPT !.caps = report]
              = [job[t] EXCEPT !.caps = report, !.bytes = job[t].bytes]
        BY <1>1 DEF JobType
      <4> QED BY <4>1, <4>2
    <3> QED BY <1>16, <3>1, <3>2
  <2>2. PICK label \in {"burnermax", "checkdrive", "fit"} : Goto(t, label)
    BY <1>16 DEF CheckMedia, AfterMediaCheck, ReadCapacity
  <2> DEFINE j == [job[t] EXCEPT !.caps = report, !.bytes = bytes]
  <2>3. /\ j.req = job[t].req /\ j.tmp = job[t].tmp /\ j.image = job[t].image
        /\ j.doomed = job[t].doomed
    BY <1>1 DEF JobType
  <2>4. job' = [job EXCEPT ![t] = j]
    BY <2>1
  <2> HIDE DEF j
  <2> QED BY <1>15, <1>16, <2>2, <2>3, <2>4 DEF CheckMedia, ReadCapacity
<1>17. CASE BeginSession(t)
  <2> DEFINE j == [job[t] EXCEPT !.session = job[t].session + 1]
  <2>1. /\ j.req = job[t].req /\ j.tmp = job[t].tmp /\ j.image = job[t].image
        /\ j.doomed = job[t].doomed
    BY <1>1 DEF JobType
  <2>2. job' = [job EXCEPT ![t] = j]
    BY <1>1, <1>17 DEF BeginSession
  <2> HIDE DEF j
  <2> QED BY <1>15, <1>17, <2>1, <2>2 DEF BeginSession
<1>18. CASE AutoFix(t) \/ RestoreStreaming(t)
  <2>1. job' = [job EXCEPT ![t] = job[t]] /\ UNCHANGED fileVars
    BY <1>1, <1>18 DEF AutoFix, RestoreStreaming
  <2> QED BY <1>15, <1>18, <2>1 DEF AutoFix, RestoreStreaming
<1>19. CASE RecorderEnds(t)
  <2>1. PICK result : job' = [job EXCEPT ![t] = [job[t] EXCEPT !.result = result]]
    BY <1>1, <1>19 DEF RecorderEnds
  <2> DEFINE j == [job[t] EXCEPT !.result = result]
  <2>2. /\ j.req = job[t].req /\ j.tmp = job[t].tmp /\ j.image = job[t].image
        /\ j.doomed = job[t].doomed
    BY <1>1 DEF JobType
  <2>3. job' = [job EXCEPT ![t] = j]
    BY <2>1
  <2>4. PICK label \in {"restore", "written"} : Goto(t, label)
    BY <1>19 DEF RecorderEnds, AfterWrite
  <2> HIDE DEF j
  <2> QED BY <1>15, <1>19, <2>2, <2>3, <2>4 DEF RecorderEnds
<1>20. CASE Complete(t)
  BY <1>3, <1>20 DEF Complete, Active, AfterDrop
<1>21. CASE PreparationProgress(t) \/ WriteProgress(t)
  <2>1. pc' = pc /\ job' = job /\ UNCHANGED fileVars
    BY <1>21 DEF PreparationProgress, WriteProgress
  <2>2. ~(pc[t] \in {"mkdtemp", "extract", "atip"})
    BY <1>21 DEF PreparationProgress, WriteProgress
  <2> QED BY <2>1, <2>2, OnwardOK DEF LeavesFiles, OthersKeep
<1> QED BY <1>4, <1>5, <1>6, <1>7, <1>8, <1>9, <1>10, <1>11, <1>12, <1>13,
           <1>14, <1>16, <1>17, <1>18, <1>19, <1>20, <1>21

-----------------------------------------------------------------------------
(* Steps that make, fill, move and remove directories                      *)

\* Of a step of the only worker in a job: what is known of the others holds
\* for lack of a job.
LEMMA OnlyWorker ==
  ASSUME IInv, CopyInv, NEW t \in Workers, Active(t), OthersKeep(t),
         job'[t].req = job[t].req,
         pc'[t] \in BeforeDirectory => job'[t].tmp = None,
         pc'[t] \in {"mkdtemp", "extract", "atip"} => ~IsDvd(job[t].req),
         pc'[t] \notin {"copy", "autofix", "verify", "store"},
         NeedsCopy(t)' => Safe(job[t].image, job[t].req.source)'
                            /\ job'[t].image = job[t].image
  PROVE  NoneYet' /\ DvdsAvoidCdSteps' /\ CopyGrows' /\ CopyKept'
<1>1. \A u \in Workers : u # t => ~Active(u)
  BY WorkerFacts
<1>2. NoneYet' /\ DvdsAvoidCdSteps' /\ CopyGrows'
  BY <1>1 DEF OthersKeep, NoneYet, DvdsAvoidCdSteps, CopyGrows, CopyInv, Active
<1>3. \A u \in Workers : NeedsCopy(u)' => u = t
  BY <1>1 DEF OthersKeep, NeedsCopy, HasCopy, Active
<1> QED BY <1>2, <1>3 DEF CopyKept

\* remove_all of a directory that was taken out of the cache
LEMMA DropOK ==
  ASSUME IInv, CopyInv, NEW t \in Workers, DropDirectory(t)
  PROVE  CopyInv'
<1>1. Active(t)
  BY DEF DropDirectory, AfterDrop, Active
<1> DEFINE gone == job[t].doomed
<1>2. /\ OthersKeep(t)
      /\ pc'[t] = AfterDrop[pc[t]]
      /\ job'[t] = [job[t] EXCEPT !.doomed = None]
      /\ \A d \in Dirs : dirs'[d] \in {dirs[d], IF d = gone THEN None ELSE dirs[d]}
      /\ gone \in Dirs => dirs'[gone] = None \/ gone \in lost'
      /\ prepared' = prepared /\ lost \subseteq lost'
  <2>1. gone \in Dirs \union {None} /\ RemoveAll(gone) /\ FileTypes
    BY <1>1, WorkerFacts DEF DropDirectory, JobType, IInv, TypeOK
  <2>2. /\ \A d \in Dirs : dirs'[d] \in {dirs[d], IF d = gone THEN None ELSE dirs[d]}
        /\ gone \in Dirs => dirs'[gone] = None \/ gone \in lost'
        /\ lost \subseteq lost'
    BY <2>1, RemoveAllFacts
  <2> QED BY <1>1, <2>2, WorkerFacts DEF DropDirectory, Goto, OthersKeep
<1>3. /\ job'[t].req = job[t].req /\ job'[t].tmp = job[t].tmp
      /\ job'[t].image = job[t].image /\ job'[t].doomed = None
  BY <1>1, <1>2, WorkerFacts DEF JobType
<1>4. \/ pc[t] = "dropStale" /\ pc'[t] = "prepare"
      \/ pc[t] = "dropReplaced" /\ pc'[t] = "announce"
      \/ pc[t] = "dropBurned" /\ pc'[t] = "complete"
  BY <1>2 DEF DropDirectory, AfterDrop
<1>5. pc'[t] \in BeforeDirectory => job'[t].tmp = None
  BY <1>3, <1>4 DEF BeforeDirectory, CopyInv, NoneYet
<1>6. NeedsCopy(t)' => Safe(job[t].image, job[t].req.source)'
  <2> SUFFICES ASSUME NeedsCopy(t)'
               PROVE  Safe(job[t].image, job[t].req.source)'
    OBVIOUS
  <2>1. Safe(job[t].image, job[t].req.source)
    BY <1>3, <1>4 DEF NeedsCopy, HasCopy, CopyInv, CopyKept
  <2>2. job[t].image # gone /\ job[t].image # None
    BY <2>1, NoneAssumption DEF Safe
  <2>3. \A u \in Workers : /\ job'[u].tmp = job[u].tmp
                           /\ job'[u].doomed \in {None, job[u].doomed}
    BY <1>2, <1>3 DEF OthersKeep
  <2> QED BY <1>2, <1>3, <2>1, <2>2, <2>3 DEF Safe
<1>7. NoneYet' /\ DvdsAvoidCdSteps' /\ CopyGrows' /\ CopyKept'
  BY <1>1, <1>2, <1>3, <1>4, <1>5, <1>6, OnlyWorker
<1>8. CacheNamesDirectory' /\ CacheIsVerified'
  BY <1>2 DEF CopyInv, CacheNamesDirectory, CacheIsVerified
<1>9. DirectoriesAccountedFor'
  BY <1>2, <1>3 DEF CopyInv, DirectoriesAccountedFor, OthersKeep
<1> QED BY <1>7, <1>8, <1>9 DEF CopyInv

\* The cache is emptied: its directory is the worker's to remove.
LEMMA EmptyOK ==
  ASSUME IInv, CopyInv, NEW t \in Workers, Active(t),
         pc[t] \notin DOMAIN AfterDrop,
         job' = [job EXCEPT ![t].doomed = prepared.dir],
         prepared' = NoCopy, dirs' = dirs, lost' = lost,
         \/ pc[t] = "reuse" /\ Goto(t, "dropStale")
         \/ pc[t] = "clear" /\ Goto(t, "dropBurned")
  PROVE  CopyInv'
<1>1. /\ OthersKeep(t)
      /\ job'[t] = [job[t] EXCEPT !.doomed = prepared.dir]
      /\ \/ pc[t] = "reuse" /\ pc'[t] = "dropStale"
         \/ pc[t] = "clear" /\ pc'[t] = "dropBurned"
  BY WorkerFacts DEF Goto, OthersKeep
<1>2. /\ job'[t].req = job[t].req /\ job'[t].tmp = job[t].tmp
      /\ job'[t].image = job[t].image /\ job'[t].doomed = prepared.dir
      /\ job[t].doomed = None
  BY <1>1, WorkerFacts DEF JobType
<1>3. NoneYet' /\ DvdsAvoidCdSteps' /\ CopyGrows' /\ CopyKept'
  BY <1>1, <1>2, OnlyWorker
  DEF NeedsCopy, HasCopy, BeforeDirectory, CopyInv, NoneYet
<1>4. CacheNamesDirectory' /\ CacheIsVerified'
  BY DEF NoCopy, CacheNamesDirectory, CacheIsVerified
<1>5. DirectoriesAccountedFor'
  BY <1>1, <1>2, NoneAssumption DEF CopyInv, DirectoriesAccountedFor, OthersKeep
<1> QED BY <1>3, <1>4, <1>5 DEF CopyInv

\* TryReusePreparedXgd3: the copy of a matching cache is safe to burn.
LEMMA ReuseOK ==
  ASSUME IInv, CopyInv, NEW t \in Workers, TryReuse(t)
  PROVE  CopyInv'
<1>1. Active(t) /\ pc[t] = "reuse" /\ pc[t] \notin DOMAIN AfterDrop
  BY DEF TryReuse, AfterDrop, Active
<1>2. CASE ~CacheMatches(job[t].req.source)
  BY <1>1, <1>2, EmptyOK DEF TryReuse
<1>3. CASE CacheMatches(job[t].req.source)
  <2>1. /\ OthersKeep(t) /\ pc'[t] = "mediainfo"
        /\ job'[t] = [job[t] EXCEPT !.image = prepared.dir]
        /\ UNCHANGED fileVars
    BY <1>1, <1>3, WorkerFacts DEF TryReuse, Goto, OthersKeep, fileVars
  <2>2. /\ job'[t].req = job[t].req /\ job'[t].tmp = job[t].tmp
        /\ job'[t].image = prepared.dir /\ job'[t].doomed = None
        /\ \A u \in Workers : job[u].doomed = None
    BY <1>1, <2>1, WorkerFacts DEF JobType
  <2>3. /\ prepared.dir \in Dirs /\ dirs[prepared.dir] # None
        /\ prepared.source = job[t].req.source
        /\ dirs[prepared.dir].verified
        /\ dirs[prepared.dir].holds.source = job[t].req.source
    BY <1>3 DEF CacheMatches, CopyInv, CacheNamesDirectory, CacheIsVerified
  <2>4. \A u \in Workers : prepared.dir \notin {job[u].tmp, job[u].doomed}
    BY <2>2, <2>3, NoneAssumption DEF IInv, DirectoriesOwnedOnce
  <2>5. Safe(job[t].image, job[t].req.source)'
    BY <2>1, <2>2, <2>3, <2>4 DEF Safe, OthersKeep, fileVars
  <2>6. NoneYet' /\ DvdsAvoidCdSteps' /\ CopyGrows'
    BY <2>1, <2>2 DEF OthersKeep, BeforeDirectory, NoneYet, DvdsAvoidCdSteps,
                      CopyGrows, CopyInv, fileVars
  <2>7. CopyKept'
    <3>1. \A u \in Workers : NeedsCopy(u)' => u = t
      BY <1>1, <2>1, WorkerFacts DEF OthersKeep, NeedsCopy, HasCopy, Active
    <3> QED BY <2>5, <3>1 DEF CopyKept
  <2>8. CacheNamesDirectory' /\ CacheIsVerified'
    BY <2>1 DEF CopyInv, CacheNamesDirectory, CacheIsVerified, fileVars
  <2>9. DirectoriesAccountedFor'
    BY <2>1, <2>2 DEF CopyInv, DirectoriesAccountedFor, OthersKeep, fileVars
  <2> QED BY <2>6, <2>7, <2>8, <2>9 DEF CopyInv
<1> QED BY <1>2, <1>3

\* ClearPreparedXgd3 after a burn
LEMMA ClearOK ==
  ASSUME IInv, CopyInv, NEW t \in Workers, ClearPrepared(t)
  PROVE  CopyInv'
<1>1. Active(t) /\ pc[t] = "clear" /\ pc[t] \notin DOMAIN AfterDrop
  BY DEF ClearPrepared, AfterDrop, Active
<1> QED BY <1>1, EmptyOK DEF ClearPrepared

\* A new directory is nobody's until now, and the worker had none to forget.
LEMMA MakeOK ==
  ASSUME IInv, CopyInv, NEW t \in Workers,
         PrepareWorkingCopy(t) \/ MakeExtractionDirectory(t)
  PROVE  CopyInv'
<1>1. Active(t) /\ pc[t] \in {"prepare", "mkdtemp"} /\ pc[t] \notin DOMAIN AfterDrop
  BY DEF PrepareWorkingCopy, MakeExtractionDirectory, AfterDrop, Active
<1>2. PICK d \in Dirs :
        /\ dirs[d] = None /\ d # prepared.dir
        /\ dirs' = [dirs EXCEPT ![d] = [holds |-> None, verified |-> FALSE]]
        /\ job' = [job EXCEPT ![t].tmp = d, ![t].image = d]
  BY DEF PrepareWorkingCopy, MakeExtractionDirectory, NewDirectory
<1>3. PICK label \in {"copy", "extract", "atip"} :
        /\ Goto(t, label)
        /\ label # "copy" => pc[t] = "mkdtemp"
        /\ prepared' = prepared /\ lost' = lost
  BY DEF PrepareWorkingCopy, MakeExtractionDirectory
<1>4. /\ OthersKeep(t) /\ pc'[t] = label
      /\ job'[t] = [job[t] EXCEPT !.tmp = d, !.image = d]
  BY <1>1, <1>2, <1>3, WorkerFacts DEF Goto, OthersKeep
<1>5. /\ job'[t].req = job[t].req /\ job'[t].tmp = d /\ job'[t].image = d
      /\ job'[t].doomed = None
      /\ job[t].tmp = None
  BY <1>1, <1>4, WorkerFacts DEF JobType, CopyInv, NoneYet, BeforeDirectory
<1>6. NoneYet' /\ DvdsAvoidCdSteps'
  BY <1>1, <1>3, <1>4, <1>5
  DEF CopyInv, NoneYet, DvdsAvoidCdSteps, BeforeDirectory, OthersKeep
<1>7. CopyGrows'
  BY <1>1, <1>4, <1>5, WorkerFacts DEF CopyGrows, OthersKeep, Active
<1>8. CopyKept'
  <2>1. \A u \in Workers : NeedsCopy(u)' => u = t
    BY <1>1, <1>4, WorkerFacts DEF OthersKeep, NeedsCopy, HasCopy, Active
  <2> QED BY <1>3, <1>4, <2>1 DEF CopyKept, NeedsCopy, HasCopy
<1>9. CacheNamesDirectory' /\ CacheIsVerified'
  BY <1>1, <1>2, <1>3, WorkerFacts DEF CopyInv, CacheNamesDirectory, CacheIsVerified
<1>10. DirectoriesAccountedFor'
  BY <1>1, <1>2, <1>3, <1>4, <1>5, WorkerFacts, NoneAssumption
  DEF CopyInv, DirectoriesAccountedFor, OthersKeep
<1> QED BY <1>6, <1>7, <1>8, <1>9, <1>10 DEF CopyInv

\* A worker fills or marks its own directory: the cache holds another.
LEMMA FillOK ==
  ASSUME IInv, CopyInv, NEW t \in Workers, Active(t),
         job[t].tmp # None, OthersKeep(t),
         job'[t].tmp = job[t].tmp,
         job[t].doomed = None, job'[t].doomed = None,
         NEW c \in Copies, dirs' = [dirs EXCEPT ![job[t].tmp] = c],
         prepared' = prepared, lost' = lost,
         ~NeedsCopy(t)', pc'[t] \notin BeforeDirectory,
         pc'[t] \notin {"mkdtemp", "extract", "atip", "copy"},
         pc'[t] \in {"autofix", "verify", "store"} =>
           /\ job'[t].image = job'[t].tmp
           /\ c.holds.source = job'[t].req.source
           /\ pc'[t] = "store" => c.verified
  PROVE  CopyInv'
<1>1. /\ dirs \in [Dirs -> Copies \union {None}] /\ job[t].tmp \in Dirs
      /\ dirs[job[t].tmp] # None /\ job[t].tmp # prepared.dir
  BY WorkerFacts DEF IInv, DirectoriesOwnedOnce
<1>2. NoneYet' /\ DvdsAvoidCdSteps'
  BY DEF CopyInv, NoneYet, DvdsAvoidCdSteps, OthersKeep
<1>3. CopyGrows'
  BY <1>1, WorkerFacts DEF CopyGrows, OthersKeep, Active
<1>4. CopyKept'
  BY WorkerFacts DEF CopyKept, NeedsCopy, HasCopy, OthersKeep, Active
<1>5. CacheNamesDirectory' /\ CacheIsVerified'
  BY <1>1 DEF CopyInv, CacheNamesDirectory, CacheIsVerified
<1>6. DirectoriesAccountedFor'
  BY <1>1, NoneAssumption DEF CopyInv, DirectoriesAccountedFor, OthersKeep
<1> QED BY <1>2, <1>3, <1>4, <1>5, <1>6 DEF CopyInv

\* CopyFileExW, the verification pass of ABGX360, and CDIrip
LEMMA CopyOK ==
  ASSUME IInv, CopyInv, NEW t \in Workers,
         CopyImage(t) \/ Verify(t) \/ ExtractImage(t)
  PROVE  CopyInv'
<1>1. /\ Active(t) /\ pc[t] \in {"copy", "verify", "extract"}
      /\ pc[t] \notin DOMAIN AfterDrop
  BY DEF CopyImage, Verify, ExtractImage, AfterDrop, Active
<1>2. /\ job[t].tmp \in Dirs /\ job[t].tmp # None /\ dirs[job[t].tmp] \in Copies
      /\ job[t].doomed = None
  BY <1>1, WorkerFacts
  DEF IInv, HasDirectory, NeedsDirectory, DirectoriesOwnedOnce
<1>3. ASSUME CopySource(t)
      PROVE  \E c \in Copies : /\ dirs' = [dirs EXCEPT ![job[t].tmp] = c]
                               /\ c.holds.source = job[t].req.source
  <2> DEFINE h == [source |-> job[t].req.source,
                   version |-> ver[job[t].req.source]]
  <2>1. h \in Contents
    BY <1>1, WorkerFacts, BoundsAssumption DEF Contents, IInv, TypeOK, FileTypes
  <2>2. dirs' = [dirs EXCEPT ![job[t].tmp] = [dirs[job[t].tmp] EXCEPT !.holds = h]]
    BY <1>1, <1>2, <1>3, WorkerFacts DEF CopySource
  <2>3. /\ [dirs[job[t].tmp] EXCEPT !.holds = h] \in Copies
        /\ [dirs[job[t].tmp] EXCEPT !.holds = h].holds = h
    BY <1>2, <2>1 DEF Copies
  <2>4. h.source = job[t].req.source
    OBVIOUS
  <2> HIDE DEF h
  <2> QED BY <2>2, <2>3, <2>4
<1>4. CASE CopyImage(t)
  <2>1. PICK c \in Copies : /\ dirs' = [dirs EXCEPT ![job[t].tmp] = c]
                            /\ c.holds.source = job[t].req.source
    BY <1>3, <1>4 DEF CopyImage
  <2>2. /\ OthersKeep(t) /\ job' = job /\ pc'[t] = "autofix"
        /\ prepared' = prepared /\ lost' = lost
    BY <1>1, <1>4, WorkerFacts DEF CopyImage, Goto, OthersKeep
  <2>3. job[t].image = job[t].tmp
    BY <1>4 DEF CopyImage, CopyInv, CopyGrows
  <2> QED BY <1>1, <1>2, <2>1, <2>2, <2>3, FillOK
          DEF NeedsCopy, HasCopy, BeforeDirectory
<1>5. CASE Verify(t)
  <2> DEFINE c == [dirs[job[t].tmp] EXCEPT !.verified = TRUE]
  <2>1. /\ job[t].image = job[t].tmp
        /\ dirs[job[t].tmp].holds.source = job[t].req.source
    BY <1>5 DEF Verify, CopyInv, CopyGrows
  <2>2. c \in Copies /\ c.verified /\ c.holds = dirs[job[t].tmp].holds
    BY <1>2 DEF Copies
  <2>3. dirs' = [dirs EXCEPT ![job[t].tmp] = c]
    BY <1>1, <1>2, <1>5, WorkerFacts DEF Verify
  <2>4. /\ OthersKeep(t) /\ job' = job /\ pc'[t] = "store"
        /\ prepared' = prepared /\ lost' = lost
    BY <1>1, <1>5, WorkerFacts DEF Verify, Goto, OthersKeep
  <2> HIDE DEF c
  <2> QED BY <1>1, <1>2, <2>1, <2>2, <2>3, <2>4, FillOK
          DEF NeedsCopy, HasCopy, BeforeDirectory
<1>6. CASE ExtractImage(t)
  <2>1. PICK c \in Copies : /\ dirs' = [dirs EXCEPT ![job[t].tmp] = c]
                            /\ c.holds.source = job[t].req.source
    BY <1>3, <1>6 DEF ExtractImage
  <2>2. ~IsDvd(job[t].req)
    BY <1>6 DEF ExtractImage, CopyInv, DvdsAvoidCdSteps
  <2>3. /\ OthersKeep(t) /\ prepared' = prepared /\ lost' = lost
        /\ pc'[t] \in {"begin", "tail"} /\ job'[t].tmp = job[t].tmp
        /\ job'[t].doomed = None
        /\ pc'[t] = "begin" => job'[t].req = job[t].req
    BY <1>1, <1>2, <1>6, WorkerFacts
    DEF ExtractImage, Settle, Proceed, Goto, OthersKeep, NoJob
  <2>4. ~NeedsCopy(t)'
    BY <2>2, <2>3 DEF NeedsCopy, HasCopy, IsDvd, DvdTargets
  <2> QED BY <1>1, <1>2, <2>1, <2>3, <2>4, FillOK DEF BeforeDirectory
<1> QED BY <1>4, <1>5, <1>6

\* StorePreparedXgd3: the verified copy goes from the worker to the cache, or
\* to nobody when the source has vanished; the job burns it either way.
LEMMA StoreOK ==
  ASSUME IInv, CopyInv, NEW t \in Workers, StorePrepared(t)
  PROVE  CopyInv'
<1> DEFINE s == job[t].req.source
           own == job[t].tmp
<1>1. Active(t) /\ pc[t] = "store" /\ pc[t] \notin DOMAIN AfterDrop
  BY DEF StorePrepared, AfterDrop, Active
<1>2. /\ own \in Dirs /\ dirs[own] # None /\ own # prepared.dir
      /\ dirs[own].verified /\ dirs[own].holds.source = s
      /\ job[t].image = own /\ job[t].doomed = None /\ own # None
      /\ \A u \in Workers : u # t => job[u].tmp # own
  BY <1>1, WorkerFacts
  DEF IInv, HasDirectory, NeedsDirectory, DirectoriesOwnedOnce, CopyInv, CopyGrows
<1>3. /\ OthersKeep(t) /\ pc'[t] = "dropReplaced" /\ dirs' = dirs
  BY <1>1, WorkerFacts DEF StorePrepared, Goto, OthersKeep
<1>4. \/ /\ ver[s] = 0 /\ prepared' = prepared /\ lost' = lost \union {own}
         /\ job'[t] = [job[t] EXCEPT !.tmp = None]
      \/ /\ prepared' = [valid |-> TRUE, source |-> s, dir |-> own, id |-> ver[s]]
         /\ job'[t] = [job[t] EXCEPT !.tmp = None, !.doomed = prepared.dir]
         /\ lost' = lost
  BY <1>1, WorkerFacts DEF StorePrepared
<1>5. /\ job'[t].req = job[t].req /\ job'[t].tmp = None /\ job'[t].image = own
      /\ \/ /\ prepared' = prepared /\ lost' = lost \union {own}
            /\ job'[t].doomed = None
         \/ /\ prepared'.valid /\ prepared'.source = s /\ prepared'.dir = own
            /\ job'[t].doomed = prepared.dir /\ lost' = lost
  <2>1. job[t] \in JobType
    BY <1>1, WorkerFacts
  <2>2. /\ [job[t] EXCEPT !.tmp = None].req = job[t].req
        /\ [job[t] EXCEPT !.tmp = None].tmp = None
        /\ [job[t] EXCEPT !.tmp = None].image = own
        /\ [job[t] EXCEPT !.tmp = None].doomed = None
    BY <1>2, <2>1 DEF JobType
  <2>3. /\ [job[t] EXCEPT !.tmp = None, !.doomed = prepared.dir].req = job[t].req
        /\ [job[t] EXCEPT !.tmp = None, !.doomed = prepared.dir].tmp = None
        /\ [job[t] EXCEPT !.tmp = None, !.doomed = prepared.dir].image = own
        /\ [job[t] EXCEPT !.tmp = None, !.doomed = prepared.dir].doomed = prepared.dir
    BY <1>2, <2>1 DEF JobType
  <2>4. ASSUME prepared' = [valid |-> TRUE, source |-> s, dir |-> own,
                            id |-> ver[s]]
        PROVE  prepared'.valid /\ prepared'.source = s /\ prepared'.dir = own
    BY <2>4
  <2> HIDE DEF s, own
  <2>5. CASE /\ ver[s] = 0 /\ prepared' = prepared /\ lost' = lost \union {own}
             /\ job'[t] = [job[t] EXCEPT !.tmp = None]
    BY <2>2, <2>5
  <2>6. CASE /\ prepared' = [valid |-> TRUE, source |-> s, dir |-> own,
                             id |-> ver[s]]
             /\ job'[t] = [job[t] EXCEPT !.tmp = None, !.doomed = prepared.dir]
             /\ lost' = lost
    BY <2>3, <2>4, <2>6
  <2> QED BY <1>4, <2>5, <2>6
<1> HIDE DEF s, own
<1>6. \A u \in Workers : own \notin {job'[u].tmp, job'[u].doomed}
  BY <1>1, <1>2, <1>3, <1>5, WorkerFacts DEF OthersKeep
<1>7. Safe(job[t].image, job[t].req.source)'
  BY <1>2, <1>3, <1>5, <1>6 DEF Safe, s
<1>8. NoneYet' /\ DvdsAvoidCdSteps' /\ CopyGrows'
  BY <1>1, <1>3, <1>5, WorkerFacts
  DEF CopyInv, NoneYet, DvdsAvoidCdSteps, CopyGrows, BeforeDirectory, OthersKeep,
      Active
<1>9. CopyKept'
  <2>1. \A u \in Workers : NeedsCopy(u)' => u = t
    BY <1>1, <1>3, WorkerFacts DEF OthersKeep, NeedsCopy, HasCopy, Active
  <2> QED BY <1>7, <2>1 DEF CopyKept
<1>10. CacheNamesDirectory' /\ CacheIsVerified'
  BY <1>2, <1>3, <1>5 DEF CopyInv, CacheNamesDirectory, CacheIsVerified
<1>11. DirectoriesAccountedFor'
  <2> SUFFICES ASSUME NEW d \in Dirs, dirs[d] # None
               PROVE  \/ \E u \in Workers : d \in {job'[u].tmp, job'[u].doomed}
                      \/ d = prepared'.dir
                      \/ d \in lost'
    BY <1>3 DEF DirectoriesAccountedFor
  <2>1. CASE d = own
    BY <1>5, <2>1
  <2>2. CASE d # own
    <3>1. \/ \E u \in Workers : d \in {job[u].tmp, job[u].doomed}
          \/ d = prepared.dir
          \/ d \in lost
      BY DEF CopyInv, DirectoriesAccountedFor
    <3>2. job[t].tmp = own
      BY DEF own
    <3> QED BY <1>2, <1>3, <1>5, <2>2, <3>1, <3>2, NoneAssumption DEF OthersKeep
  <2> QED BY <2>1, <2>2
<1> QED BY <1>8, <1>9, <1>10, <1>11 DEF CopyInv

\* The destructors of a settled job remove the directory of that job only,
\* whatever job runs meanwhile.
LEMMA UnwindOK ==
  ASSUME IInv, CopyInv, NEW t \in Workers, Unwind(t)
  PROVE  CopyInv'
<1>1. /\ pc \in [Workers -> Labels] /\ job \in [Workers -> JobType]
      /\ dirs \in [Dirs -> Copies \union {None}] /\ pc[t] = "tail"
      /\ \A u \in Workers : job[u].tmp \in Dirs \union {None}
  BY DEF Unwind, IInv, TypeOK, ThreadTypes, FileTypes, JobType
<1> DEFINE own == job[t].tmp
<1>2. /\ \A u \in Workers : u # t => pc'[u] = pc[u] /\ job'[u] = job[u]
      /\ pc'[t] = "exited" /\ job'[t].tmp = None /\ job'[t].doomed = None
      /\ \A d \in Dirs : dirs'[d] \in {dirs[d], IF d = own THEN None ELSE dirs[d]}
      /\ own \in Dirs => dirs'[own] = None \/ own \in lost'
      /\ prepared' = prepared /\ lost \subseteq lost'
  <2>1. RemoveAll(own) /\ FileTypes
    BY DEF Unwind, IInv, TypeOK
  <2>2. /\ \A d \in Dirs : dirs'[d] \in {dirs[d], IF d = own THEN None ELSE dirs[d]}
        /\ own \in Dirs => dirs'[own] = None \/ own \in lost'
        /\ lost \subseteq lost'
    BY <1>1, <2>1, RemoveAllFacts
  <2> QED BY <1>1, <2>2 DEF Unwind, Goto, NoJob
<1>3. job[t].doomed = None
  BY <1>1 DEF IInv, DoomedBriefly, AfterDrop
<1>4. \A u \in Workers : u # t /\ job[u].tmp # None => job[u].tmp # own
  BY DEF IInv, DirectoriesOwnedOnce
<1>5. NoneYet' /\ DvdsAvoidCdSteps'
  BY <1>2 DEF CopyInv, NoneYet, DvdsAvoidCdSteps
<1>6. CopyGrows'
  <2> SUFFICES ASSUME NEW u \in Workers,
                      pc'[u] \in {"copy", "autofix", "verify", "store"}
               PROVE  /\ job'[u].image = job'[u].tmp
                      /\ pc'[u] \in {"autofix", "verify", "store"} =>
                           dirs'[job'[u].tmp].holds.source = job'[u].req.source
                      /\ pc'[u] = "store" => dirs'[job'[u].tmp].verified
    BY DEF CopyGrows
  <2>1. u # t /\ pc'[u] = pc[u] /\ job'[u] = job[u]
    BY <1>2
  <2>2. job[u].tmp # None
    BY <2>1 DEF IInv, HasDirectory, NeedsDirectory
  <2>3. dirs'[job[u].tmp] = dirs[job[u].tmp]
    BY <1>1, <1>2, <1>4, <2>1, <2>2
  <2> QED BY <2>1, <2>3 DEF CopyInv, CopyGrows
<1>7. CopyKept'
  <2> SUFFICES ASSUME NEW u \in Workers, NeedsCopy(u)'
               PROVE  Safe(job[u].image, job[u].req.source)'
    BY DEF CopyKept
  <2>1. u # t /\ pc'[u] = pc[u] /\ job'[u] = job[u]
    BY <1>2 DEF NeedsCopy, HasCopy
  <2>2. Safe(job[u].image, job[u].req.source)
    BY <2>1 DEF NeedsCopy, CopyInv, CopyKept
  <2>3. job[u].image # None
    BY <2>2, NoneAssumption DEF Safe
  <2> QED BY <1>2, <2>1, <2>2, <2>3 DEF Safe
<1>8. CacheNamesDirectory' /\ CacheIsVerified'
  BY <1>2 DEF CopyInv, CacheNamesDirectory, CacheIsVerified
<1>9. DirectoriesAccountedFor'
  BY <1>2, <1>3, NoneAssumption DEF CopyInv, DirectoriesAccountedFor
<1> QED BY <1>5, <1>6, <1>7, <1>8, <1>9 DEF CopyInv

-----------------------------------------------------------------------------
(* Every step                                                              *)

\* ~BurnEngine runs only on a settled engine.
ClosedIsIdle == ui \in {"closing", "closed"} => ~snap.busy

\* What a worker does, it does within a job, but for its destructors.
LEMMA WorkerShape ==
  ASSUME IInv, NEW t \in Workers, Advance(t) \/ Report(t)
  PROVE  \/ GoesOn(t)
         \/ Ends(t)
         \/ Unwind(t) /\ UNCHANGED uiVars
<1>1. UNCHANGED <<uiVars, ver>>
  BY DEF Advance, Report
<1> QED BY <1>1, QuietSteps, MovesGoOn DEF Advance, Report

\* Closing, the window thread starts no job.
LEMMA ClosedStep ==
  ASSUME IInv, ClosedIsIdle, Next PROVE ClosedIsIdle'
<1>1. CASE UiRequest
  BY <1>1 DEF UiRequest, StartJob, Reset, Quit, ClosedIsIdle, uiVars, IdleSnapshot
<1>2. CASE UiContinue
  BY <1>2 DEF UiContinue, SpawnWorker, InstallWorker, Destroy, ClosedIsIdle
<1>3. ASSUME NEW t \in Workers, Advance(t) \/ Report(t)
      PROVE  ClosedIsIdle'
  <2>1. CASE GoesOn(t)
    BY <2>1 DEF GoesOn, ClosedIsIdle, uiVars
  <2>2. CASE Ends(t)
    BY <2>2 DEF Ends, ClosedIsIdle
  <2>3. CASE Unwind(t) /\ UNCHANGED uiVars
    BY <2>3 DEF Unwind, ClosedIsIdle, uiVars
  <2> QED BY <1>3, <2>1, <2>2, <2>3, WorkerShape
<1>4. CASE Environment \/ Stopped
  BY <1>4 DEF Environment, Stopped, ClosedIsIdle, uiVars, vars
<1> QED BY <1>1, <1>2, <1>3, <1>4 DEF Next

\* A step of a worker
LEMMA WorkerCopies ==
  ASSUME IInv, CopyInv, NEW t \in Workers, Advance(t) \/ Report(t)
  PROVE  CopyInv'
BY OnwardSteps, DropOK, ReuseOK, MakeOK, CopyOK, StoreOK, UnwindOK, ClearOK
DEF Advance, Report

\* Steps of the window's thread: with no job running nothing is promised but
\* that directories have owners and the cache is verified.
LEMMA WindowCopies ==
  ASSUME IInv, CopyInv, ClosedIsIdle, UiRequest \/ UiContinue
  PROVE  CopyInv'
<1>1. /\ pc \in [Workers -> Labels] /\ job \in [Workers -> JobType]
      /\ dirs \in [Dirs -> Copies \union {None}]
  BY DEF IInv, TypeOK, ThreadTypes, FileTypes
<1>2. CASE UiRequest
  <2>1. pc' = pc /\ job' = job /\ UNCHANGED fileVars
    BY <1>2 DEF UiRequest, StartJob, Reset, Quit
  <2> QED BY <2>1
          DEF CopyInv, NoneYet, DvdsAvoidCdSteps, CacheNamesDirectory,
              DirectoriesAccountedFor, CacheIsVerified, CopyGrows, CopyKept,
              NeedsCopy, Safe, fileVars
<1>3. CASE SpawnWorker /\ UNCHANGED fileVars
  <2>1. PICK t \in Workers :
          /\ pc[t] = "unborn"
          /\ pc' = [pc EXCEPT ![t] = "run"]
          /\ job' = [job EXCEPT ![t] = [NoJob EXCEPT !.req = pending]]
    BY <1>3 DEF SpawnWorker
  <2>2. /\ \A u \in Workers : u # t => pc'[u] = pc[u] /\ job'[u] = job[u]
        /\ pc'[t] = "run" /\ job'[t].tmp = None /\ job'[t].doomed = None
        /\ job[t].tmp = None /\ job[t].doomed = None
        /\ UNCHANGED fileVars
    BY <1>1, <1>3, <2>1
    DEF NoJob, CopyInv, NoneYet, BeforeDirectory, IInv, DoomedBriefly, AfterDrop
  <2>3. \A u \in Workers : job'[u].tmp = job[u].tmp /\ job'[u].doomed = job[u].doomed
    BY <2>2
  <2>4. NoneYet' /\ DvdsAvoidCdSteps' /\ CopyGrows' /\ CopyKept'
    BY <2>2, <2>3
    DEF CopyInv, NoneYet, DvdsAvoidCdSteps, CopyGrows, CopyKept, NeedsCopy,
        HasCopy, Safe, fileVars
  <2>5. CacheNamesDirectory' /\ CacheIsVerified' /\ DirectoriesAccountedFor'
    BY <2>2, <2>3
    DEF CopyInv, CacheNamesDirectory, CacheIsVerified, DirectoriesAccountedFor,
        fileVars
  <2> QED BY <2>4, <2>5 DEF CopyInv
<1>4. CASE InstallWorker /\ UNCHANGED fileVars
  <2>1. /\ \A u \in Workers :
             \/ pc'[u] = pc[u]
             \/ pc[u] = "exited" /\ pc'[u] = "unborn"
        /\ job' = job /\ UNCHANGED fileVars
    <3>1. \A u \in Workers : u = handle => pc[u] = "exited"
      BY <1>4, NoneAssumption DEF InstallWorker
    <3> QED BY <1>4, <3>1 DEF InstallWorker
  <2>2. NoneYet' /\ DvdsAvoidCdSteps' /\ CopyGrows' /\ CopyKept'
    BY <2>1
    DEF CopyInv, NoneYet, DvdsAvoidCdSteps, CopyGrows, CopyKept, NeedsCopy,
        HasCopy, Safe, BeforeDirectory, fileVars
  <2>3. CacheNamesDirectory' /\ CacheIsVerified' /\ DirectoriesAccountedFor'
    BY <2>1
    DEF CopyInv, CacheNamesDirectory, CacheIsVerified, DirectoriesAccountedFor,
        fileVars
  <2> QED BY <2>2, <2>3 DEF CopyInv
<1>5. CASE Destroy
  <2>1. \A u \in Workers : ~Active(u)
    BY <1>5 DEF Destroy, ClosedIsIdle, IInv, Exclusive, BusyMeansActive
  <2>2. /\ pc' = pc /\ job' = job /\ lost \subseteq lost' /\ prepared' = NoCopy
        /\ \A d \in Dirs : d # prepared.dir => dirs'[d] = dirs[d]
        /\ \A d \in Dirs : d = prepared.dir => dirs'[d] = None \/ d \in lost'
    <3>1. prepared.dir \in Dirs \union {None} /\ FileTypes
      BY DEF IInv, TypeOK, FileTypes, Caches
    <3> QED BY <1>5, <3>1, RemoveAllFacts DEF Destroy
  <2>3. NoneYet' /\ DvdsAvoidCdSteps' /\ CopyGrows' /\ CopyKept'
    BY <2>1, <2>2
    DEF CopyInv, NoneYet, DvdsAvoidCdSteps, CopyGrows, CopyKept, NeedsCopy,
        HasCopy, Active
  <2>4. CacheNamesDirectory' /\ CacheIsVerified' /\ DirectoriesAccountedFor'
    BY <2>2
    DEF CopyInv, CacheNamesDirectory, CacheIsVerified, DirectoriesAccountedFor,
        NoCopy
  <2> QED BY <2>3, <2>4 DEF CopyInv
<1> QED BY <1>2, <1>3, <1>4, <1>5 DEF UiContinue

\* Only between jobs does the user delete the cached copy.
LEMMA EnvironmentCopies ==
  ASSUME IInv, CopyInv, Environment
  PROVE  CopyInv'
<1>1. pc' = pc /\ job' = job /\ prepared' = prepared /\ lost' = lost
  BY DEF Environment
<1>2. CASE dirs' = dirs
  BY <1>1, <1>2
  DEF CopyInv, NoneYet, DvdsAvoidCdSteps, CacheNamesDirectory,
      DirectoriesAccountedFor, CacheIsVerified, CopyGrows, CopyKept,
      NeedsCopy, Safe
<1>3. CASE LoseWorkingCopy
  <2>1. \A u \in Workers : ~Active(u)
    BY <1>3 DEF LoseWorkingCopy, IInv, Exclusive, BusyMeansActive
  <2>2. \A d \in Dirs : dirs'[d] \in {None, dirs[d]}
    BY <1>3 DEF LoseWorkingCopy, IInv, TypeOK, FileTypes
  <2>3. NoneYet' /\ DvdsAvoidCdSteps' /\ CopyGrows' /\ CopyKept'
    BY <1>1, <2>1
    DEF CopyInv, NoneYet, DvdsAvoidCdSteps, CopyGrows, CopyKept, NeedsCopy,
        HasCopy, Active
  <2>4. CacheNamesDirectory' /\ CacheIsVerified' /\ DirectoriesAccountedFor'
    BY <1>1, <2>2
    DEF CopyInv, CacheNamesDirectory, CacheIsVerified, DirectoriesAccountedFor
  <2> QED BY <2>3, <2>4 DEF CopyInv
<1>4. dirs' = dirs \/ LoseWorkingCopy
  BY DEF Environment, InsertDisc, RemoveDisc, PowerCycle, EditSource, LoseSource
<1> QED BY <1>2, <1>3, <1>4

\* The three invariants together are inductive.
CopyIInv == IInv /\ ClosedIsIdle /\ CopyInv

\* The program starts without directories, with an empty cache.
LEMMA InitCopies == Init => CopyIInv
<1> SUFFICES ASSUME Init PROVE CopyIInv
  OBVIOUS
<1>1. IInv
  BY InitInvariant
<1>2. ClosedIsIdle
  BY DEF Init, ClosedIsIdle
<1>3. CopyInv
  BY DEF Init, CopyInv, NoneYet, DvdsAvoidCdSteps, CacheNamesDirectory,
         DirectoriesAccountedFor, CacheIsVerified, CopyGrows, CopyKept,
         NeedsCopy, HasCopy, NoJob, NoCopy
<1> QED BY <1>1, <1>2, <1>3 DEF CopyIInv

\* Every step preserves them.
LEMMA NextCopies == ASSUME CopyIInv, [Next]_vars PROVE CopyIInv'
<1> USE DEF CopyIInv
<1>1. IInv'
  BY NextInvariant
<1>2. CASE UNCHANGED vars
  BY <1>1, <1>2
  DEF ClosedIsIdle, CopyInv, NoneYet, DvdsAvoidCdSteps, CacheNamesDirectory,
      DirectoriesAccountedFor, CacheIsVerified, CopyGrows, CopyKept, NeedsCopy,
      Safe, vars, uiVars, fileVars
<1>3. CASE Next /\ ~UNCHANGED vars
  <2>1. ClosedIsIdle'
    BY <1>3, ClosedStep
  <2>2. CopyInv'
    BY <1>3, WorkerCopies, WindowCopies, EnvironmentCopies DEF Next, Stopped
  <2> QED BY <1>1, <2>1, <2>2
<1> QED BY <1>2, <1>3

-----------------------------------------------------------------------------
(* Theorems                                                                *)

\* In every reachable state the invariant on copies holds.
THEOREM CopyInvariance == Spec => []CopyIInv
BY InitCopies, NextCopies, PTL DEF Spec

\* Every working directory that exists is a worker's, the cache's, or one that
\* was given up, because its removal failed or StorePreparedXgd3 found its source
\* gone: no other failure of any step makes the program forget a directory of
\* several gigabytes (TemporaryDirectory, the cache functions).
THEOREM NoDirectoryForgotten == Spec => []DirectoriesAccountedFor
BY CopyInvariance, PTL DEF CopyIInv, CopyInv

\* The cache never offers a copy that ABGX360 has not verified, or one of
\* another image (TryReusePreparedXgd3, StorePreparedXgd3).
THEOREM VerifiedCache == Spec => []CacheIsVerified
BY CopyInvariance, PTL DEF CopyIInv, CopyInv

\* An XGD3 job in front of the recorder holds a verified copy of the image the
\* user selected, which no destructor and no emptying of the cache takes away.
THEOREM VerifiedCopyIsBurned == Spec => []BurnsVerifiedCopy
<1>1. CopyIInv => BurnsVerifiedCopy
  <2> SUFFICES ASSUME CopyIInv, NEW t \in Workers,
                      pc[t] \in {"checkdrive", "fit", "begin", "write"},
                      job[t].req.target = "xgd3", job[t].req.op # "burnermax"
               PROVE  /\ job[t].image # None /\ dirs[job[t].image] # None
                      /\ dirs[job[t].image].verified
                      /\ dirs[job[t].image].holds.source = job[t].req.source
    BY DEF BurnsVerifiedCopy
  <2> QED BY NoneAssumption
          DEF CopyIInv, CopyInv, CopyKept, NeedsCopy, HasCopy, Safe
<1> QED BY <1>1, CopyInvariance, PTL

-----------------------------------------------------------------------------
(* The invariant on the snapshot, inductive beside IInv                    *)

\* The steps that show a bar of their own belong to XGD3 images.
XgdSteps == {"reuse", "dropStale", "prepare", "copy", "autofix", "verify",
             "store", "dropReplaced", "announce"}

Preparation == XgdSteps \union
  {"run", "validate", "mediainfo", "checkdrive", "burnermax", "capacity",
   "fit", "atip", "mkdtemp", "extract"}

Recording == {"write", "restore", "written"}
Recorded  == {"clear", "dropBurned", "complete"}

Dreamcast(t) == job[t].req.target = "dreamcast"

\* A Dreamcast job shows no progress before it writes: its sessions take the
\* bar as they find it.
NotYetWriting(t) ==
  /\ snap.stage = "Preparing" /\ ~snap.writing /\ snap.session = 0
  /\ job[t].session = 0
  /\ Dreamcast(t) => snap.progress = 0

BetweenSessions(t) ==
  /\ Dreamcast(t) /\ BurnsDisc(t)
  /\ snap.stage = "BurningSession1" /\ snap.writing /\ snap.session = 1
  /\ job[t].session = 1
  /\ snap.progress <= WriteCap

InSession(t) ==
  /\ job[t].session \in 1 .. Sessions(job[t].req)
  /\ snap.session = job[t].session /\ snap.stage = SessionStage(job[t].session)
  /\ snap.writing <=> BurnsDisc(t)
  /\ snap.progress <= WriteCap

StageOf(t) ==
  /\ pc[t] \in Preparation => NotYetWriting(t)
  /\ pc[t] = "begin" => NotYetWriting(t) \/ BetweenSessions(t)
  /\ pc[t] \in Recording => InSession(t)
  /\ pc[t] \in Recorded => /\ BurnsDisc(t) /\ snap.writing
                           /\ snap.stage \in {"BurningSession1", "BurningSession2"}
  /\ pc[t] \in XgdSteps => job[t].req.target = "xgd3"

StageInv ==
  /\ ui = "spawn" => /\ snap.stage = "Preparing" /\ ~snap.writing
                     /\ snap.session = 0 /\ snap.progress = 0
  /\ \A t \in Workers : StageOf(t)

\* A step of BurnLifecycle, or none
LifecycleStep == [Lifecycle!Next]_(Lifecycle!lifecycleVars)

-----------------------------------------------------------------------------
(* What a step of the worker in the job has to show                        *)

\* The others are in no job, so nothing is said of them.
LEMMA OnlyStage ==
  ASSUME IInv, NEW t \in Workers, Active(t), OthersKeep(t), UNCHANGED uiVars,
         StageOf(t)'
  PROVE  StageInv'
<1>1. \A u \in Workers : u # t => ~Active(u)
  BY WorkerFacts
<1>2. \A u \in Workers : u # t => StageOf(u)'
  BY <1>1 DEF OthersKeep, StageOf, Active, XgdSteps, Preparation, Recording, Recorded
<1>3. ui' # "spawn"
  BY DEF IInv, SpawnsAlone, uiVars
<1> QED BY <1>2, <1>3 DEF StageInv

\* Where a step may go that leaves the snapshot alone
StageOnward(t) ==
  /\ pc'[t] \in Preparation => pc[t] \in Preparation
  /\ pc'[t] = "begin" =>
       \/ pc[t] \in Preparation
       \/ pc[t] = "written" /\ Dreamcast(t) /\ BurnsDisc(t) /\ job[t].session = 1
  /\ pc'[t] \in Recording => pc[t] \in Recording
  /\ pc'[t] \in Recorded =>
       \/ pc[t] \in Recorded
       \/ pc[t] = "written" /\ BurnsDisc(t)
  /\ pc'[t] \in XgdSteps => pc[t] \in XgdSteps \/ job[t].req.target = "xgd3"

\* Such a step is none for the window.
LEMMA OnwardStage ==
  ASSUME IInv, StageInv, NEW t \in Workers, Active(t), OthersKeep(t),
         UNCHANGED uiVars, snap' = snap, StageOnward(t),
         job'[t].req = job[t].req, job'[t].session = job[t].session
  PROVE  StageInv' /\ LifecycleStep
<1>1. StageOf(t)
  BY DEF StageInv
<1>2. \A n : SessionStage(n) \in {"BurningSession1", "BurningSession2"}
  BY DEF SessionStage
<1>3. StageOf(t)'
  BY <1>1, <1>2
  DEF StageOf, StageOnward, NotYetWriting, BetweenSessions, InSession, Dreamcast,
      BurnsDisc, Preparation, Recording, Recorded, XgdSteps, SessionStage
<1>4. LifecycleStep
  BY DEF LifecycleStep, Lifecycle!lifecycleVars
<1> QED BY <1>3, <1>4, OnlyStage

\* The step that settles a job settles it for the window.
LEMMA SettleStage ==
  ASSUME IInv, StageInv, NEW t \in Workers, Active(t), UNCHANGED uiVars,
         NEW stage, NEW p, Settle(t, stage, p),
         \/ stage = "Failed" /\ p = snap.progress
         \/ /\ stage = "Ready" /\ p \in {0, snap.progress, FullProgress}
            /\ \/ pc[t] \in Preparation
               \/ pc[t] \in Recording /\ ~BurnsDisc(t)
         \/ stage = "Complete" /\ p = FullProgress /\ pc[t] \in Recorded
  PROVE  StageInv' /\ LifecycleStep
<1>1. snap.busy /\ snap \in Snapshots
  BY DEF IInv, Exclusive, BusyMeansActive, TypeOK, ThreadTypes
<1>2. /\ OthersKeep(t) /\ pc'[t] = "tail"
      /\ snap' = [snap EXCEPT !.stage = stage, !.busy = FALSE,
                              !.writing = FALSE, !.progress = p]
  BY WorkerFacts DEF Settle, Goto, OthersKeep
<1>3. StageOf(t)'
  BY <1>2 DEF StageOf, Preparation, Recording, Recorded, XgdSteps
<1>4. /\ snap'.stage = stage /\ snap'.busy = FALSE /\ snap'.writing = FALSE
      /\ snap'.progress = p /\ snap'.session = snap.session
  BY <1>1, <1>2 DEF Snapshots
<1>5. StageOf(t)
  BY DEF StageInv
<1>6. Lifecycle!Settle
  <2>1. CASE stage = "Failed" /\ p = snap.progress
    BY <1>1, <1>4, <2>1 DEF Lifecycle!Settle, Lifecycle!GiveUp
  <2>2. CASE /\ stage = "Ready" /\ p \in {0, snap.progress, FullProgress}
             /\ \/ pc[t] \in Preparation
                \/ pc[t] \in Recording /\ ~BurnsDisc(t)
    BY <1>1, <1>4, <1>5, <2>2
    DEF Lifecycle!Settle, Lifecycle!FinishWithoutWriting, Lifecycle!Burning,
        StageOf, NotYetWriting, InSession, SessionStage
  <2>3. CASE stage = "Complete" /\ p = FullProgress /\ pc[t] \in Recorded
    BY <1>1, <1>4, <1>5, <2>3
    DEF Lifecycle!Settle, Lifecycle!FinishBurn, Lifecycle!Burning, StageOf
  <2> QED BY <2>1, <2>2, <2>3
<1> QED BY <1>2, <1>3, <1>6, OnlyStage DEF LifecycleStep, Lifecycle!Next

\* SetPreparationProgress is called by the XGD3 steps only.
LEMMA PreparationStage ==
  ASSUME IInv, StageInv, NEW t \in Workers, Active(t), OthersKeep(t),
         UNCHANGED uiVars, pc[t] \in XgdSteps, NEW p \in Nat, ShowPreparation(p),
         pc'[t] \in XgdSteps \union {"mediainfo"},
         job'[t].req = job[t].req, job'[t].session = job[t].session
  PROVE  StageInv' /\ LifecycleStep
<1>1. snap \in Snapshots
  BY DEF IInv, TypeOK, ThreadTypes
<1>2. /\ snap'.stage = snap.stage /\ snap'.busy = snap.busy
      /\ snap'.session = snap.session /\ snap'.writing = FALSE
      /\ snap'.progress = AtMost(FullProgress, p)
  BY <1>1 DEF ShowPreparation, Snapshots
<1>3. AtMost(FullProgress, p) \in 0 .. FullProgress
  BY BoundsAssumption DEF AtMost
<1>4. NotYetWriting(t) /\ job[t].req.target = "xgd3"
  BY DEF StageInv, StageOf, Preparation
<1>5. StageOf(t)'
  BY <1>2, <1>4
  DEF StageOf, NotYetWriting, Dreamcast, Preparation, Recording, Recorded, XgdSteps
<1>6. Lifecycle!Prepare
  BY <1>2, <1>3, <1>4 DEF Lifecycle!Prepare, NotYetWriting
<1> QED BY <1>5, <1>6, OnlyStage DEF LifecycleStep, Lifecycle!Next

-----------------------------------------------------------------------------
(* The steps, one by one                                                   *)

\* Steps that choose how the job goes on, or settle it
LEMMA DecisionStage ==
  ASSUME IInv, StageInv, NEW t \in Workers, UNCHANGED uiVars,
         \/ Run(t) \/ Validate(t) \/ StepFails(t) \/ Fail(t) \/ Announce(t)
         \/ CheckDrive(t) \/ EnableBurnerMax(t) \/ CapacityVerdict(t)
         \/ CheckAtip(t) \/ AfterRecorder(t) \/ TestVerdict(t)
         \/ ExtractImage(t) \/ Complete(t)
  PROVE  StageInv' /\ LifecycleStep
<1>1. Active(t)
  BY DEF Run, Validate, StepFails, Fail, Announce, CheckDrive, EnableBurnerMax,
         CapacityVerdict, CheckAtip, AfterRecorder, TestVerdict, ExtractImage,
         Complete, Active
<1>2. ASSUME NEW label, Proceed(t, label),
             (pc'[t] = label /\ job'[t] = job[t]) => StageOnward(t)
      PROVE  StageInv' /\ LifecycleStep
  <2>1. /\ pc'[t] = label /\ job' = job /\ snap' = snap /\ OthersKeep(t)
    BY <1>1, <1>2, WorkerFacts DEF Proceed, Goto, OthersKeep
  <2> QED BY <1>1, <1>2, <2>1, OnwardStage
<1> USE DEF StageOnward, Preparation, Recording, Recorded, XgdSteps
<1>3. CASE Run(t)
  <2>1. PICK label \in {"fail", "mediainfo", "mkdtemp", "validate"} :
          Proceed(t, label)
    BY <1>3 DEF Run, Proceed
  <2> QED BY <1>2, <1>3, <2>1 DEF Run
<1>4. CASE Validate(t)
  <2>1. \/ Settle(t, "Ready", snap.progress)
        \/ \E label \in {"fail", "reuse", "mediainfo", "atip"} :
             Proceed(t, label) /\ (label = "reuse" => job[t].req.target = "xgd3")
    BY <1>4 DEF Validate
  <2>2. pc[t] = "validate"
    BY <1>4 DEF Validate
  <2>3. CASE Settle(t, "Ready", snap.progress)
    BY <1>1, <2>2, <2>3, SettleStage
  <2> QED BY <1>2, <2>1, <2>2, <2>3
<1>5. CASE StepFails(t)
  BY <1>2, <1>5 DEF StepFails
<1>6. CASE Fail(t)
  BY <1>1, <1>6, SettleStage DEF Fail
<1>7. CASE Announce(t) \/ CheckDrive(t)
  <2>1. /\ pc[t] \in {"announce", "checkdrive"}
        /\ \E label \in {"mediainfo", "burnermax", "fit"} : Proceed(t, label)
    BY <1>7 DEF Announce, CheckDrive
  <2> QED BY <1>2, <2>1
<1>8. CASE EnableBurnerMax(t)
  <2>1. /\ pc[t] = "burnermax"
        /\ \E label \in {"capacity", "fail"} : Proceed(t, label)
    BY <1>8 DEF EnableBurnerMax
  <2> QED BY <1>2, <2>1
<1>9. CASE CapacityVerdict(t) \/ TestVerdict(t)
  <2>1. /\ pc[t] = "fit"
        /\ \/ Settle(t, "Ready", 0)
           \/ \E label \in {"fail", "begin"} : Proceed(t, label)
    BY <1>9 DEF CapacityVerdict, TestVerdict
  <2>2. CASE Settle(t, "Ready", 0)
    BY <1>1, <2>1, <2>2, SettleStage
  <2> QED BY <1>2, <2>1, <2>2
<1>10. CASE CheckAtip(t)
  <2>1. /\ pc[t] = "atip"
        /\ \E label \in {"extract", "begin"} : Proceed(t, label)
    BY <1>10 DEF CheckAtip
  <2> QED BY <1>2, <2>1
<1>11. CASE AfterRecorder(t)
  <2>1. /\ pc[t] = "written"
        /\ \/ /\ ~BurnsDisc(t)
              /\ \E p \in {0, FullProgress} : Settle(t, "Ready", p)
           \/ Proceed(t, "fail")
           \/ BurnsDisc(t) /\ Proceed(t, AfterSession(t))
    BY <1>11 DEF AfterRecorder
  <2>2. ASSUME ~BurnsDisc(t), NEW p \in {0, FullProgress}, Settle(t, "Ready", p)
        PROVE  StageInv' /\ LifecycleStep
    BY <1>1, <2>1, <2>2, SettleStage
  <2>3. CASE Proceed(t, "fail")
    BY <1>2, <2>3
  <2>4. CASE BurnsDisc(t) /\ Proceed(t, AfterSession(t))
    <3>1. \/ AfterSession(t) \in {"clear", "complete"}
          \/ /\ AfterSession(t) = "begin"
             /\ Dreamcast(t) /\ job[t].session = 1
      BY DEF AfterSession, Dreamcast
    <3> QED BY <1>2, <2>1, <2>4, <3>1
  <2> QED BY <2>1, <2>2, <2>3, <2>4
<1>12. CASE ExtractImage(t)
  <2>1. /\ pc[t] = "extract"
        /\ Settle(t, "Ready", snap.progress) \/ Proceed(t, "begin")
    BY <1>12 DEF ExtractImage
  <2>2. CASE Settle(t, "Ready", snap.progress)
    BY <1>1, <2>1, <2>2, SettleStage
  <2> QED BY <1>2, <2>1, <2>2
<1>13. CASE Complete(t)
  BY <1>1, <1>13, SettleStage DEF Complete
<1> QED BY <1>3, <1>4, <1>5, <1>6, <1>7, <1>8, <1>9, <1>10, <1>11, <1>12, <1>13

\* Steps that assign to a local variable without a word to the window
LEMMA AssignmentStage ==
  ASSUME IInv, StageInv, NEW t \in Workers, UNCHANGED uiVars,
         \/ DropDirectory(t) \/ MakeExtractionDirectory(t) \/ StorePrepared(t)
         \/ ClearPrepared(t) \/ CheckMedia(t) \/ ReadCapacity(t)
         \/ RecorderEnds(t) \/ RestoreStreaming(t)
         \/ TryReuse(t) /\ ~CacheMatches(job[t].req.source)
  PROVE  StageInv' /\ LifecycleStep
<1>1. Active(t)
  BY DEF DropDirectory, AfterDrop, MakeExtractionDirectory, StorePrepared,
         ClearPrepared, CheckMedia, ReadCapacity, RecorderEnds,
         RestoreStreaming, TryReuse, Active
<1>2. job[t] \in JobType
  BY <1>1, WorkerFacts
<1>3. ASSUME NEW j, job' = [job EXCEPT ![t] = j],
             j.req = job[t].req, j.session = job[t].session,
             NEW label, Goto(t, label), snap' = snap,
             (pc'[t] = label /\ job'[t] = j) => StageOnward(t)
      PROVE  StageInv' /\ LifecycleStep
  <2>1. pc'[t] = label /\ job'[t] = j /\ OthersKeep(t)
    BY <1>1, <1>3, WorkerFacts DEF Goto, OthersKeep
  <2> QED BY <1>1, <1>3, <2>1, OnwardStage
<1>4. \A x :
        /\ [job[t] EXCEPT !.doomed = x].req = job[t].req
        /\ [job[t] EXCEPT !.doomed = x].session = job[t].session
        /\ [job[t] EXCEPT !.tmp = x, !.image = x].req = job[t].req
        /\ [job[t] EXCEPT !.tmp = x, !.image = x].session = job[t].session
        /\ [job[t] EXCEPT !.tmp = None, !.doomed = x].req = job[t].req
        /\ [job[t] EXCEPT !.tmp = None, !.doomed = x].session = job[t].session
        /\ [job[t] EXCEPT !.tmp = x].req = job[t].req
        /\ [job[t] EXCEPT !.tmp = x].session = job[t].session
        /\ [job[t] EXCEPT !.caps = x].req = job[t].req
        /\ [job[t] EXCEPT !.caps = x].session = job[t].session
        /\ \A y :
             /\ [job[t] EXCEPT !.caps = x, !.bytes = y].req = job[t].req
             /\ [job[t] EXCEPT !.caps = x, !.bytes = y].session = job[t].session
        /\ [job[t] EXCEPT !.result = x].req = job[t].req
        /\ [job[t] EXCEPT !.result = x].session = job[t].session
  BY <1>2 DEF JobType
<1>5. job \in [Workers -> JobType]
  BY <1>1, WorkerFacts
<1> USE DEF StageOnward, Preparation, Recording, Recorded, XgdSteps
<1>6. CASE DropDirectory(t)
  <2>1. job' = [job EXCEPT ![t] = [job[t] EXCEPT !.doomed = None]]
    BY <1>5, <1>6 DEF DropDirectory
  <2>2. /\ Goto(t, AfterDrop[pc[t]]) /\ snap' = snap
        /\ \/ pc[t] = "dropStale" /\ AfterDrop[pc[t]] = "prepare"
           \/ pc[t] = "dropReplaced" /\ AfterDrop[pc[t]] = "announce"
           \/ pc[t] = "dropBurned" /\ AfterDrop[pc[t]] = "complete"
    BY <1>6 DEF DropDirectory, AfterDrop
  <2> QED BY <1>3, <1>4, <2>1, <2>2
<1>7. CASE MakeExtractionDirectory(t)
  <2>1. PICK d : job' = [job EXCEPT ![t] = [job[t] EXCEPT !.tmp = d, !.image = d]]
    BY <1>5, <1>7 DEF MakeExtractionDirectory, NewDirectory
  <2>2. /\ pc[t] = "mkdtemp" /\ snap' = snap
        /\ \E label \in {"extract", "atip"} : Goto(t, label)
    BY <1>7 DEF MakeExtractionDirectory
  <2> QED BY <1>3, <1>4, <2>1, <2>2
<1>8. CASE StorePrepared(t)
  <2>1. /\ pc[t] = "store" /\ pc'[t] = "dropReplaced" /\ snap' = snap
        /\ OthersKeep(t)
    BY <1>1, <1>8, WorkerFacts DEF StorePrepared, Goto, OthersKeep
  <2>2. \/ job'[t] = [job[t] EXCEPT !.tmp = None]
        \/ job'[t] = [job[t] EXCEPT !.tmp = None, !.doomed = prepared.dir]
    BY <1>5, <1>8 DEF StorePrepared
  <2>3. job'[t].req = job[t].req /\ job'[t].session = job[t].session
    BY <1>2, <2>2 DEF JobType
  <2> QED BY <1>1, <2>1, <2>3, OnwardStage
<1>9. CASE ClearPrepared(t) \/ (TryReuse(t) /\ ~CacheMatches(job[t].req.source))
  <2>1. /\ job'[t] = [job[t] EXCEPT !.doomed = prepared.dir]
        /\ OthersKeep(t) /\ snap' = snap
        /\ \/ pc[t] = "clear" /\ pc'[t] = "dropBurned"
           \/ pc[t] = "reuse" /\ pc'[t] = "dropStale"
    BY <1>1, <1>9, WorkerFacts DEF ClearPrepared, TryReuse, Goto, OthersKeep
  <2>2. job'[t].req = job[t].req /\ job'[t].session = job[t].session
    BY <1>4, <2>1
  <2> QED BY <1>1, <2>1, <2>2, OnwardStage
<1>10. CASE CheckMedia(t) \/ ReadCapacity(t)
  <2>1. PICK j :
          /\ job' = [job EXCEPT ![t] = j]
          /\ j.req = job[t].req /\ j.session = job[t].session
    BY <1>5, <1>10, MediaLocals
  <2>2. /\ pc[t] \in {"mediainfo", "capacity"} /\ snap' = snap
        /\ \E label \in {"burnermax", "checkdrive", "fit"} : Goto(t, label)
    BY <1>10 DEF CheckMedia, AfterMediaCheck, ReadCapacity
  <2> QED BY <1>3, <2>1, <2>2
<1>11. CASE RecorderEnds(t)
  <2>1. PICK result : job' = [job EXCEPT ![t] = [job[t] EXCEPT !.result = result]]
    BY <1>5, <1>11 DEF RecorderEnds
  <2>2. /\ pc[t] = "write" /\ snap' = snap
        /\ \E label \in {"restore", "written"} : Goto(t, label)
    BY <1>11 DEF RecorderEnds, AfterWrite
  <2> QED BY <1>3, <1>4, <2>1, <2>2
<1>12. CASE RestoreStreaming(t)
  <2>1. /\ pc[t] = "restore" /\ pc'[t] = "written" /\ OthersKeep(t)
        /\ job' = job /\ snap' = snap
    BY <1>1, <1>12, WorkerFacts DEF RestoreStreaming, Goto, OthersKeep
  <2> QED BY <1>1, <2>1, OnwardStage
<1> QED BY <1>6, <1>7, <1>8, <1>9, <1>10, <1>11, <1>12

\* Steps that move the bar while an XGD3 image is prepared
LEMMA BarStage ==
  ASSUME IInv, StageInv, NEW t \in Workers, UNCHANGED uiVars,
         \/ PrepareWorkingCopy(t) \/ CopyImage(t) \/ AutoFix(t) \/ Verify(t)
         \/ PreparationProgress(t)
         \/ TryReuse(t) /\ CacheMatches(job[t].req.source)
  PROVE  StageInv' /\ LifecycleStep
<1>1. Active(t) /\ pc[t] \in XgdSteps
  BY DEF PrepareWorkingCopy, CopyImage, AutoFix, Verify, PreparationProgress,
         TryReuse, Active, XgdSteps
<1>2. job \in [Workers -> JobType] /\ job[t] \in JobType /\ pc \in [Workers -> Labels]
  BY <1>1, WorkerFacts
<1>3. /\ OthersKeep(t)
      /\ job'[t].req = job[t].req /\ job'[t].session = job[t].session
  <2>1. CASE CopyImage(t) \/ AutoFix(t) \/ Verify(t) \/ PreparationProgress(t)
    BY <1>2, <2>1
    DEF CopyImage, AutoFix, Verify, PreparationProgress, OthersKeep, Goto
  <2>2. CASE PrepareWorkingCopy(t)
    <3>1. PICK d : job' = [job EXCEPT ![t] = [job[t] EXCEPT !.tmp = d, !.image = d]]
      BY <1>2, <2>2 DEF PrepareWorkingCopy, NewDirectory
    <3>2. /\ [job[t] EXCEPT !.tmp = d, !.image = d].req = job[t].req
          /\ [job[t] EXCEPT !.tmp = d, !.image = d].session = job[t].session
      BY <1>2 DEF JobType
    <3> QED BY <1>2, <2>2, <3>1, <3>2 DEF PrepareWorkingCopy, OthersKeep, Goto
  <2>3. CASE TryReuse(t) /\ CacheMatches(job[t].req.source)
    <3>1. job' = [job EXCEPT ![t] = [job[t] EXCEPT !.image = prepared.dir]]
      BY <1>2, <2>3 DEF TryReuse
    <3>2. /\ [job[t] EXCEPT !.image = prepared.dir].req = job[t].req
          /\ [job[t] EXCEPT !.image = prepared.dir].session = job[t].session
      BY <1>2 DEF JobType
    <3> QED BY <1>2, <2>3, <3>1, <3>2 DEF TryReuse, OthersKeep, Goto
  <2> QED BY <2>1, <2>2, <2>3
<1>4. pc'[t] \in XgdSteps \union {"mediainfo"}
  BY <1>1, <1>2
  DEF PrepareWorkingCopy, CopyImage, AutoFix, Verify, PreparationProgress,
      TryReuse, Goto, XgdSteps
<1>5. \E p \in Nat : ShowPreparation(p)
  BY BoundsAssumption
  DEF PrepareWorkingCopy, CopyImage, AutoFix, Verify, PreparationProgress,
      TryReuse, Parsed
<1> QED BY <1>1, <1>3, <1>4, <1>5, PreparationStage

\* A session begins: the first with an empty bar, the second of a Dreamcast
\* image where the first left it.
LEMMA BeginStage ==
  ASSUME IInv, StageInv, NEW t \in Workers, UNCHANGED uiVars, BeginSession(t)
  PROVE  StageInv' /\ LifecycleStep
<1>1. /\ Active(t) /\ pc[t] = "begin"
  BY DEF BeginSession, Active
<1>2. /\ job \in [Workers -> JobType] /\ job[t] \in JobType
      /\ pc \in [Workers -> Labels] /\ snap \in Snapshots /\ snap.busy
  BY <1>1, WorkerFacts DEF IInv, TypeOK, ThreadTypes, Exclusive, BusyMeansActive
<1> DEFINE n == job[t].session + 1
<1>3. /\ OthersKeep(t) /\ pc'[t] = "write"
      /\ job'[t] = [job[t] EXCEPT !.session = n]
  BY <1>2 DEF BeginSession, OthersKeep, Goto
<1>4. job'[t].session = n /\ job'[t].req = job[t].req
  BY <1>2, <1>3 DEF JobType
<1>5. /\ snap'.stage = SessionStage(n) /\ snap'.busy = TRUE
      /\ snap'.writing = BurnsDisc(t) /\ snap'.session = n
      /\ snap'.progress = IF Dreamcast(t) THEN snap.progress ELSE 0
  BY DEF BeginSession, Dreamcast
<1>6. BurnsDisc(t)' <=> BurnsDisc(t)
  BY <1>4 DEF BurnsDisc
<1>7. WriteCap \in Nat /\ snap.progress \in Nat
  BY <1>2, BoundsAssumption DEF WriteCap, Snapshots
<1>8. NotYetWriting(t) \/ BetweenSessions(t)
  BY <1>1 DEF StageInv, StageOf
<1>9. CASE NotYetWriting(t)
  <2>1. n = 1
    BY <1>9 DEF NotYetWriting
  <2>2. snap'.progress = 0
    BY <1>5, <1>9 DEF NotYetWriting
  <2>3. 1 \in 1 .. Sessions(job'[t].req)
    BY DEF Sessions
  <2>4. StageOf(t)'
    BY <1>3, <1>4, <1>5, <1>6, <1>7, <2>1, <2>2, <2>3
    DEF StageOf, InSession, SessionStage, Preparation, Recording, Recorded, XgdSteps
  <2>5. Lifecycle!OpenFirstSession
    BY <1>2, <1>5, <1>9, <2>1, <2>2
    DEF Lifecycle!OpenFirstSession, NotYetWriting, SessionStage, BurnsDisc, Snapshots
  <2> QED BY <1>1, <1>3, <2>4, <2>5, OnlyStage DEF LifecycleStep, Lifecycle!Next
<1>10. CASE BetweenSessions(t)
  <2>1. n = 2 /\ snap'.progress = snap.progress /\ snap.progress <= WriteCap
    BY <1>5, <1>10 DEF BetweenSessions
  <2>2. 2 \in 1 .. Sessions(job'[t].req)
    BY <1>4, <1>10 DEF BetweenSessions, Dreamcast, Sessions
  <2>3. StageOf(t)'
    BY <1>3, <1>4, <1>5, <1>6, <1>7, <2>1, <2>2
    DEF StageOf, InSession, SessionStage, Preparation, Recording, Recorded, XgdSteps
  <2>4. snap'.writing = TRUE /\ snap.writing = TRUE /\ snap.busy = TRUE
    BY <1>2, <1>5, <1>10 DEF BetweenSessions, Snapshots, BurnsDisc
  <2>5. snap'.stage = "BurningSession2" /\ snap'.session = 2
    BY <1>5, <2>1 DEF SessionStage
  <2>6. Lifecycle!OpenSecondSession
    BY <1>5, <1>10, <2>1, <2>4, <2>5
    DEF Lifecycle!OpenSecondSession, BetweenSessions
  <2> QED BY <1>1, <1>3, <2>3, <2>6, OnlyStage DEF LifecycleStep, Lifecycle!Next
<1> QED BY <1>8, <1>9, <1>10

\* The recorder's output moves the bar forward, and never to its end.
LEMMA WriteStage ==
  ASSUME IInv, StageInv, NEW t \in Workers, UNCHANGED uiVars, WriteProgress(t)
  PROVE  StageInv' /\ LifecycleStep
<1>1. Active(t) /\ pc[t] = "write" /\ OthersKeep(t) /\ pc' = pc /\ job' = job
  BY DEF WriteProgress, Active, OthersKeep
<1>2. PICK p \in Parsed :
        snap' = [snap EXCEPT !.progress =
                   IF AtMost(WriteCap, p) < snap.progress
                   THEN snap.progress ELSE AtMost(WriteCap, p)]
  BY DEF WriteProgress
<1>3. snap \in Snapshots
  BY DEF IInv, TypeOK, ThreadTypes
<1>4. InSession(t)
  BY <1>1 DEF StageInv, StageOf, Recording
<1>5. AtMost(WriteCap, p) \in 0 .. WriteCap
  BY BoundsAssumption DEF AtMost, WriteCap, Parsed
<1>6. snap.progress \in Nat /\ snap.progress <= WriteCap /\ WriteCap \in Nat
  BY <1>3, <1>4, BoundsAssumption DEF Snapshots, InSession, WriteCap
<1>7. /\ snap'.stage = snap.stage /\ snap'.busy = snap.busy
      /\ snap'.writing = snap.writing /\ snap'.session = snap.session
      /\ snap'.progress \in snap.progress .. WriteCap
  BY <1>2, <1>3, <1>5, <1>6 DEF Snapshots
<1>8. snap'.progress <= WriteCap
  BY <1>6, <1>7
<1>9. StageOf(t)'
  BY <1>1, <1>4, <1>7, <1>8
  DEF StageOf, InSession, BurnsDisc, Preparation, Recording, Recorded, XgdSteps
<1>10. Lifecycle!Advance
  BY <1>4, <1>7 DEF Lifecycle!Advance, Lifecycle!Burning, Lifecycle!WriteCap,
                    WriteCap, InSession, SessionStage
<1> QED BY <1>1, <1>9, <1>10, OnlyStage DEF LifecycleStep, Lifecycle!Next

\* Start, Reset, WM_CLOSE and the destructor
LEMMA WindowStage ==
  ASSUME IInv, StageInv, UiRequest \/ UiContinue
  PROVE  StageInv' /\ LifecycleStep
<1>1. pc \in [Workers -> Labels] /\ job \in [Workers -> JobType] /\ snap \in Snapshots
  BY DEF IInv, TypeOK, ThreadTypes
<1>2. ASSUME NEW r \in Requests, StartJob(r)
      PROVE  StageInv' /\ LifecycleStep
  <2>1. /\ \A t \in Workers : ~Active(t)
        /\ pc' = pc /\ job' = job /\ snap.busy = FALSE
    BY <1>1, <1>2 DEF StartJob, IInv, Exclusive, BusyMeansActive, Snapshots
  <2>2. /\ snap'.stage = "Preparing" /\ snap'.busy = TRUE /\ snap'.writing = FALSE
        /\ snap'.progress = 0 /\ snap'.session = 0
    BY <1>2 DEF StartJob, IdleSnapshot
  <2>3. StageInv'
    BY <2>1, <2>2
    DEF StageInv, StageOf, Active, Preparation, Recording, Recorded, XgdSteps
  <2>4. Lifecycle!Accept
    BY <2>1, <2>2 DEF Lifecycle!Accept
  <2> QED BY <2>3, <2>4 DEF LifecycleStep, Lifecycle!Next
<1>3. CASE Reset
  <2>1. /\ \A t \in Workers : ~Active(t)
        /\ pc' = pc /\ job' = job /\ snap.busy = FALSE /\ ui' = ui /\ ui = "loop"
    BY <1>1, <1>3 DEF Reset, uiVars, IInv, Exclusive, BusyMeansActive, Snapshots
  <2>2. /\ snap'.stage = "Idle" /\ snap'.busy = FALSE /\ snap'.writing = FALSE
        /\ snap'.progress = 0 /\ snap'.session = 0
    BY <1>3 DEF Reset, IdleSnapshot
  <2>3. StageInv'
    BY <2>1 DEF StageInv, StageOf, Active, Preparation, Recording, Recorded, XgdSteps
  <2>4. Lifecycle!Forget
    BY <2>1, <2>2 DEF Lifecycle!Forget
  <2> QED BY <2>3, <2>4 DEF LifecycleStep, Lifecycle!Next
<1>4. ASSUME snap' = snap, ui' # "spawn", \A t \in Workers : StageOf(t)'
      PROVE  StageInv' /\ LifecycleStep
  BY <1>4 DEF StageInv, LifecycleStep, Lifecycle!lifecycleVars
<1>5. CASE Quit \/ Destroy
  <2>1. pc' = pc /\ job' = job /\ snap' = snap /\ ui' # "spawn"
    BY <1>5 DEF Quit, Destroy
  <2>2. \A t \in Workers : StageOf(t)'
    BY <2>1 DEF StageInv, StageOf, NotYetWriting, BetweenSessions, InSession,
                Dreamcast, BurnsDisc
  <2> QED BY <1>4, <2>1, <2>2
<1>6. CASE InstallWorker
  <2>1. /\ \A t \in Workers : pc'[t] = pc[t] \/ pc'[t] = "unborn"
        /\ job' = job /\ snap' = snap /\ ui' # "spawn"
    BY <1>6 DEF InstallWorker
  <2>2. \A t \in Workers : StageOf(t)'
    BY <2>1 DEF StageInv, StageOf, NotYetWriting, BetweenSessions, InSession,
                Dreamcast, BurnsDisc, Preparation, Recording, Recorded, XgdSteps
  <2> QED BY <1>4, <2>1, <2>2
<1>7. CASE SpawnWorker
  <2>1. PICK t \in Workers :
          /\ pc' = [pc EXCEPT ![t] = "run"]
          /\ job' = [job EXCEPT ![t] = [NoJob EXCEPT !.req = pending]]
    BY <1>7 DEF SpawnWorker
  <2>2. /\ \A u \in Workers : u # t => pc'[u] = pc[u] /\ job'[u] = job[u]
        /\ pc'[t] = "run" /\ job'[t].session = 0
        /\ snap' = snap /\ ui' # "spawn"
    BY <1>1, <1>7, <2>1 DEF SpawnWorker, NoJob
  <2>3. \A u \in Workers : ~Active(u)
    BY <1>7 DEF SpawnWorker, IInv, SpawnsAlone
  <2>4. /\ snap.stage = "Preparing" /\ ~snap.writing
        /\ snap.session = 0 /\ snap.progress = 0
    BY <1>7 DEF SpawnWorker, StageInv
  <2>5. \A u \in Workers : StageOf(u)'
    BY <2>2, <2>3, <2>4
    DEF StageOf, NotYetWriting, Active, Preparation, Recording, Recorded, XgdSteps
  <2> QED BY <1>4, <2>2, <2>5
<1> QED BY <1>2, <1>3, <1>5, <1>6, <1>7 DEF UiRequest, UiContinue

\* Every step of the program is a step of BurnLifecycle or none.
LEMMA NextStage ==
  ASSUME IInv, StageInv, [Next]_vars
  PROVE  StageInv' /\ LifecycleStep
<1> DEFINE Same == pc' = pc /\ job' = job /\ snap' = snap /\ ui' = ui
<1>1. ASSUME Same PROVE StageInv' /\ LifecycleStep
  BY <1>1 DEF StageInv, StageOf, NotYetWriting, BetweenSessions, InSession,
              Dreamcast, BurnsDisc, LifecycleStep, Lifecycle!lifecycleVars
<1>2. CASE UNCHANGED vars \/ Environment \/ Stopped
  BY <1>1, <1>2 DEF Environment, Stopped, vars, uiVars
<1>3. CASE UiRequest \/ UiContinue
  BY <1>3, WindowStage
<1>4. ASSUME NEW t \in Workers, Advance(t) \/ Report(t)
      PROVE  StageInv' /\ LifecycleStep
  <2>1. UNCHANGED uiVars
    BY <1>4 DEF Advance, Report
  <2>2. CASE Unwind(t)
    <3>1. /\ \A u \in Workers : u # t => pc'[u] = pc[u] /\ job'[u] = job[u]
          /\ pc'[t] = "exited" /\ snap' = snap
      BY <2>2 DEF Unwind, Goto, IInv, TypeOK, ThreadTypes
    <3>2. StageInv'
      BY <2>1, <3>1
      DEF StageInv, StageOf, NotYetWriting, BetweenSessions, InSession, Dreamcast,
          BurnsDisc, Preparation, Recording, Recorded, XgdSteps, uiVars
    <3> QED BY <3>1, <3>2 DEF LifecycleStep, Lifecycle!lifecycleVars
  <2>3. CASE ~Unwind(t)
    BY <1>4, <2>1, <2>3, DecisionStage, AssignmentStage, BarStage, BeginStage,
       WriteStage
    DEF Advance, Report
  <2> QED BY <2>2, <2>3
<1> QED BY <1>2, <1>3, <1>4 DEF Next

\* The program starts as BurnLifecycle does.
LEMMA InitStage == Init => StageInv /\ Lifecycle!Init
BY DEF Init, StageInv, StageOf, IdleSnapshot, Preparation, Recording, Recorded,
       XgdSteps, Lifecycle!Init

-----------------------------------------------------------------------------
(* The drive                                                               *)

\* Which step assigns to which local variable of a job that goes on
LEMMA LocalsKept ==
  ASSUME IInv, NEW t \in Workers, Active(t), Advance(t) \/ Report(t),
         pc'[t] # "tail"
  PROVE  /\ job'[t].req = job[t].req
         /\ pc[t] \notin {"mediainfo", "capacity"} => job'[t].caps = job[t].caps
         /\ pc[t] # "mediainfo" => job'[t].bytes = job[t].bytes
         /\ pc[t] \notin {"reuse", "prepare", "mkdtemp"} =>
              job'[t].image = job[t].image
         /\ pc[t] \notin {"prepare", "mkdtemp", "store"} =>
              job'[t].tmp = job[t].tmp
         /\ pc[t] # "begin" => job'[t].session = job[t].session
         /\ pc[t] # "write" => job'[t].result = job[t].result
<1>1. /\ pc \in [Workers -> Labels] /\ job \in [Workers -> JobType]
      /\ job[t] \in JobType
  BY WorkerFacts
<1>2. \/ job' = job
      \/ \E x : \/ job'[t] = [job[t] EXCEPT !.doomed = x]
                \/ pc[t] = "reuse" /\ job'[t] = [job[t] EXCEPT !.image = x]
                \/ /\ pc[t] \in {"prepare", "mkdtemp"}
                   /\ job'[t] = [job[t] EXCEPT !.tmp = x, !.image = x]
                \/ pc[t] = "store" /\ job'[t] = [job[t] EXCEPT !.tmp = x]
                \/ pc[t] = "begin" /\ job'[t] = [job[t] EXCEPT !.session = x]
                \/ pc[t] = "write" /\ job'[t] = [job[t] EXCEPT !.result = x]
      \/ \E x : pc[t] = "store" /\ job'[t] = [job[t] EXCEPT !.tmp = None, !.doomed = x]
      \/ /\ pc[t] \in {"mediainfo", "capacity"}
         /\ \E j \in JobType :
              /\ job'[t] = j
              /\ j.req = job[t].req /\ j.tmp = job[t].tmp
              /\ j.image = job[t].image /\ j.session = job[t].session
              /\ j.result = job[t].result
              /\ pc[t] = "capacity" => j.bytes = job[t].bytes
  <2>1. CASE \/ Run(t) \/ Validate(t) \/ StepFails(t) \/ Fail(t) \/ Announce(t)
             \/ CheckDrive(t) \/ EnableBurnerMax(t) \/ CapacityVerdict(t)
             \/ CheckAtip(t) \/ AfterRecorder(t) \/ TestVerdict(t)
             \/ ExtractImage(t) \/ Complete(t)
    BY <1>1, <2>1
    DEF Run, Validate, StepFails, Fail, Announce, CheckDrive, EnableBurnerMax,
        CapacityVerdict, CheckAtip, AfterRecorder, TestVerdict, ExtractImage,
        Complete, Settle, Proceed, Goto
  <2>2. CASE \/ CopyImage(t) \/ AutoFix(t) \/ Verify(t) \/ RestoreStreaming(t)
             \/ Report(t)
    BY <2>2 DEF CopyImage, AutoFix, Verify, RestoreStreaming, Report,
                PreparationProgress, WriteProgress
  <2>3. CASE TryReuse(t) \/ DropDirectory(t) \/ ClearPrepared(t)
    BY <1>1, <2>3 DEF TryReuse, DropDirectory, ClearPrepared
  <2>4. CASE PrepareWorkingCopy(t) \/ MakeExtractionDirectory(t)
    BY <1>1, <2>4 DEF PrepareWorkingCopy, MakeExtractionDirectory, NewDirectory
  <2>5. CASE StorePrepared(t)
    BY <1>1, <2>5 DEF StorePrepared
  <2>6. CASE CheckMedia(t) \/ ReadCapacity(t)
    <3>1. /\ pc[t] \in {"mediainfo", "capacity"}
          /\ pc[t] = "capacity" => ReadCapacity(t)
      BY <2>6 DEF CheckMedia, ReadCapacity
    <3>2. PICK j \in JobType :
            /\ job' = [job EXCEPT ![t] = j]
            /\ j.req = job[t].req /\ j.tmp = job[t].tmp
            /\ j.image = job[t].image /\ j.session = job[t].session
            /\ j.result = job[t].result
            /\ ReadCapacity(t) => j.bytes = job[t].bytes
      BY <1>1, <2>6, MediaLocals
    <3>3. job'[t] = j
      BY <1>1, <3>2
    <3> QED BY <3>1, <3>2, <3>3
  <2>7. CASE BeginSession(t) \/ RecorderEnds(t)
    BY <1>1, <2>7 DEF BeginSession, RecorderEnds
  <2>8. ~Unwind(t)
    BY DEF Unwind, Active
  <2> QED BY <2>1, <2>2, <2>3, <2>4, <2>5, <2>6, <2>7, <2>8 DEF Advance
<1> QED BY <1>1, <1>2 DEF JobType

\* The steps of RunStandardImage's DVD branch and of RunBurnerMaxOnly in front
\* of the recorder, and those behind the first media check
DvdSteps   == {"mediainfo", "checkdrive", "burnermax", "capacity", "fit"}
BehindCheck == {"checkdrive", "burnermax", "capacity", "fit", "begin", "write"}

\* What the media check found still holds; BurnerMAX is on; the image, as large
\* as it was then, fits.
Checked(t) ==
  LET r == job[t].req
  IN  /\ pc[t] \in DvdSteps => IsDvd(r)
      /\ pc[t] \in BehindCheck /\ IsDvd(r) =>
           /\ disc # None /\ disc.data = <<>>
           /\ MediaAccepted(r, disc.profile, job[t].bytes)
           /\ r.op = "burnermax" \/ job[t].bytes # 0
      /\ pc[t] \in {"capacity", "fit", "begin", "write"} /\ r.target = "xgd3" =>
           burnerMax
      /\ pc[t] \in {"begin", "write"} /\ IsDvd(r) =>
           /\ job[t].bytes # 0
           /\ job[t].caps = <<>> \/ job[t].bytes <= Head(job[t].caps)
           /\ r.target = "xgd3" => FullCapacity(t)

MediaInv == \A t \in Workers : Checked(t)

\* Everything the checks on the drive rest on
BeforeWriting == IInv /\ CopyInv /\ StageInv /\ MediaInv

\* The worker in the job keeps what was checked.
LEMMA CheckedStep ==
  ASSUME BeforeWriting, NEW t \in Workers, Active(t), Advance(t) \/ Report(t)
  PROVE  Checked(t)'
<1>1. /\ IInv /\ pc \in [Workers -> Labels] /\ job[t].req \in Requests
      /\ Checked(t) /\ StageOf(t)
      /\ pc[t] \in {"extract", "atip"} => ~IsDvd(job[t].req)
  BY WorkerFacts
  DEF BeforeWriting, MediaInv, StageInv, IInv, Requested, CopyInv, DvdsAvoidCdSteps
<1> USE DEF DvdSteps, BehindCheck
<1>2. ASSUME pc'[t] \notin DvdSteps \union BehindCheck
      PROVE  Checked(t)'
  BY <1>2 DEF Checked
<1>3. ASSUME pc'[t] # "tail" PROVE job'[t].req = job[t].req
  BY <1>1, <1>3, LocalsKept
<1>4. CASE \/ StepFails(t) \/ Fail(t) \/ DropDirectory(t) \/ PrepareWorkingCopy(t)
           \/ CopyImage(t) \/ AutoFix(t) \/ Verify(t) \/ StorePrepared(t)
           \/ MakeExtractionDirectory(t) \/ RecorderEnds(t) \/ TestVerdict(t)
           \/ RestoreStreaming(t) \/ ClearPrepared(t) \/ Complete(t)
           \/ PreparationProgress(t) \/ Unwind(t)
  BY <1>1, <1>2, <1>4
  DEF StepFails, Fail, DropDirectory, AfterDrop, PrepareWorkingCopy, CopyImage,
      AutoFix, Verify, StorePrepared, MakeExtractionDirectory, RecorderEnds,
      AfterWrite, TestVerdict, RestoreStreaming, ClearPrepared, Complete,
      PreparationProgress, Unwind, Settle, Proceed, Goto
<1>5. CASE Run(t) \/ Validate(t) \/ TryReuse(t) \/ Announce(t)
  <2>1. pc'[t] \in DvdSteps \union BehindCheck =>
          pc'[t] = "mediainfo" /\ IsDvd(job[t].req)
    BY <1>1, <1>5, RequestsAssumption
    DEF Run, Validate, TryReuse, Announce, Settle, Proceed, Goto, StageOf, XgdSteps,
        IsDvd, DvdTargets
  <2>2. pc'[t] = "mediainfo" => IsDvd(job'[t].req)
    BY <1>3, <2>1 DEF IsDvd
  <2> QED BY <1>2, <2>1, <2>2 DEF Checked
<1>6. CASE CheckMedia(t)
  <2>1. /\ disc' = disc /\ disc # None /\ disc.data = <<>>
        /\ MediaAccepted(job[t].req, disc.profile, job'[t].bytes)
        /\ job[t].req.op = "burnermax" \/ job'[t].bytes # 0
        /\ pc'[t] \in {"checkdrive", "burnermax", "fit"}
        /\ pc'[t] = "fit" => job[t].req.target # "xgd3"
        /\ IsDvd(job[t].req)
    <3>1. job'[t].bytes = ImageBytes(t)
      BY <1>1, <1>6, WorkerFacts DEF CheckMedia, JobType
    <3> QED BY <1>1, <1>6, <3>1
            DEF CheckMedia, Checked, AfterMediaCheck, Goto, driveVars
  <2>2. job'[t].req = job[t].req
    BY <1>3, <2>1
  <2> QED BY <2>1, <2>2 DEF Checked, IsDvd, MediaAccepted
<1>7. CASE CheckDrive(t) \/ EnableBurnerMax(t) \/ ReadCapacity(t)
  <2>1. /\ pc[t] \in {"checkdrive", "burnermax", "capacity"}
        /\ pc'[t] \in {"burnermax", "capacity", "fit", "fail"} /\ disc' = disc
        /\ pc'[t] = "capacity" => burnerMax'
        /\ pc'[t] = "fit" =>
             \/ job[t].req.target # "xgd3"
             \/ pc[t] = "capacity" /\ burnerMax' = burnerMax
    BY <1>1, <1>7 DEF CheckDrive, EnableBurnerMax, ReadCapacity, Proceed, Goto, driveVars
  <2>2. job'[t].req = job[t].req /\ job'[t].bytes = job[t].bytes
    BY <1>1, <2>1, LocalsKept
  <2> QED BY <1>1, <2>1, <2>2 DEF Checked, IsDvd, MediaAccepted
<1>8. CASE CapacityVerdict(t)
  <2>1. CASE pc'[t] = "begin"
    <3>1. /\ job' = job /\ disc' = disc /\ burnerMax' = burnerMax /\ pc[t] = "fit"
          /\ job[t].req.op # "burnermax"
          /\ job[t].caps = <<>> \/ ~(job[t].bytes > Head(job[t].caps))
          /\ job[t].req.target = "xgd3" => FullCapacity(t)
      BY <1>1, <1>8, <2>1 DEF CapacityVerdict, Proceed, Settle, Goto, driveVars
    <3>2. job[t].caps # <<>> => Head(job[t].caps) \in Nat
      <4>1. job[t].caps \in Seq(Nat)
        BY <1>1, WorkerFacts DEF JobType
      <4> QED BY <4>1
    <3>3. job[t].bytes \in Nat
      BY <1>1, WorkerFacts DEF JobType
    <3> QED BY <1>1, <2>1, <3>1, <3>2, <3>3
            DEF Checked, IsDvd, MediaAccepted, FullCapacity
  <2>2. CASE pc'[t] # "begin"
    BY <1>1, <1>2, <1>8, <2>2 DEF CapacityVerdict, Proceed, Settle, Goto
  <2> QED BY <2>1, <2>2
<1>9. CASE CheckAtip(t) \/ ExtractImage(t) \/ AfterRecorder(t)
  <2>1. /\ pc'[t] \in DvdSteps \union BehindCheck => pc'[t] = "begin"
        /\ pc'[t] = "begin" => ~IsDvd(job[t].req)
    BY <1>1, <1>9
    DEF CheckAtip, ExtractImage, AfterRecorder, AfterSession, Proceed, Settle,
        Goto, IsDvd, DvdTargets
  <2>2. pc'[t] = "begin" => ~IsDvd(job'[t].req) /\ job'[t].req.target # "xgd3"
    BY <1>3, <2>1 DEF IsDvd, DvdTargets
  <2> QED BY <1>2, <2>1, <2>2 DEF Checked
<1>10. CASE BeginSession(t) \/ WriteProgress(t)
  <2>1. /\ pc[t] \in {"begin", "write"} /\ pc'[t] = "write"
        /\ disc' = disc /\ burnerMax' = burnerMax
    BY <1>1, <1>10 DEF BeginSession, WriteProgress, Goto, driveVars
  <2>2. /\ job'[t].req = job[t].req /\ job'[t].caps = job[t].caps
        /\ job'[t].bytes = job[t].bytes
    BY <1>1, <2>1, LocalsKept
  <2> QED BY <1>1, <2>1, <2>2 DEF Checked, IsDvd, MediaAccepted, FullCapacity
<1> QED BY <1>4, <1>5, <1>6, <1>7, <1>8, <1>9, <1>10 DEF Advance, Report

\* While no job runs nothing is known of the drive, and nobody but the job's
\* worker changes disc or drive under it.
LEMMA NextMedia ==
  ASSUME BeforeWriting, [Next]_vars
  PROVE  MediaInv'
<1>1. IInv /\ MediaInv /\ pc \in [Workers -> Labels] /\ job \in [Workers -> JobType]
  BY DEF BeforeWriting, IInv, TypeOK, ThreadTypes
<1>2. \A t \in Workers : ~Active(t) => Checked(t)
  BY DEF Active, Checked, DvdSteps, BehindCheck
<1>3. \A t \in Workers : (\/ pc'[t] \in {"unborn", "run", "tail", "exited"}) => Checked(t)'
  BY DEF Checked, DvdSteps, BehindCheck
<1>4. ASSUME NEW t \in Workers, pc'[t] = pc[t], job'[t] = job[t],
             \/ ~Active(t)
             \/ UNCHANGED <<disc, burnerMax>>
      PROVE  Checked(t)'
  <2>1. CASE ~Active(t)
    BY <1>4, <2>1 DEF Active, Checked, DvdSteps, BehindCheck
  <2>2. CASE UNCHANGED <<disc, burnerMax>>
    BY <1>1, <1>4, <2>2 DEF MediaInv, Checked, IsDvd, MediaAccepted, FullCapacity
  <2> QED BY <1>4, <2>1, <2>2
<1>5. CASE UNCHANGED vars \/ Stopped
  BY <1>4, <1>5 DEF Stopped, vars, driveVars, MediaInv
<1>6. CASE UiRequest
  <2>1. pc' = pc /\ job' = job /\ UNCHANGED <<disc, burnerMax>>
    BY <1>6 DEF UiRequest, StartJob, Reset, Quit, driveVars
  <2> QED BY <1>4, <2>1 DEF MediaInv
<1>7. CASE UiContinue
  <2>1. /\ UNCHANGED <<disc, burnerMax>>
        /\ \A t \in Workers : \/ pc'[t] \in {"run", "unborn"}
                              \/ pc'[t] = pc[t] /\ job'[t] = job[t]
    BY <1>1, <1>7
    DEF UiContinue, SpawnWorker, InstallWorker, Destroy, driveVars
  <2> QED BY <1>3, <1>4, <2>1 DEF MediaInv
<1>8. CASE Environment
  <2>1. pc' = pc /\ job' = job
    BY <1>8 DEF Environment
  <2>2. CASE InsertDisc \/ RemoveDisc
    <3>1. /\ \A t \in Workers : pc[t] \notin DiscInUse
      BY <2>2 DEF InsertDisc, RemoveDisc, DriveIsFree
    <3>2. \A t \in Workers : Checked(t)'
      BY <1>1, <2>1, <3>1 DEF Checked, DiscInUse, MediaInv, DvdSteps, BehindCheck, IsDvd
    <3> QED BY <3>2 DEF MediaInv
  <2>3. CASE PowerCycle
    BY <1>1, <1>4, <2>1, <2>3 DEF PowerCycle, IInv, Exclusive, BusyMeansActive, MediaInv
  <2>4. CASE LoseWorkingCopy \/ \E s \in Sources : EditSource(s) \/ LoseSource(s)
    BY <1>4, <2>1, <2>4 DEF LoseWorkingCopy, EditSource, LoseSource, driveVars, MediaInv
  <2> QED BY <1>8, <2>2, <2>3, <2>4 DEF Environment
<1>9. ASSUME NEW t \in Workers, Advance(t) \/ Report(t)
      PROVE  MediaInv'
  <2>1. CASE Active(t)
    <3>1. OthersKeep(t) /\ Checked(t)'
      <4>1. ~Unwind(t)
        BY <2>1 DEF Unwind, Active
      <4> QED BY <1>1, <1>9, <2>1, <4>1, CheckedStep, WorkerShape DEF GoesOn, Ends
    <3>2. \A u \in Workers : u # t => ~Active(u)
      BY <1>1, <2>1, WorkerFacts
    <3> QED BY <1>4, <3>1, <3>2 DEF OthersKeep, MediaInv
  <2>2. CASE Unwind(t)
    <3>1. /\ pc'[t] = "exited" /\ UNCHANGED <<disc, burnerMax>>
          /\ \A u \in Workers : u # t => pc'[u] = pc[u] /\ job'[u] = job[u]
      BY <1>1, <2>2 DEF Unwind, RemoveAll, Goto, driveVars
    <3> QED BY <1>3, <1>4, <3>1 DEF MediaInv
  <2> QED BY <1>1, <1>9, <2>1, <2>2, WorkerShape DEF GoesOn, Ends
<1> QED BY <1>5, <1>6, <1>7, <1>8, <1>9 DEF Next

\* Before the first job nothing is in the drive and nothing was checked.
LEMMA InitMedia == Init => MediaInv
BY DEF Init, MediaInv, Checked, DvdSteps, BehindCheck

\* Who may touch the disc and the streaming policy
LEMMA DriveSteps ==
  ASSUME IInv, [Next]_vars
  PROVE  /\ \/ disc' = disc
            \/ disc = None \/ disc' = None
            \/ \E t \in Workers : pc[t] = "write" /\ BurnsDisc(t)
         /\ streaming' = "override" =>
              \/ \E t \in Workers : pc'[t] = "restore"
              \/ /\ streaming = "override"
                 /\ \A t \in Workers : pc[t] = "restore" => pc'[t] = "restore"
<1> USE DEF driveVars
<1>1. pc \in [Workers -> Labels]
  BY DEF IInv, TypeOK, ThreadTypes
<1>2. CASE UNCHANGED vars \/ Stopped
  BY <1>2 DEF Stopped, vars
<1>3. CASE UiRequest
  BY <1>3 DEF UiRequest, StartJob, Reset, Quit
<1>4. CASE UiContinue
  <2>1. CASE SpawnWorker \/ Destroy
    BY <1>1, <1>4, <2>1 DEF UiContinue, SpawnWorker, Destroy
  <2>2. CASE InstallWorker
    <3>1. /\ disc' = disc /\ streaming' = streaming
          /\ \A t \in Workers : pc'[t] = IF t = handle THEN "unborn" ELSE pc[t]
          /\ \A t \in Workers : t = handle => pc[t] = "exited"
      BY <1>1, <1>4, <2>2, NoneAssumption DEF UiContinue, InstallWorker
    <3> QED BY <3>1
  <2> QED BY <1>4, <2>1, <2>2 DEF UiContinue
<1>5. CASE Environment
  BY <1>5
  DEF Environment, InsertDisc, RemoveDisc, PowerCycle, EditSource, LoseSource,
      LoseWorkingCopy
<1>6. ASSUME NEW t \in Workers, Advance(t) \/ Report(t)
      PROVE  /\ \/ disc' = disc
                \/ disc = None \/ disc' = None
                \/ pc[t] = "write" /\ BurnsDisc(t)
             /\ streaming' = "override" =>
                  \/ pc'[t] = "restore"
                  \/ /\ streaming = "override"
                     /\ \A u \in Workers : pc[u] = "restore" => pc'[u] = "restore"
  <2>1. CASE \/ Run(t) \/ Validate(t) \/ StepFails(t) \/ Fail(t) \/ Announce(t)
             \/ CheckDrive(t) \/ EnableBurnerMax(t) \/ CapacityVerdict(t)
             \/ CheckAtip(t) \/ AfterRecorder(t) \/ TestVerdict(t)
             \/ ExtractImage(t) \/ Complete(t) \/ Unwind(t)
    BY <1>1, <2>1
    DEF Run, Validate, StepFails, Fail, Announce, CheckDrive, EnableBurnerMax,
        CapacityVerdict, CheckAtip, AfterRecorder, TestVerdict, ExtractImage,
        Complete, Unwind, Settle, Proceed, Goto
  <2>2. CASE \/ DropDirectory(t) \/ MakeExtractionDirectory(t) \/ StorePrepared(t)
             \/ ClearPrepared(t) \/ CheckMedia(t) \/ ReadCapacity(t)
             \/ TryReuse(t) \/ PrepareWorkingCopy(t) \/ CopyImage(t)
             \/ AutoFix(t) \/ Verify(t) \/ Report(t) \/ BeginSession(t)
    BY <1>1, <2>2
    DEF DropDirectory, AfterDrop, MakeExtractionDirectory, StorePrepared,
        ClearPrepared, CheckMedia, ReadCapacity, TryReuse, PrepareWorkingCopy,
        CopyImage, AutoFix, Verify, Report, PreparationProgress, WriteProgress,
        BeginSession, Proceed, Goto
  <2>3. CASE RecorderEnds(t)
    BY <1>1, <2>3 DEF RecorderEnds, RecorderWrites, AfterWrite, Goto
  <2>4. CASE RestoreStreaming(t)
    BY <2>4 DEF RestoreStreaming
  <2> QED BY <1>6, <2>1, <2>2, <2>3, <2>4 DEF Advance
<1> QED BY <1>2, <1>3, <1>4, <1>5, <1>6 DEF Next

-----------------------------------------------------------------------------
(* What is on the disc when a burn is reported complete                    *)

Writing == {"begin", "write", "restore", "written"}

\* Only XGD3 and Dreamcast jobs have an image of their own; a Dreamcast job
\* records the one it extracted.
Imaged(t) ==
  /\ Active(t) /\ job[t].req.target \notin {"xgd3", "dreamcast"} =>
       job[t].image = None
  /\ pc[t] \in {"mkdtemp", "extract"} => Dreamcast(t)
  /\ Dreamcast(t) /\ pc[t] \in {"extract", "atip"} \union Writing =>
       job[t].image = job[t].tmp /\ job[t].tmp \in Dirs
  /\ Dreamcast(t) /\ pc[t] \in Writing =>
       dirs[job[t].tmp].holds.source = job[t].req.source

\* The last n sessions on the disc are the first n of the job's image.
HasSessions(t, n) ==
  /\ disc # None
  /\ n <= Len(disc.data)
  /\ \A i \in 1 .. n :
       LET written == disc.data[(Len(disc.data) - n) + i]
       IN  /\ written.session = i
           /\ written.source = job[t].req.source
           /\ written.version = disc.data[Len(disc.data)].version

\* The first session of a Dreamcast image and what is to be its second
OneVersion(t) ==
  disc.data[Len(disc.data)].version = dirs[job[t].tmp].holds.version

HasFirst(t) == HasSessions(t, 1) /\ OneVersion(t)

OnDisc(t) ==
  /\ pc[t] \in Recorded => HasSessions(t, Sessions(job[t].req))
  /\ pc[t] \in {"restore", "written"} /\ BurnsDisc(t) /\ job[t].result = "ok" =>
       /\ HasSessions(t, job[t].session)
       /\ Dreamcast(t) => OneVersion(t)
  /\ pc[t] = "begin" /\ job[t].session = 1 => HasFirst(t)
  /\ pc[t] = "write" /\ job[t].session = 2 => HasFirst(t)

RecordInv == \A t \in Workers : Imaged(t) /\ OnDisc(t)

\* The worker in the job keeps to its image.
LEMMA ImagedStep ==
  ASSUME BeforeWriting, RecordInv, NEW t \in Workers, Active(t),
         Advance(t) \/ Report(t)
  PROVE  Imaged(t)'
<1>1. /\ IInv /\ pc \in [Workers -> Labels] /\ job \in [Workers -> JobType]
      /\ dirs \in [Dirs -> Copies \union {None}]
      /\ job[t] \in JobType /\ Checked(t) /\ StageOf(t) /\ Imaged(t)
      /\ NeedsDirectory(t) => job[t].tmp \in Dirs
      /\ pc[t] = "validate" => ~Dreamcast(t)
  BY WorkerFacts
  DEF BeforeWriting, MediaInv, StageInv, RecordInv, IInv, HasDirectory, JobType,
      Dreamcast
<1>2. ASSUME pc'[t] = "tail" PROVE Imaged(t)'
  BY <1>2 DEF Imaged, Active, Writing
<1>3. ASSUME pc'[t] # "tail"
      PROVE  /\ job'[t].req = job[t].req /\ (Dreamcast(t)' <=> Dreamcast(t))
             /\ pc[t] \notin {"reuse", "prepare", "mkdtemp"} =>
                  job'[t].image = job[t].image
             /\ pc[t] \notin {"prepare", "mkdtemp", "store"} =>
                  job'[t].tmp = job[t].tmp
  BY <1>1, <1>3, LocalsKept DEF Dreamcast
<1>4. CASE Fail(t) \/ Complete(t)
  BY <1>1, <1>2, <1>4 DEF Fail, Complete, Settle, Goto
<1> USE DEF Writing
<1>5. ASSUME pc'[t] \notin {"mkdtemp", "extract", "atip"} \union Writing,
             pc[t] \notin {"reuse", "prepare", "mkdtemp"} \/ job[t].req.target = "xgd3"
      PROVE  Imaged(t)'
  BY <1>1, <1>2, <1>3, <1>5 DEF Imaged, Active
<1>6. CASE \/ TryReuse(t) \/ PrepareWorkingCopy(t) \/ DropDirectory(t)
           \/ CopyImage(t) \/ AutoFix(t) \/ Verify(t) \/ StorePrepared(t)
           \/ Announce(t) \/ PreparationProgress(t)
  BY <1>1, <1>5, <1>6
  DEF TryReuse, PrepareWorkingCopy, DropDirectory, AfterDrop, CopyImage, AutoFix,
      Verify, StorePrepared, Announce, PreparationProgress, Proceed, Goto,
      StageOf, XgdSteps
<1>7. CASE \/ StepFails(t) \/ TestVerdict(t) \/ CheckMedia(t) \/ CheckDrive(t)
           \/ EnableBurnerMax(t) \/ ReadCapacity(t) \/ ClearPrepared(t)
  <2>1. pc'[t] \notin {"mkdtemp", "extract", "atip"} \union Writing
    BY <1>1, <1>7
    DEF StepFails, TestVerdict, CheckMedia, AfterMediaCheck, CheckDrive,
        EnableBurnerMax, ReadCapacity, ClearPrepared, Settle, Proceed, Goto
  <2>3. pc[t] \in {"reuse", "prepare"} => job[t].req.target = "xgd3"
    BY <1>1 DEF StageOf, XgdSteps
  <2>4. CASE pc[t] = "mkdtemp"
    <3>1. job' = job /\ Dreamcast(t)
      BY <1>1, <1>7, <2>4
      DEF StepFails, TestVerdict, CheckMedia, CheckDrive, EnableBurnerMax,
          ReadCapacity, ClearPrepared, Proceed, Imaged
    <3> QED BY <2>1, <3>1 DEF Imaged, Dreamcast
  <2> QED BY <1>5, <2>1, <2>3, <2>4
<1>8. CASE Run(t) \/ Validate(t)
  <2>1. /\ pc[t] \in {"run", "validate"}
        /\ pc'[t] \notin {"extract"} \union Writing
        /\ pc'[t] = "mkdtemp" => Dreamcast(t)
        /\ pc'[t] = "atip" => ~Dreamcast(t)
    BY <1>1, <1>8 DEF Run, Validate, Settle, Proceed, Goto, Dreamcast
  <2> QED BY <1>1, <1>2, <1>3, <2>1 DEF Imaged, Active
<1>9. CASE MakeExtractionDirectory(t)
  <2>1. PICK d \in Dirs : job' = [job EXCEPT ![t] = [job[t] EXCEPT !.tmp = d, !.image = d]]
    BY <1>1, <1>9 DEF MakeExtractionDirectory, NewDirectory
  <2>2. job'[t].tmp = d /\ job'[t].image = d
    BY <1>1, <2>1 DEF JobType
  <2>3. pc[t] = "mkdtemp" /\ pc'[t] \in {"extract", "atip"} /\ Dreamcast(t)
    BY <1>1, <1>9 DEF MakeExtractionDirectory, Goto, Imaged
  <2> QED BY <1>3, <2>2, <2>3 DEF Imaged, Dreamcast
<1>10. CASE CheckAtip(t)
  <2>1. /\ pc[t] = "atip" /\ job' = job
        /\ pc'[t] = IF Dreamcast(t) THEN "extract" ELSE "begin"
    BY <1>1, <1>10 DEF CheckAtip, Proceed, Goto, Dreamcast
  <2> QED BY <1>1, <1>3, <2>1 DEF Imaged, Active
<1>11. CASE ExtractImage(t)
  <2>1. CASE pc'[t] = "tail"
    BY <1>2, <2>1
  <2>2. CASE pc'[t] # "tail"
    <3>1. /\ pc[t] = "extract" /\ pc'[t] = "begin" /\ job' = job
          /\ dirs' = [dirs EXCEPT ![job[t].tmp].holds =
                        [source |-> job[t].req.source,
                         version |-> ver[job[t].req.source]]]
      BY <1>1, <1>11, <2>2 DEF ExtractImage, CopySource, Settle, Proceed, Goto
    <3>2. job[t].tmp \in Dirs /\ dirs[job[t].tmp] \in Copies
      BY <1>1, <3>1
      DEF NeedsDirectory, IInv, DirectoriesOwnedOnce, HasDirectory
    <3>3. dirs'[job[t].tmp].holds.source = job[t].req.source
      BY <1>1, <3>1, <3>2 DEF Copies
    <3> QED BY <1>1, <1>3, <2>2, <3>1, <3>3 DEF Imaged, Active
  <2> QED BY <2>1, <2>2
<1>12. CASE CapacityVerdict(t)
  <2>1. pc[t] = "fit" /\ pc'[t] \in {"tail", "fail", "begin"} /\ ~Dreamcast(t)
    BY <1>1, <1>12
    DEF CapacityVerdict, Settle, Proceed, Goto, Checked, DvdSteps, IsDvd,
        DvdTargets, Dreamcast
  <2> QED BY <1>1, <1>2, <1>3, <2>1 DEF Imaged, Active
<1>13. CASE \/ BeginSession(t) \/ WriteProgress(t) \/ RecorderEnds(t)
            \/ RestoreStreaming(t) \/ AfterRecorder(t)
  <2>1. /\ pc[t] \in Writing
        /\ pc'[t] \in Writing \union {"tail", "fail", "clear", "complete"}
        /\ dirs' = dirs
    BY <1>1, <1>13
    DEF BeginSession, WriteProgress, RecorderEnds, AfterWrite, RestoreStreaming,
        AfterRecorder, AfterSession, Settle, Proceed, Goto, fileVars
  <2> QED BY <1>1, <1>2, <1>3, <2>1 DEF Imaged, Active
<1>14. ~Unwind(t)
  BY DEF Unwind, Active
<1> QED BY <1>4, <1>6, <1>7, <1>8, <1>9, <1>10, <1>11, <1>12, <1>13, <1>14
        DEF Advance, Report

\* A session that was recorded follows those of the same image.
LEMMA AppendedSession ==
  ASSUME BeforeWriting, RecordInv, NEW t \in Workers, RecorderEnds(t),
         job'[t].result = "ok", BurnsDisc(t)
  PROVE  /\ HasSessions(t, job[t].session)'
         /\ Dreamcast(t) => OneVersion(t)'
<1>1. /\ IInv /\ Active(t) /\ pc[t] = "write" /\ pc \in [Workers -> Labels]
      /\ job \in [Workers -> JobType] /\ job[t] \in JobType
  <2>1. pc[t] = "write" /\ Active(t)
    BY DEF RecorderEnds, Active
  <2> QED BY <2>1, WorkerFacts DEF BeforeWriting
<1>2. /\ job[t].session \in 1 .. Sessions(job[t].req)
      /\ Imaged(t) /\ OnDisc(t) /\ InSession(t)
      /\ NeedsCopy(t) => Safe(job[t].image, job[t].req.source)
  BY <1>1 DEF BeforeWriting, StageInv, StageOf, Recording, InSession, RecordInv,
              CopyInv, CopyKept
<1>3. PICK result : job' = [job EXCEPT ![t] = [job[t] EXCEPT !.result = result]]
  BY <1>1 DEF RecorderEnds
<1>4. /\ job'[t].result = result /\ job'[t].req = job[t].req
      /\ job'[t].session = job[t].session /\ job'[t].tmp = job[t].tmp
  BY <1>1, <1>3 DEF JobType
<1>5. /\ disc # None /\ dirs' = dirs
      /\ disc' = [disc EXCEPT !.data = Append(@, SessionOf(t))]
      /\ Readable(Content(t))
  <2>1. PICK r2 \in {"notstarted", "failed", "ok"} :
          /\ job' = [job EXCEPT ![t] = [job[t] EXCEPT !.result = r2]]
          /\ r2 = "ok" => /\ disc # None
                          /\ disc' = [disc EXCEPT !.data = Append(@, SessionOf(t))]
                          /\ Readable(Content(t))
    BY <1>1 DEF RecorderEnds, RecorderWrites, Writable
  <2>2. r2 = "ok"
    BY <1>1, <2>1 DEF JobType
  <2> QED BY <2>1, <2>2 DEF RecorderEnds, fileVars
<1>6. disc \in Discs
  BY <1>1, <1>5 DEF IInv, TypeOK, DriveTypes
<1> DEFINE x == SessionOf(t)
<1>7. /\ disc.data \in Seq([session : Nat, source : Sources \union {None},
                            version : Nat, closes : BOOLEAN])
      /\ disc'.data = Append(disc.data, x)
  BY <1>5, <1>6 DEF Discs
<1>8. Content(t).source = job[t].req.source
  <2>1. CASE job[t].image = None
    BY <2>1 DEF Content
  <2>2. CASE job[t].image # None /\ job[t].req.target = "xgd3"
    BY <1>1, <1>2, <2>2 DEF Content, NeedsCopy, HasCopy, BurnsDisc, Safe
  <2>3. CASE job[t].image # None /\ Dreamcast(t)
    BY <1>1, <1>2, <2>3 DEF Content, Imaged, Writing
  <2> QED BY <1>1, <1>2, <2>1, <2>2, <2>3 DEF Imaged, Dreamcast
<1>9. /\ x.session = job[t].session /\ x.source = job[t].req.source
      /\ x.version = Content(t).version
  BY <1>8 DEF SessionOf
<1>10. x \in [session : Nat, source : Sources \union {None},
              version : Nat, closes : BOOLEAN]
  BY <1>1, <1>5 DEF SessionOf, Readable, Contents, JobType
<1> HIDE DEF x
<1>11. /\ Len(disc.data) \in Nat /\ Len(disc'.data) = Len(disc.data) + 1
       /\ disc'.data[Len(disc'.data)] = x
       /\ \A k \in 1 .. Len(disc.data) : disc'.data[k] = disc.data[k]
  BY <1>7, <1>10
<1>12. disc' # None
  <2>1. Append(disc.data, x) \in Seq([session : Nat, source : Sources \union {None},
                                     version : Nat, closes : BOOLEAN])
    BY <1>7, <1>10
  <2>2. [disc EXCEPT !.data = Append(disc.data, x)] \in Discs
    BY <1>6, <2>1 DEF Discs
  <2>3. disc' = [disc EXCEPT !.data = Append(disc.data, x)]
    BY <1>5 DEF x
  <2> QED BY <2>2, <2>3, NoneIsNoDisc
<1>13. Dreamcast(t) => Content(t).version = dirs[job[t].tmp].holds.version
  BY <1>1, <1>2, NoneAssumption DEF Imaged, Writing, Content
<1>14. Dreamcast(t) => OneVersion(t)'
  BY <1>4, <1>5, <1>9, <1>11, <1>13 DEF OneVersion
<1>15. CASE job[t].session = 1
  BY <1>4, <1>9, <1>11, <1>12, <1>14, <1>15 DEF HasSessions
<1>16. CASE job[t].session = 2
  <2>1. HasSessions(t, 1) /\ OneVersion(t) /\ Dreamcast(t)
    BY <1>1, <1>2, <1>16 DEF OnDisc, HasFirst, Sessions, Dreamcast
  <2>2. /\ 1 <= Len(disc.data)
        /\ disc.data[Len(disc.data)].session = 1
        /\ disc.data[Len(disc.data)].source = job[t].req.source
    BY <1>11, <2>1 DEF HasSessions
  <2>3. disc.data[Len(disc.data)].version = x.version
    BY <1>9, <1>13, <2>1 DEF OneVersion
  <2>4. \A k \in 1 .. 2 : k = 1 \/ k = 2
    OBVIOUS
  <2> QED BY <1>4, <1>9, <1>11, <1>12, <1>14, <1>16, <2>2, <2>3, <2>4
          DEF HasSessions
<1>17. job[t].session \in {1, 2}
  BY <1>2 DEF Sessions
<1> QED BY <1>14, <1>15, <1>16, <1>17

\* The worker in the job finds on the disc what it recorded.
LEMMA OnDiscStep ==
  ASSUME BeforeWriting, RecordInv, NEW t \in Workers, Active(t),
         Advance(t) \/ Report(t)
  PROVE  OnDisc(t)'
<1>1. /\ IInv /\ pc \in [Workers -> Labels] /\ job \in [Workers -> JobType]
      /\ job[t] \in JobType /\ StageOf(t) /\ Imaged(t) /\ OnDisc(t)
  BY WorkerFacts
  DEF BeforeWriting, StageInv, RecordInv
<1>2. ASSUME pc'[t] # "tail"
      PROVE  /\ job'[t].req = job[t].req
             /\ (Dreamcast(t)' <=> Dreamcast(t)) /\ (BurnsDisc(t)' <=> BurnsDisc(t))
             /\ Sessions(job'[t].req) = Sessions(job[t].req)
             /\ pc[t] \notin {"prepare", "mkdtemp", "store"} =>
                  job'[t].tmp = job[t].tmp
             /\ pc[t] # "begin" => job'[t].session = job[t].session
             /\ pc[t] # "write" => job'[t].result = job[t].result
  BY <1>1, <1>2, LocalsKept DEF Dreamcast, BurnsDisc
<1> USE DEF Recorded
<1>3. ASSUME pc'[t] \notin Recorded \union Writing
      PROVE  OnDisc(t)'
  BY <1>3 DEF OnDisc, Writing
<1>4. CASE \/ Run(t) \/ Validate(t) \/ StepFails(t) \/ Fail(t) \/ TryReuse(t)
           \/ PrepareWorkingCopy(t) \/ CopyImage(t) \/ AutoFix(t) \/ Verify(t)
           \/ StorePrepared(t) \/ Announce(t) \/ PreparationProgress(t)
           \/ CheckMedia(t) \/ CheckDrive(t) \/ EnableBurnerMax(t)
           \/ ReadCapacity(t) \/ TestVerdict(t) \/ MakeExtractionDirectory(t)
           \/ Complete(t)
  BY <1>1, <1>3, <1>4
  DEF Run, Validate, StepFails, Fail, TryReuse, PrepareWorkingCopy, CopyImage,
      AutoFix, Verify, StorePrepared, Announce, PreparationProgress, CheckMedia,
      AfterMediaCheck, CheckDrive, EnableBurnerMax, ReadCapacity, TestVerdict,
      MakeExtractionDirectory, Complete, Settle, Proceed, Goto, Writing
<1>5. CASE CapacityVerdict(t) \/ CheckAtip(t) \/ ExtractImage(t)
  <2>1. /\ pc'[t] \notin Recorded \union {"write", "restore", "written"}
        /\ pc[t] \in Preparation /\ pc[t] \notin {"prepare", "mkdtemp", "store"}
        /\ pc[t] # "begin"
    BY <1>1, <1>5
    DEF CapacityVerdict, CheckAtip, ExtractImage, Settle, Proceed, Goto, Preparation
  <2>2. job[t].session = 0
    BY <1>1, <2>1 DEF StageOf, NotYetWriting
  <2>3. pc'[t] = "begin" => job'[t].session = 0
    BY <1>2, <2>1, <2>2
  <2> QED BY <2>1, <2>3 DEF OnDisc
<1>6. CASE BeginSession(t) \/ WriteProgress(t)
  <2>1. /\ pc[t] \in {"begin", "write"} /\ pc'[t] = "write"
        /\ disc' = disc /\ dirs' = dirs
        /\ pc[t] = "begin" => job'[t].session = job[t].session + 1
    BY <1>1, <1>6 DEF BeginSession, WriteProgress, Goto, driveVars, fileVars, JobType
  <2>2. job'[t].req = job[t].req /\ job'[t].tmp = job[t].tmp
    BY <1>2, <2>1
  <2>3. pc[t] = "begin" => job[t].session \in Nat
    BY <1>1 DEF JobType
  <2>4. HasFirst(t) => HasFirst(t)'
    BY <2>1, <2>2 DEF HasFirst, HasSessions, OneVersion
  <2> QED BY <1>1, <1>2, <2>1, <2>3, <2>4 DEF OnDisc
<1>7. CASE RecorderEnds(t)
  <2>1. pc[t] = "write" /\ pc'[t] \in {"restore", "written"}
    BY <1>1, <1>7 DEF RecorderEnds, AfterWrite, Goto
  <2>2. (BurnsDisc(t)' <=> BurnsDisc(t)) /\ job'[t].session = job[t].session
        /\ (Dreamcast(t)' <=> Dreamcast(t))
    BY <1>2, <2>1
  <2>3. BurnsDisc(t) /\ job'[t].result = "ok" =>
          /\ HasSessions(t, job[t].session)'
          /\ Dreamcast(t) => OneVersion(t)'
    BY <1>7, AppendedSession
  <2> QED BY <2>1, <2>2, <2>3 DEF OnDisc
<1>8. CASE RestoreStreaming(t)
  <2>1. /\ pc[t] = "restore" /\ pc'[t] = "written" /\ disc' = disc /\ dirs' = dirs
    BY <1>1, <1>8 DEF RestoreStreaming, Goto, fileVars
  <2>2. job' = job
    BY <1>8 DEF RestoreStreaming
  <2> QED BY <1>1, <2>1, <2>2
          DEF OnDisc, HasSessions, OneVersion, BurnsDisc, Dreamcast
<1>9. CASE AfterRecorder(t)
  <2>1. CASE pc'[t] \in Recorded \union {"begin"}
    <3>1. /\ pc[t] = "written" /\ job[t].result = "ok" /\ BurnsDisc(t)
          /\ pc'[t] = AfterSession(t)
          /\ job' = job /\ disc' = disc /\ dirs' = dirs
      BY <1>1, <1>9, <2>1
      DEF AfterRecorder, Settle, Proceed, Goto, driveVars, fileVars
    <3>2. /\ HasSessions(t, job[t].session) /\ (Dreamcast(t) => OneVersion(t))
          /\ job[t].session \in 1 .. Sessions(job[t].req)
      BY <1>1, <3>1 DEF OnDisc, StageOf, Recording, InSession
    <3>3. CASE AfterSession(t) = "begin"
      <4>1. Dreamcast(t) /\ job[t].session = 1
        BY <3>3 DEF AfterSession, Dreamcast
      <4> QED BY <3>1, <3>2, <3>3, <4>1 DEF OnDisc, HasFirst, HasSessions, OneVersion
    <3>4. CASE AfterSession(t) # "begin"
      <4>1. job[t].session = Sessions(job[t].req) /\ pc'[t] \in {"clear", "complete"}
        BY <3>1, <3>2, <3>4 DEF AfterSession, Sessions
      <4> QED BY <3>1, <3>2, <4>1 DEF OnDisc, HasSessions
    <3> QED BY <3>3, <3>4
  <2>2. CASE pc'[t] \notin Recorded \union {"begin"}
    <3>1. pc'[t] \notin Recorded \union Writing
      BY <1>1, <1>9, <2>2
      DEF AfterRecorder, AfterSession, Settle, Proceed, Goto, Writing
    <3> QED BY <1>3, <3>1
  <2> QED BY <2>1, <2>2
<1>10. CASE DropDirectory(t) \/ ClearPrepared(t)
  <2>1. /\ disc' = disc
        /\ \/ pc[t] \in Recorded /\ pc'[t] \in Recorded
           \/ pc'[t] \notin Recorded \union Writing
    BY <1>1, <1>10 DEF DropDirectory, AfterDrop, ClearPrepared, Goto, driveVars, Writing
  <2>2. pc'[t] \in Recorded => job'[t].req = job[t].req
    BY <1>2
  <2> QED BY <1>1, <1>3, <2>1, <2>2 DEF OnDisc, HasSessions
<1>11. ~Unwind(t)
  BY DEF Unwind, Active
<1> QED BY <1>4, <1>5, <1>6, <1>7, <1>8, <1>9, <1>10, <1>11 DEF Advance, Report

\* Nobody but its worker touches the disc or the directory of a job.
LEMMA NextRecord ==
  ASSUME BeforeWriting, ClosedIsIdle, RecordInv, [Next]_vars
  PROVE  RecordInv'
<1>1. /\ IInv /\ pc \in [Workers -> Labels] /\ job \in [Workers -> JobType]
      /\ dirs \in [Dirs -> Copies \union {None}] /\ snap.busy \in BOOLEAN
  BY DEF BeforeWriting, IInv, TypeOK, ThreadTypes, FileTypes, Snapshots
<1>2. ASSUME NEW t \in Workers, pc'[t] = pc[t], job'[t] = job[t],
             \/ ~Active(t)
             \/ /\ disc' = disc \/ pc[t] \notin DiscInUse
                /\ job[t].tmp \in Dirs => dirs'[job[t].tmp] = dirs[job[t].tmp]
      PROVE  Imaged(t)' /\ OnDisc(t)'
  <2>1. CASE ~Active(t)
    BY <1>2, <2>1 DEF Active, Imaged, OnDisc, Recorded, Writing
  <2>2. CASE /\ disc' = disc \/ pc[t] \notin DiscInUse
             /\ job[t].tmp \in Dirs => dirs'[job[t].tmp] = dirs[job[t].tmp]
    <3>1. Imaged(t) /\ OnDisc(t)
      BY DEF RecordInv
    <3>2. Imaged(t)'
      BY <1>2, <2>2, <3>1 DEF Imaged, Active, Dreamcast
    <3>3. CASE pc[t] \notin DiscInUse
      <4>1. pc'[t] \notin Recorded \union Writing
        BY <1>2, <3>3 DEF DiscInUse, Recorded, Writing
      <4> QED BY <3>2, <4>1 DEF OnDisc, Recorded, Writing
    <3>4. CASE disc' = disc /\ pc[t] \in DiscInUse
      <4>1. pc[t] \in Writing /\ Dreamcast(t) => (OneVersion(t)' <=> OneVersion(t))
        BY <1>2, <2>2, <3>1, <3>4 DEF OneVersion, Imaged
      <4>2. StageOf(t)
        BY DEF BeforeWriting, StageInv
      <4>3. /\ pc[t] = "begin" /\ job[t].session = 1 => Dreamcast(t)
            /\ pc[t] = "write" /\ job[t].session = 2 => Dreamcast(t)
        BY <4>2 DEF StageOf, NotYetWriting, BetweenSessions, InSession, Recording,
                    Sessions, Dreamcast
      <4>4. HasSessions(t, 1)' <=> HasSessions(t, 1)
        BY <1>2, <3>4 DEF HasSessions
      <4>5. pc[t] \in {"begin", "write"} /\ Dreamcast(t) => (HasFirst(t)' <=> HasFirst(t))
        BY <4>1, <4>4 DEF HasFirst, Writing
      <4>6. (pc[t] \in Recorded => HasSessions(t, Sessions(job[t].req)))'
        BY <1>2, <3>1, <3>4 DEF OnDisc, HasSessions
      <4>7. (pc[t] \in {"restore", "written"} /\ BurnsDisc(t) /\ job[t].result = "ok" =>
               /\ HasSessions(t, job[t].session)
               /\ Dreamcast(t) => OneVersion(t))'
        BY <1>2, <3>1, <3>4, <4>1
        DEF OnDisc, HasSessions, BurnsDisc, Dreamcast, Writing
      <4>8. /\ (pc[t] = "begin" /\ job[t].session = 1 => HasFirst(t))'
            /\ (pc[t] = "write" /\ job[t].session = 2 => HasFirst(t))'
        BY <1>2, <3>1, <4>3, <4>5 DEF OnDisc
      <4> QED BY <3>2, <4>6, <4>7, <4>8 DEF OnDisc
    <3> QED BY <2>2, <3>2, <3>3, <3>4
  <2> QED BY <1>2, <2>1, <2>2
<1>3. ~snap.busy => \A t \in Workers : ~Active(t)
  BY <1>1 DEF IInv, Exclusive, BusyMeansActive
<1>4. CASE UNCHANGED vars \/ Stopped
  BY <1>2, <1>4 DEF Stopped, vars, driveVars, fileVars, RecordInv
<1>5. CASE UiRequest
  <2>1. pc' = pc /\ job' = job /\ disc' = disc /\ dirs' = dirs
    BY <1>5 DEF UiRequest, StartJob, Reset, Quit, driveVars, fileVars
  <2> QED BY <1>2, <2>1 DEF RecordInv
<1>6. CASE SpawnWorker /\ UiContinue
  <2>1. PICK t \in Workers :
          /\ pc' = [pc EXCEPT ![t] = "run"]
          /\ job' = [job EXCEPT ![t] = [NoJob EXCEPT !.req = pending]]
    BY <1>6 DEF SpawnWorker
  <2>2. /\ \A u \in Workers : u # t => pc'[u] = pc[u] /\ job'[u] = job[u]
        /\ pc'[t] = "run" /\ job'[t].image = None
    BY <1>1, <2>1 DEF NoJob
  <2>3. \A u \in Workers : ~Active(u)
    BY <1>1, <1>6 DEF SpawnWorker, IInv, SpawnsAlone
  <2>4. Imaged(t)' /\ OnDisc(t)'
    BY <2>2 DEF Imaged, OnDisc, Recorded, Writing
  <2> QED BY <1>2, <2>2, <2>3, <2>4 DEF RecordInv
<1>7. CASE InstallWorker /\ UiContinue
  <2>1. /\ \A t \in Workers : pc'[t] = IF t = handle THEN "unborn" ELSE pc[t]
        /\ job' = job /\ disc' = disc
    BY <1>7 DEF InstallWorker, UiContinue, driveVars
  <2>2. dirs' = dirs
    BY <1>7 DEF UiContinue, InstallWorker, Destroy, fileVars
  <2>3. \A t \in Workers : pc'[t] = "unborn" => Imaged(t)' /\ OnDisc(t)'
    BY DEF Imaged, OnDisc, Active, Recorded, Writing
  <2> QED BY <1>2, <2>1, <2>2, <2>3 DEF RecordInv
<1>8. CASE Destroy
  <2>1. pc' = pc /\ job' = job /\ ui = "closing"
    BY <1>8 DEF Destroy
  <2> QED BY <1>2, <1>3, <2>1 DEF ClosedIsIdle, RecordInv
<1>9. CASE Environment
  <2>1. pc' = pc /\ job' = job
    BY <1>9 DEF Environment
  <2>2. CASE InsertDisc \/ RemoveDisc
    BY <1>2, <2>1, <2>2 DEF InsertDisc, RemoveDisc, DriveIsFree, RecordInv
  <2>3. CASE PowerCycle \/ \E s \in Sources : EditSource(s) \/ LoseSource(s)
    BY <1>2, <2>1, <2>3 DEF PowerCycle, EditSource, LoseSource, driveVars, RecordInv
  <2>4. CASE LoseWorkingCopy
    BY <1>2, <1>3, <2>1, <2>4 DEF LoseWorkingCopy, RecordInv
  <2> QED BY <1>9, <2>2, <2>3, <2>4 DEF Environment
<1>10. ASSUME NEW t \in Workers, Advance(t) \/ Report(t)
      PROVE  RecordInv'
  <2>1. CASE Active(t)
    <3>1. OthersKeep(t) /\ Imaged(t)' /\ OnDisc(t)'
      <4>1. ~Unwind(t)
        BY <2>1 DEF Unwind, Active
      <4> QED BY <1>1, <1>10, <2>1, <4>1, ImagedStep, OnDiscStep, WorkerShape
              DEF GoesOn, Ends
    <3>2. \A u \in Workers : u # t => ~Active(u)
      BY <1>1, <2>1, WorkerFacts
    <3> QED BY <1>2, <3>1, <3>2 DEF OthersKeep, RecordInv
  <2>2. CASE Unwind(t)
    <3>1. /\ pc'[t] = "exited" /\ disc' = disc
          /\ \A u \in Workers : u # t => pc'[u] = pc[u] /\ job'[u] = job[u]
          /\ \A d \in Dirs : d # job[t].tmp => dirs'[d] = dirs[d]
      BY <1>1, <2>2 DEF Unwind, RemoveAll, Goto, driveVars
    <3>2. \A u \in Workers : u # t /\ job[u].tmp \in Dirs => job[u].tmp # job[t].tmp
      BY <1>1, NoneAssumption DEF IInv, DirectoriesOwnedOnce
    <3>3. Imaged(t)' /\ OnDisc(t)'
      BY <3>1 DEF Imaged, OnDisc, Active, Recorded, Writing
    <3> QED BY <1>2, <3>1, <3>2, <3>3 DEF RecordInv
  <2> QED BY <1>1, <1>10, <2>1, <2>2, WorkerShape DEF GoesOn, Ends
<1> QED BY <1>4, <1>5, <1>6, <1>7, <1>8, <1>9, <1>10 DEF Next, UiContinue

-----------------------------------------------------------------------------
(* Why a cached copy goes                                                  *)

\* While a copy is made the cache is empty: TryReuse saw to it.
Emptied == {"dropStale", "prepare", "copy", "autofix", "verify", "store"}

\* The XGD3 disc is recorded, and the job will look at the result.
XgdRecorded(t) ==
  \/ pc[t] = "clear"
  \/ /\ pc[t] \in {"restore", "written"}
     /\ job[t].req.target = "xgd3" /\ BurnsDisc(t) /\ job[t].result = "ok"

CacheOf(t) ==
  /\ pc[t] \in Emptied => ~prepared.valid
  /\ pc[t] = "clear" => job[t].req.target = "xgd3" /\ BurnsDisc(t)
  /\ XgdRecorded(t) => disc.data = <<SessionOf(t)>>

CacheInv == \A t \in Workers : CacheOf(t)

\* What a session puts on the disc does not change behind the recorder's back.
LEMMA SameSession ==
  ASSUME NEW t \in Workers,
         job'[t].req = job[t].req, job'[t].session = job[t].session,
         job'[t].image = job[t].image, job[t].image # None,
         dirs'[job[t].image] = dirs[job[t].image]
  PROVE  SessionOf(t)' = SessionOf(t)
BY DEF SessionOf, Content

\* The worker in the job empties the cache before it fills it, and records an
\* XGD3 image on a blank disc.
LEMMA CacheStep ==
  ASSUME BeforeWriting, CacheInv, NEW t \in Workers, Active(t),
         Advance(t) \/ Report(t)
  PROVE  CacheOf(t)'
<1>1. /\ IInv /\ pc \in [Workers -> Labels] /\ job \in [Workers -> JobType]
      /\ job[t] \in JobType /\ CacheOf(t) /\ Checked(t)
      /\ NeedsCopy(t) => Safe(job[t].image, job[t].req.source)
  BY WorkerFacts DEF BeforeWriting, CacheInv, MediaInv, CopyInv, CopyKept
<1>2. ASSUME pc'[t] \notin Emptied \union {"restore", "written", "clear"}
      PROVE  CacheOf(t)'
  BY <1>2 DEF CacheOf, XgdRecorded
<1>3. CASE \/ Run(t) \/ Validate(t) \/ StepFails(t) \/ Fail(t) \/ Announce(t)
           \/ CheckDrive(t) \/ EnableBurnerMax(t) \/ CapacityVerdict(t)
           \/ CheckAtip(t) \/ TestVerdict(t) \/ ExtractImage(t) \/ Complete(t)
           \/ CheckMedia(t) \/ ReadCapacity(t) \/ StorePrepared(t)
           \/ MakeExtractionDirectory(t) \/ ClearPrepared(t) \/ BeginSession(t)
           \/ WriteProgress(t)
  BY <1>1, <1>2, <1>3
  DEF Run, Validate, StepFails, Fail, Announce, CheckDrive, EnableBurnerMax,
      CapacityVerdict, CheckAtip, TestVerdict, ExtractImage, Complete,
      CheckMedia, AfterMediaCheck, ReadCapacity, StorePrepared,
      MakeExtractionDirectory, ClearPrepared, BeginSession, WriteProgress,
      Settle, Proceed, Goto, Emptied
<1>4. CASE \/ TryReuse(t) \/ DropDirectory(t) \/ PrepareWorkingCopy(t)
           \/ CopyImage(t) \/ AutoFix(t) \/ Verify(t) \/ PreparationProgress(t)
  <2>1. /\ pc'[t] \in Emptied => ~prepared'.valid
        /\ pc'[t] \notin {"restore", "written", "clear"}
    BY <1>1, <1>4
    DEF TryReuse, DropDirectory, AfterDrop, PrepareWorkingCopy, CopyImage,
        AutoFix, Verify, PreparationProgress, Goto, CacheOf, Emptied, NoCopy,
        fileVars
  <2> QED BY <2>1 DEF CacheOf, XgdRecorded
<1>5. CASE RecorderEnds(t)
  <2>1. /\ pc[t] = "write" /\ pc'[t] \in {"restore", "written"}
        /\ dirs' = dirs
    BY <1>1, <1>5 DEF RecorderEnds, AfterWrite, Goto, fileVars
  <2>2. /\ job'[t].req = job[t].req /\ job'[t].session = job[t].session
        /\ job'[t].image = job[t].image
    BY <1>1, <2>1, LocalsKept
  <2>3. CASE XgdRecorded(t)'
    <3>1. job[t].req.target = "xgd3" /\ BurnsDisc(t) /\ job'[t].result = "ok"
      BY <2>1, <2>2, <2>3 DEF XgdRecorded, BurnsDisc
    <3>2. disc.data = <<>> /\ job[t].image # None
      BY <1>1, <2>1, <3>1, NoneAssumption
      DEF Checked, BehindCheck, IsDvd, DvdTargets, NeedsCopy, HasCopy, Safe, BurnsDisc
    <3>3. SessionOf(t)' = SessionOf(t)
      BY <2>1, <2>2, <3>2, SameSession
    <3>4. PICK result \in {"notstarted", "failed", "ok"} :
            /\ job' = [job EXCEPT ![t] = [job[t] EXCEPT !.result = result]]
            /\ result = "ok" =>
                 /\ disc # None
                 /\ disc' = [disc EXCEPT !.data = Append(@, SessionOf(t))]
      BY <1>1, <1>5, <3>1 DEF RecorderEnds, RecorderWrites, Writable
    <3>5. result = "ok"
      BY <1>1, <3>1, <3>4 DEF JobType
    <3>6. disc \in Discs
      BY <1>1, <3>4, <3>5 DEF IInv, TypeOK, DriveTypes
    <3>7. disc'.data = Append(<<>>, SessionOf(t))
      BY <3>2, <3>4, <3>5, <3>6 DEF Discs
    <3>8. disc'.data = <<SessionOf(t)'>>
      BY <3>3, <3>7
    <3> QED BY <2>1, <3>8 DEF CacheOf, Emptied
  <2> QED BY <2>1, <2>3 DEF CacheOf, Emptied
<1>6. CASE RestoreStreaming(t) \/ AfterRecorder(t)
  <2>1. CASE pc'[t] \in {"written", "clear"}
    <3>1. /\ pc[t] \in {"restore", "written"}
          /\ job' = job /\ disc' = disc /\ dirs' = dirs
          /\ pc'[t] = "clear" =>
               job[t].req.target = "xgd3" /\ BurnsDisc(t) /\ job[t].result = "ok"
      BY <1>1, <1>6, <2>1
      DEF RestoreStreaming, AfterRecorder, AfterSession, Settle, Proceed, Goto,
          driveVars, fileVars
    <3>2. XgdRecorded(t)' => XgdRecorded(t)
      BY <2>1, <3>1 DEF XgdRecorded, BurnsDisc
    <3>3. XgdRecorded(t) => SessionOf(t)' = SessionOf(t)
      BY <1>1, <3>1, SameSession, NoneAssumption
      DEF XgdRecorded, NeedsCopy, HasCopy, Safe, BurnsDisc
    <3>4. CacheOf(t)' <=>
            /\ pc'[t] = "clear" => job[t].req.target = "xgd3" /\ BurnsDisc(t)
            /\ XgdRecorded(t)' => disc.data = <<SessionOf(t)'>>
      BY <2>1, <3>1 DEF CacheOf, Emptied, BurnsDisc
    <3> QED BY <1>1, <3>1, <3>2, <3>3, <3>4 DEF CacheOf
  <2>2. CASE pc'[t] \notin {"written", "clear"}
    BY <1>1, <1>2, <1>6, <2>2
    DEF RestoreStreaming, AfterRecorder, AfterSession, Settle, Proceed, Goto, Emptied
  <2> QED BY <2>1, <2>2
<1>7. ~Unwind(t)
  BY DEF Unwind, Active
<1> QED BY <1>3, <1>4, <1>5, <1>6, <1>7 DEF Advance, Report

\* Nobody but the worker in the job touches cache, disc or copy.
LEMMA NextCache ==
  ASSUME BeforeWriting, ClosedIsIdle, CacheInv, [Next]_vars
  PROVE  CacheInv'
<1>1. /\ IInv /\ pc \in [Workers -> Labels] /\ job \in [Workers -> JobType]
      /\ dirs \in [Dirs -> Copies \union {None}] /\ snap.busy \in BOOLEAN
  BY DEF BeforeWriting, IInv, TypeOK, ThreadTypes, FileTypes, Snapshots
<1>2. \A t \in Workers : pc'[t] \in {"unborn", "run", "exited"} => CacheOf(t)'
  BY DEF CacheOf, Emptied, XgdRecorded
<1>3. ASSUME NEW t \in Workers, pc'[t] = pc[t], job'[t] = job[t],
             \/ ~Active(t)
             \/ /\ prepared' = prepared
                /\ disc' = disc \/ pc[t] \notin DiscInUse
                /\ NeedsCopy(t) => dirs'[job[t].image] = dirs[job[t].image]
      PROVE  CacheOf(t)'
  <2>1. CASE ~Active(t)
    BY <1>3, <2>1 DEF Active, CacheOf, Emptied, XgdRecorded
  <2>2. CASE Active(t)
    <3>1. (XgdRecorded(t)' <=> XgdRecorded(t)) /\ (BurnsDisc(t)' <=> BurnsDisc(t))
      BY <1>3 DEF XgdRecorded, BurnsDisc
    <3>2. XgdRecorded(t) => NeedsCopy(t) /\ pc[t] \in DiscInUse
      BY DEF CacheInv, CacheOf, XgdRecorded, NeedsCopy, HasCopy, BurnsDisc, DiscInUse
    <3>3. NeedsCopy(t) => job[t].image # None
      BY NoneAssumption DEF BeforeWriting, CopyInv, CopyKept, Safe
    <3>4. XgdRecorded(t) => SessionOf(t)' = SessionOf(t) /\ disc' = disc
      BY <1>3, <2>2, <3>2, <3>3, SameSession
    <3>5. (XgdRecorded(t) => disc.data = <<SessionOf(t)>>)'
      BY <3>1, <3>4 DEF CacheInv, CacheOf
    <3> QED BY <1>3, <2>2, <3>1, <3>5 DEF CacheInv, CacheOf
  <2> QED BY <2>1, <2>2
<1>4. ~snap.busy => \A t \in Workers : ~Active(t)
  BY <1>1 DEF IInv, Exclusive, BusyMeansActive
<1>5. CASE UNCHANGED vars \/ Stopped
  BY <1>3, <1>5 DEF Stopped, vars, driveVars, fileVars, CacheInv
<1>6. CASE UiRequest
  <2>1. pc' = pc /\ job' = job /\ disc' = disc /\ dirs' = dirs /\ prepared' = prepared
    BY <1>6 DEF UiRequest, StartJob, Reset, Quit, driveVars, fileVars
  <2> QED BY <1>3, <2>1 DEF CacheInv
<1>7. CASE UiContinue /\ (SpawnWorker \/ InstallWorker)
  <2>1. /\ \A t \in Workers : \/ pc'[t] \in {"run", "unborn"}
                              \/ pc'[t] = pc[t] /\ job'[t] = job[t]
        /\ disc' = disc /\ dirs' = dirs /\ prepared' = prepared
    BY <1>1, <1>7
    DEF UiContinue, SpawnWorker, InstallWorker, Destroy, driveVars, fileVars
  <2> QED BY <1>2, <1>3, <2>1 DEF CacheInv
<1>8. CASE Destroy
  <2>1. pc' = pc /\ job' = job /\ ui = "closing"
    BY <1>8 DEF Destroy
  <2> QED BY <1>3, <1>4, <2>1 DEF ClosedIsIdle, CacheInv
<1>9. CASE Environment
  <2>1. pc' = pc /\ job' = job /\ prepared' = prepared
    BY <1>9 DEF Environment
  <2>2. CASE InsertDisc \/ RemoveDisc
    BY <1>3, <2>1, <2>2 DEF InsertDisc, RemoveDisc, DriveIsFree, CacheInv
  <2>3. CASE PowerCycle \/ \E s \in Sources : EditSource(s) \/ LoseSource(s)
    BY <1>3, <2>1, <2>3 DEF PowerCycle, EditSource, LoseSource, driveVars, CacheInv
  <2>4. CASE LoseWorkingCopy
    BY <1>3, <1>4, <2>1, <2>4 DEF LoseWorkingCopy, CacheInv
  <2> QED BY <1>9, <2>2, <2>3, <2>4 DEF Environment
<1>10. ASSUME NEW t \in Workers, Advance(t) \/ Report(t)
      PROVE  CacheInv'
  <2>1. CASE Active(t)
    <3>1. OthersKeep(t) /\ CacheOf(t)'
      <4>1. ~Unwind(t)
        BY <2>1 DEF Unwind, Active
      <4> QED BY <1>1, <1>10, <2>1, <4>1, CacheStep, WorkerShape
              DEF GoesOn, Ends
    <3>2. \A u \in Workers : u # t => ~Active(u)
      BY <1>1, <2>1, WorkerFacts
    <3> QED BY <1>3, <3>1, <3>2 DEF OthersKeep, CacheInv
  <2>2. CASE Unwind(t)
    <3>1. /\ pc'[t] = "exited" /\ disc' = disc /\ prepared' = prepared
          /\ \A u \in Workers : u # t => pc'[u] = pc[u] /\ job'[u] = job[u]
          /\ \A d \in Dirs : d # job[t].tmp => dirs'[d] = dirs[d]
      BY <1>1, <2>2 DEF Unwind, RemoveAll, Goto, driveVars
    <3>2. \A u \in Workers : NeedsCopy(u) => /\ job[u].image \in Dirs
                                             /\ job[u].image # job[t].tmp
      BY DEF BeforeWriting, CopyInv, CopyKept, Safe
    <3> QED BY <1>2, <1>3, <3>1, <3>2 DEF CacheInv
  <2> QED BY <1>1, <1>10, <2>1, <2>2, WorkerShape DEF GoesOn, Ends
<1> QED BY <1>5, <1>6, <1>7, <1>8, <1>9, <1>10 DEF Next, UiContinue

\* Who may change the cache
LEMMA CacheChanges ==
  ASSUME BeforeWriting, CacheInv, [Next]_vars, prepared.valid, prepared' # prepared
  PROVE  \/ ui' = "closed"
         \/ \E t \in Workers :
              \/ pc[t] = "reuse" /\ ~CacheMatches(job[t].req.source)
              \/ pc[t] = "clear" /\ disc.data = <<SessionOf(t)>>
<1>1. CASE UiRequest \/ UiContinue \/ Environment \/ Stopped \/ UNCHANGED vars
  BY <1>1 DEF UiRequest, UiContinue, Destroy, Environment, Stopped, vars, fileVars
<1>2. ASSUME NEW t \in Workers, Advance(t) \/ Report(t)
      PROVE  \/ pc[t] = "reuse" /\ ~CacheMatches(job[t].req.source)
             \/ pc[t] = "clear" /\ disc.data = <<SessionOf(t)>>
  <2>1. TryReuse(t) \/ StorePrepared(t) \/ ClearPrepared(t)
    BY <1>2
    DEF Advance, Report, Run, Validate, StepFails, Fail, DropDirectory,
        PrepareWorkingCopy, CopyImage, AutoFix, Verify, Announce, CheckMedia,
        CheckDrive, EnableBurnerMax, ReadCapacity, CapacityVerdict, TestVerdict,
        CheckAtip, MakeExtractionDirectory, ExtractImage, BeginSession,
        RecorderEnds, RestoreStreaming, AfterRecorder, Complete, Unwind,
        PreparationProgress, WriteProgress, fileVars
  <2>2. ~StorePrepared(t)
    BY DEF StorePrepared, CacheInv, CacheOf, Emptied
  <2>3. CASE TryReuse(t)
    BY <2>3 DEF TryReuse
  <2>4. CASE ClearPrepared(t)
    BY <2>4 DEF ClearPrepared, CacheInv, CacheOf, XgdRecorded
  <2> QED BY <2>1, <2>2, <2>3, <2>4
<1> QED BY <1>1, <1>2 DEF Next

\* IInv and StageInv together are inductive.
THEOREM StageInvariance == Spec => [](IInv /\ StageInv)
BY InitInvariant, InitStage, NextInvariant, NextStage, PTL DEF Spec

\* ... and so is what was checked of the drive beside the other invariants.
THEOREM MediaInvariance == Spec => []BeforeWriting
<1>1. IInv /\ CopyInv /\ StageInv /\ MediaInv /\ [Next]_vars => MediaInv'
  BY NextMedia DEF BeforeWriting
<1> QED BY <1>1, InitMedia, CopyInvariance, StageInvariance, PTL
        DEF BeforeWriting, CopyIInv, Spec

\* ... and so is the account of what the disc holds.
THEOREM RecordInvariance == Spec => []RecordInv
<1>1. Init => RecordInv
  BY DEF Init, RecordInv, Imaged, OnDisc, Active, Recorded, Writing
<1>2. BeforeWriting /\ CopyIInv /\ RecordInv /\ [Next]_vars => RecordInv'
  BY NextRecord DEF CopyIInv
<1> QED BY <1>1, <1>2, MediaInvariance, CopyInvariance, PTL DEF Spec

\* What the window reads with Snapshot is the life of one job at a time, as
\* BurnLifecycle allows: initial states map to initial states and every step
\* to a step or none (the writes to state_ in Start, Reset, SetFailure,
\* SetPreparationProgress and the pipelines).
THEOREM LifecycleSafety ==
  Spec => Lifecycle!Init /\ [][Lifecycle!Next]_(Lifecycle!lifecycleVars)
<1>1. IInv /\ StageInv /\ [Next]_vars => [Lifecycle!Next]_(Lifecycle!lifecycleVars)
  BY NextStage DEF LifecycleStep
<1> QED BY <1>1, InitStage, StageInvariance, PTL DEF Spec

\* No bar is at its end when a recorder's output starts to be parsed, so that
\* the bounds of std::clamp never cross.
THEOREM ClampIsDefined == Spec => []ClampBounds
<1>1. IInv /\ StageInv => ClampBounds
  BY DEF ClampBounds, StageInv, StageOf, Recording, InSession
<1> QED BY <1>1, StageInvariance, PTL

-----------------------------------------------------------------------------

\* A DVD is recorded only on blank media of an accepted kind on which the image
\* fits as far as the drive says, an XGD3 image only behind BurnerMAX and with
\* the full capacity reported (RunStandardImage).
THEOREM CheckedBeforeWriting == Spec => []WritesOnCheckedMedia
<1>1. MediaInv => WritesOnCheckedMedia
  BY DEF MediaInv, Checked, WritesOnCheckedMedia, BehindCheck, FullCapacity
<1> QED BY <1>1, MediaInvariance, PTL DEF BeforeWriting

\* The streaming policy of a burn is put back before its result is looked at
\* (RetroBeam streamrestore).
THEOREM StreamingNotLeftBehind == Spec => []StreamingRestored
<1>1. Init => StreamingRestored
  BY DEF Init, StreamingRestored
<1>2. StreamingRestored /\ IInv /\ [Next]_vars => StreamingRestored'
  BY DriveSteps DEF StreamingRestored
<1> QED BY <1>1, <1>2, Invariance, PTL DEF Spec

\* Only a job started with Burn changes what is on a disc, and only while the
\* window says that it is writing.
THEOREM NothingElseWrites == Spec => OnlyBurnsWrite
<1>1. IInv /\ StageInv /\ [Next]_vars =>
        (disc # None /\ disc' # None /\ disc'.data # disc.data =>
           /\ snap.writing /\ snap.stage = SessionStage(snap.session)
           /\ \E t \in Workers : pc[t] = "write" /\ job[t].req.op = "burn")
  BY DriveSteps DEF StageInv, StageOf, InSession, Recording, BurnsDisc
<1> QED BY <1>1, StageInvariance, PTL DEF Spec, OnlyBurnsWrite

\* A burn is reported complete only with the sessions of the selected image at
\* the end of the disc, in order and of one version.
THEOREM CompleteMeansRecorded == Spec => []CompleteIsRecorded
<1>1. RecordInv => CompleteIsRecorded
  BY DEF RecordInv, OnDisc, Recorded, HasSessions, CompleteIsRecorded
<1> QED BY <1>1, RecordInvariance, PTL

\* Nothing but a mismatch, a recorded disc or the end of the engine drops a
\* cached copy: a failed or rejected burn keeps it (the callers of
\* TryReusePreparedXgd3, StorePreparedXgd3 and ClearPreparedXgd3).
THEOREM FailureKeepsCache == Spec => CacheSurvivesFailure
<1>1. Init => CacheInv
  BY DEF Init, CacheInv, CacheOf, Emptied, XgdRecorded
<1>2. BeforeWriting /\ CopyIInv /\ CacheInv /\ [Next]_vars => CacheInv'
  BY NextCache DEF CopyIInv
<1>3. BeforeWriting /\ CacheInv /\ [Next]_vars =>
        (prepared.valid /\ prepared' # prepared =>
           \/ ui' = "closed"
           \/ \E t \in Workers :
                \/ pc[t] = "reuse" /\ ~CacheMatches(job[t].req.source)
                \/ pc[t] = "clear" /\ disc.data = <<SessionOf(t)>>)
  BY CacheChanges
<1> QED BY <1>1, <1>2, <1>3, MediaInvariance, CopyInvariance, PTL
        DEF Spec, CacheSurvivesFailure

=============================================================================
