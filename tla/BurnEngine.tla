----------------------------- MODULE BurnEngine -----------------------------
(***************************************************************************)
(* BurnEngine (src/src/burn_engine.cpp): the object that checks, prepares  *)
(* and records a disc on a worker thread while the window keeps drawing.   *)
(*                                                                         *)
(* Threads.  The UI thread calls Start, StartBurnerMaxTest, Reset and the  *)
(* destructor.  Start sets busy under the mutex, constructs a std::jthread *)
(* (which runs at once) and move-assigns it to worker_, which joins the    *)
(* previous worker.  A worker clears busy under the mutex and only then    *)
(* runs its destructors, so the end of one worker overlaps the start of    *)
(* the next.  pc[t] is the program counter of worker t; "tail" is the part *)
(* of a worker that runs after busy has fallen.                            *)
(*                                                                         *)
(* Children, files and the drive.  A helper process is a step whose        *)
(* outcome the environment chooses; the drive holds a disc whose data is   *)
(* the sequence of sessions recorded on it; a source image has a version   *)
(* (0: gone) that stands for its last-write time and has a size of its     *)
(* own; a working directory holds a copy of some version of a source.      *)
(*                                                                         *)
(* A definition called X_<mistake> is X with a mistake somebody could make *)
(* in that code.  Nothing uses it: it stands there to be put in the place  *)
(* of X, when the property it breaks must be found violated.               *)
(***************************************************************************)
EXTENDS Naturals, Sequences

CONSTANTS
  Workers,       \* identities of worker threads
  Dirs,          \* names of working directories
  Sources,       \* disc images the user may select
  Size,          \* Size[s][v]: the size class of version v of image s (see below)
  MaxVersion,    \* bound on the edits of one source image
  Requests,      \* the requests the window issues
  Media,         \* profiles of the discs the user owns
  MaxSessions,   \* bound on the sessions of one CD
  FullProgress,  \* the value that stands for progress = 1.0F
  None

VARIABLES
  ui,         \* what the UI thread is doing inside BurnEngine
  pending,    \* the request Start is about to hand to a thread
  incoming,   \* the thread constructed but not yet assigned to worker_
  handle,     \* worker_
  pc, job,    \* program counter and local variables of each worker
  snap,       \* state_, the BurnSnapshot behind the mutex
  tools,      \* whether the embedded helpers could be extracted
  ver,        \* version of each source image, 0 when it is gone
  dirs,       \* contents of each working directory, None when absent
  prepared,   \* preparedXgd3_
  lost,       \* history: directories the engine forgot while they were there
  disc,       \* the disc in the drive
  burnerMax,  \* does the drive report the XGD3 layer boundary?
  streaming   \* state of the drive's SET STREAMING policy

uiVars    == <<ui, pending, incoming, handle>>
fileVars  == <<dirs, prepared, lost>>
driveVars == <<disc, burnerMax, streaming>>
vars == <<uiVars, pc, job, snap, tools, ver, fileVars, driveVars>>

-----------------------------------------------------------------------------
(* Sizes, in classes: 0 is empty; a DVD+R holds 1, a DVD-R 2 (the DVD5     *)
(* limit), nominal dual layer 3, a full XGD3 image 4.  (Images are whole   *)
(* sectors: one that is not is refused where an empty one is, except by    *)
(* the media check.)                                                       *)

SingleLayer == 2
DualLayer   == 3
FullXgd3    == 4
Sizes       == 0 .. 5

DvdTargets == {"ps2dvd", "xgd2", "xgd3"}
Targets    == DvdTargets \union {"cd", "dreamcast"}

AllRequests == [op : {"check", "dryrun", "burn", "burnermax"},
                target : Targets, source : Sources,
                grow : BOOLEAN, stream : BOOLEAN]

Profiles == {"cd", "single", "minusDL", "plusDL"}

\* StartBurnerMaxTest always asks for XGD3; the window has no dry-run button
\* for a Dreamcast image (the engine itself would not honour one).
ASSUME RequestsAssumption ==
  /\ Requests \subseteq AllRequests
  /\ \A r \in Requests :
        /\ r.op = "burnermax" => r.target = "xgd3"
        /\ r.op = "dryrun" => r.target # "dreamcast"
ASSUME SizeAssumption == Size \in [Sources -> [1 .. MaxVersion -> Sizes]]
ASSUME BoundsAssumption ==
  /\ MaxVersion \in Nat \ {0} /\ MaxSessions \in Nat
  /\ FullProgress \in Nat /\ FullProgress >= 2
  /\ Media \subseteq Profiles
ASSUME NoneAssumption == None \notin Workers \union Dirs \union Sources

IsDvd(r) == r.target \in DvdTargets

ValidImage(r) ==
  /\ ver[r.source] # 0
  /\ Size[r.source][ver[r.source]] \in
       1 .. (CASE r.target = "xgd3" -> FullXgd3
               [] r.target \in {"xgd2", "ps2dvd"} -> DualLayer
               [] OTHER -> 5)

\* Xbox images need DVD+R DL; a PS2 image takes any DVD its bytes fit in
\* nominally.
MediaAccepted(r, profile, bytes) ==
  \/ profile = "plusDL"
  \/ r.target = "ps2dvd" /\ profile = "minusDL"
  \/ r.target = "ps2dvd" /\ profile = "single" /\ bytes <= SingleLayer

\* What a job writes: the image as it is now, or its copy of it.
Content(t) ==
  IF job[t].image = None
  THEN [source |-> job[t].req.source, version |-> ver[job[t].req.source]]
  ELSE dirs[job[t].image].holds

Contents == [source : Sources, version : 0 .. MaxVersion]

Readable(content) == content \in Contents /\ content.version # 0

\* file_size of the image a DVD job is about to write, 0 when it cannot be read;
\* a BurnerMAX test has none.
ImageBytes(t) ==
  IF \/ job[t].image # None /\ dirs[job[t].image] = None
     \/ ~Readable(Content(t))
  THEN 0 ELSE Size[Content(t).source][Content(t).version]

-----------------------------------------------------------------------------
(* The environment's part: what helpers and the drive may answer.          *)

\* "Free Blocks" as dvd+rw-mediainfo prints it: at most one line, which some
\* drives leave out.  A patched drive need not offer the capacity at once.
Capacities ==
  CASE disc.profile = "single"                 -> {1, 2}
    [] disc.profile = "minusDL"                -> {DualLayer}
    [] disc.profile = "plusDL"                 ->
         IF burnerMax THEN {DualLayer, FullXgd3} ELSE {DualLayer}
    [] OTHER                                   -> {}

CapacityReports == {<<>>} \union {<<c>> : c \in Capacities}

Ruined == [session |-> 0, source |-> None, version |-> 0, closes |-> TRUE]

\* A recorder writes on a blank disc, and RetroBeam also behind the last
\* session of a CD that was left open with -multi, whoever left it so.
Writable == /\ disc # None
            /\ disc.data # <<>> =>
                 /\ disc.profile = "cd" /\ Len(disc.data) < MaxSessions
                 /\ ~disc.data[Len(disc.data)].closes

-----------------------------------------------------------------------------
(* Shared state                                                            *)

IdleSnapshot == [stage |-> "Idle", busy |-> FALSE, writing |-> FALSE,
                 progress |-> 0, session |-> 0]

NoCopy == [valid |-> FALSE, source |-> None, dir |-> None, id |-> 0]

NoJob == [req |-> None, tmp |-> None, image |-> None, doomed |-> None,
          bytes |-> 0, caps |-> <<>>, session |-> 0, result |-> None]

\* 0.999F: the most a running write may show
WriteCap == FullProgress - 1

\* fs::remove_all of directory d, or of none.  Its error is ignored wherever the
\* engine calls it: the directory may still be there when the engine has
\* forgotten it.  (How much is left in it makes no difference: nobody opens it.)
RemoveAll(d) ==
  \E left \in IF d = None THEN {None} ELSE {None, dirs[d]} :
    /\ dirs' = [e \in Dirs |-> IF e = d THEN left ELSE dirs[e]]
    /\ lost' = IF left = None THEN lost ELSE lost \union {d}

Init ==
  /\ ui = "loop" /\ pending = None /\ incoming = None /\ handle = None
  /\ pc = [t \in Workers |-> "unborn"]
  /\ job = [t \in Workers |-> NoJob]
  /\ snap = IdleSnapshot
  /\ tools = "unknown"
  /\ ver = [s \in Sources |-> 1]
  /\ dirs = [d \in Dirs |-> None]
  /\ prepared = NoCopy
  /\ lost = {}
  /\ disc = None /\ burnerMax = FALSE /\ streaming = "default"

-----------------------------------------------------------------------------
(* The UI thread                                                           *)

\* The critical section of Start and StartBurnerMaxTest.  A busy engine
\* answers false and changes nothing.
StartJob_NoBusyTest(r) ==
  /\ ui = "loop"
  /\ snap' = [IdleSnapshot EXCEPT !.busy = TRUE, !.stage = "Preparing"]
  /\ ui' = "spawn"
  /\ pending' = r
  /\ UNCHANGED <<incoming, handle, pc, job>>

StartJob(r) ==
  /\ ui = "loop" /\ ~snap.busy
  /\ snap' = [IdleSnapshot EXCEPT !.busy = TRUE, !.stage = "Preparing"]
  /\ ui' = "spawn"
  /\ pending' = r
  /\ UNCHANGED <<incoming, handle, pc, job>>

\* std::jthread(...): the new thread runs from here on.
SpawnWorker ==
  /\ ui = "spawn"
  /\ \E t \in Workers :
       /\ pc[t] = "unborn"
       /\ incoming' = t
       /\ pc' = [pc EXCEPT ![t] = "run"]
       /\ job' = [job EXCEPT ![t] = [NoJob EXCEPT !.req = pending]]
  /\ ui' = "install"
  /\ pending' = None
  /\ UNCHANGED <<handle, snap>>

\* worker_ = ...: joins the worker it replaces.
InstallWorker ==
  /\ ui = "install"
  /\ handle # None => pc[handle] = "exited"
  /\ pc' = [t \in Workers |-> IF t = handle THEN "unborn" ELSE pc[t]]
  /\ handle' = incoming
  /\ incoming' = None
  /\ ui' = "loop"
  /\ UNCHANGED <<pending, job, snap>>

Reset_NoBusyTest ==
  ui = "loop" /\ snap' = IdleSnapshot /\ UNCHANGED <<uiVars, pc, job>>

Reset ==
  /\ ui = "loop" /\ ~snap.busy
  /\ snap' = IdleSnapshot
  /\ UNCHANGED <<uiVars, pc, job>>

\* The window closes only on a settled engine (WM_CLOSE); ~BurnEngine then
\* joins the last worker and clears the cache.
Quit ==
  /\ ui = "loop" /\ ~snap.busy
  /\ ui' = "closing"
  /\ UNCHANGED <<pending, incoming, handle, pc, job, snap>>

Destroy ==
  /\ ui = "closing"
  /\ handle # None => pc[handle] = "exited"
  /\ RemoveAll(prepared.dir)
  /\ prepared' = NoCopy
  /\ ui' = "closed"
  /\ UNCHANGED <<pending, incoming, handle, pc, job, snap>>

\* What the window asks for
UiRequest ==
  /\ \/ \E r \in Requests : StartJob(r)
     \/ Reset
     \/ Quit
  /\ UNCHANGED <<tools, ver, fileVars, driveVars>>

\* What a call then does by itself
UiContinue ==
  /\ \/ SpawnWorker /\ UNCHANGED fileVars
     \/ InstallWorker /\ UNCHANGED fileVars
     \/ Destroy
  /\ UNCHANGED <<tools, ver, driveVars>>

-----------------------------------------------------------------------------
(* Steps of a worker.  Unless it says otherwise a step leaves the files,   *)
(* the drive and the snapshot alone.                                       *)

Goto(t, label) == pc' = [pc EXCEPT ![t] = label]

Proceed(t, label) == Goto(t, label) /\ UNCHANGED <<job, snap>>

\* The last critical section of a job.  Of the worker's locals only the
\* TemporaryDirectory still matters.
Settle(t, stage, progress) ==
  /\ snap' = [snap EXCEPT !.stage = stage, !.busy = FALSE,
                          !.writing = FALSE, !.progress = progress]
  /\ job' = [job EXCEPT ![t] = [NoJob EXCEPT !.tmp = job[t].tmp]]
  /\ Goto(t, "tail")

\* What a helper's output may claim: it can also be more than 100%.
Parsed == 0 .. FullProgress + 1

AtMost(cap, p) == IF p > cap THEN cap ELSE p

\* SetPreparationProgress
ShowPreparation(progress) ==
  snap' = [snap EXCEPT !.progress = AtMost(FullProgress, progress),
                       !.writing = FALSE]

\* Run, and the lambda of StartBurnerMaxTest: the helpers are extracted once
\* for the life of the process, then the request goes to its pipeline.
Run(t) ==
  /\ pc[t] = "run"
  /\ tools' \in IF tools = "unknown" THEN {"ready", "broken"} ELSE {tools}
  /\ Goto(t, IF tools' = "broken" THEN "fail"
             ELSE IF job[t].req.op = "burnermax" THEN "mediainfo"
             ELSE IF job[t].req.target = "dreamcast" THEN "mkdtemp"
             ELSE "validate")
  /\ UNCHANGED <<job, snap, fileVars, driveVars>>

\* ValidateStandardImage and the early returns behind it
Validate(t) ==
  LET r == job[t].req
  IN  /\ pc[t] = "validate"
      /\ IF ValidImage(r) /\ r.op = "check"
         THEN Settle(t, "Ready", snap.progress)
         ELSE Proceed(t, IF ~ValidImage(r) \/ (r.op = "dryrun" /\ ~IsDvd(r))
                         THEN "fail"
                         ELSE IF r.target = "xgd3" THEN "reuse"
                         ELSE IF IsDvd(r) THEN "mediainfo"
                         ELSE "atip")
      /\ UNCHANGED <<tools, fileVars, driveVars>>

\* A helper that cannot be started or exits with an error, output that
\* reports a failure, or a file operation that fails.
StepFails(t) ==
  /\ pc[t] \in {"validate", "prepare", "copy", "autofix", "verify", "mediainfo",
                "checkdrive", "capacity", "atip", "mkdtemp", "extract"}
  /\ Proceed(t, "fail")
  /\ UNCHANGED <<tools, fileVars, driveVars>>

\* SetFailure
Fail_StaysBusy(t) ==
  /\ pc[t] = "fail"
  /\ snap' = [snap EXCEPT !.stage = "Failed", !.writing = FALSE]
  /\ job' = [job EXCEPT ![t] = [NoJob EXCEPT !.tmp = job[t].tmp]]
  /\ Goto(t, "tail")
  /\ UNCHANGED <<tools, fileVars, driveVars>>

Fail(t) ==
  /\ pc[t] = "fail"
  /\ Settle(t, "Failed", snap.progress)
  /\ UNCHANGED <<tools, fileVars, driveVars>>

-----------------------------------------------------------------------------
(* XGD3: the ABGX360 working copy and its cache                            *)

\* Does the cache hold a working copy of s as s is now?
CacheMatches(s) ==
  /\ prepared.valid
  /\ prepared.source = s
  /\ prepared.id = ver[s]
  /\ dirs[prepared.dir] # None

\* TryReusePreparedXgd3: on a match the copy is used as it is, otherwise the
\* cache is emptied and its directory removed outside the mutex.
TryReuse_ForgetsStale(t) ==
  LET s == job[t].req.source
  IN  /\ pc[t] = "reuse"
      /\ IF CacheMatches(s)
         THEN /\ job' = [job EXCEPT ![t].image = prepared.dir]
              /\ ShowPreparation(FullProgress)
              /\ Goto(t, "mediainfo")
              /\ UNCHANGED prepared
         ELSE /\ prepared' = NoCopy
              /\ Proceed(t, "dropStale")
      /\ UNCHANGED <<tools, dirs, lost, driveVars>>

TryReuse(t) ==
  LET s == job[t].req.source
  IN  /\ pc[t] = "reuse"
      /\ IF CacheMatches(s)
         THEN /\ job' = [job EXCEPT ![t].image = prepared.dir]
              /\ ShowPreparation(FullProgress)
              /\ Goto(t, "mediainfo")
              /\ UNCHANGED prepared
         ELSE /\ job' = [job EXCEPT ![t].doomed = prepared.dir]
              /\ prepared' = NoCopy
              /\ Goto(t, "dropStale")
              /\ UNCHANGED snap
      /\ UNCHANGED <<tools, dirs, lost, driveVars>>

\* remove_all of a directory taken out of the cache under the mutex; the same
\* three statements end TryReuse, StorePreparedXgd3 and ClearPreparedXgd3.
AfterDrop == [dropStale |-> "prepare", dropReplaced |-> "announce",
              dropBurned |-> "complete"]

DropDirectory(t) ==
  /\ pc[t] \in DOMAIN AfterDrop
  /\ RemoveAll(job[t].doomed)
  /\ job' = [job EXCEPT ![t].doomed = None]
  /\ Goto(t, AfterDrop[pc[t]])
  /\ UNCHANGED <<snap, tools, prepared, driveVars>>

\* MakeTemporaryDirectory and MakeTemporaryDirectoryNear: create_directory
\* takes only a name that does not exist, and so none that a failed removal left
\* behind; names carry the process id and the tick count, so that of the cached
\* directory does not come up again.
NewDirectory(t) ==
  \E d \in Dirs :
    /\ dirs[d] = None /\ d # prepared.dir
    /\ dirs' = [dirs EXCEPT ![d] = [holds |-> None, verified |-> FALSE]]
    /\ job' = [job EXCEPT ![t].tmp = d, ![t].image = d]

PrepareWorkingCopy(t) ==
  /\ pc[t] = "prepare"
  /\ ver[job[t].req.source] # 0
  /\ ShowPreparation(0)
  /\ NewDirectory(t)
  /\ Goto(t, "copy")
  /\ UNCHANGED <<tools, prepared, lost, driveVars>>

\* CopyFileExW; CDIrip reads its source in the same way (ExtractImage).
CopySource(t) ==
  LET s == job[t].req.source
  IN  /\ ver[s] # 0
      /\ dirs' = [dirs EXCEPT ![job[t].tmp].holds =
                                [source |-> s, version |-> ver[s]]]

CopyImage(t) ==
  /\ pc[t] = "copy"
  /\ CopySource(t)
  /\ ShowPreparation(0)
  /\ Goto(t, "autofix")
  /\ UNCHANGED <<job, tools, prepared, lost, driveVars>>

\* abgx360 --af3 on the working copy
AutoFix_SkipsVerification(t) ==
  /\ pc[t] = "autofix"
  /\ ShowPreparation(FullProgress)
  /\ Goto(t, "store")
  /\ UNCHANGED <<job, tools, fileVars, driveVars>>

AutoFix(t) ==
  /\ pc[t] = "autofix"
  /\ ShowPreparation(0)
  /\ Goto(t, "verify")
  /\ UNCHANGED <<job, tools, fileVars, driveVars>>

\* the read-only pass, after which the TemporaryDirectory is released
Verify(t) ==
  /\ pc[t] = "verify"
  /\ ShowPreparation(FullProgress)
  /\ dirs' = [dirs EXCEPT ![job[t].tmp].verified = TRUE]
  /\ Goto(t, "store")
  /\ UNCHANGED <<job, tools, prepared, lost, driveVars>>

\* StorePreparedXgd3: files the directory under the identity the source has
\* now; when the source can no longer be queried it returns without filing it.
StorePrepared_NoRelease(t) ==
  LET s == job[t].req.source
  IN  /\ pc[t] = "store"
      /\ IF ver[s] = 0
         THEN UNCHANGED <<prepared, job>>
         ELSE /\ prepared' = [valid |-> TRUE, source |-> s,
                              dir |-> job[t].tmp, id |-> ver[s]]
              /\ job' = [job EXCEPT ![t].doomed = prepared.dir]
      /\ Goto(t, "dropReplaced")
      /\ UNCHANGED <<snap, tools, dirs, lost, driveVars>>

StorePrepared(t) ==
  LET s == job[t].req.source
  IN  /\ pc[t] = "store"
      /\ IF ver[s] = 0
         THEN /\ job' = [job EXCEPT ![t].tmp = None]
              /\ lost' = lost \union {job[t].tmp}
              /\ UNCHANGED prepared
         ELSE /\ prepared' = [valid |-> TRUE, source |-> s,
                              dir |-> job[t].tmp, id |-> ver[s]]
              /\ job' = [job EXCEPT ![t].tmp = None, ![t].doomed = prepared.dir]
              /\ UNCHANGED lost
      /\ Goto(t, "dropReplaced")
      /\ UNCHANGED <<snap, tools, dirs, driveVars>>

\* the log line that tells the user the copy is cached
Announce(t) ==
  /\ pc[t] = "announce"
  /\ Proceed(t, "mediainfo")
  /\ UNCHANGED <<tools, fileVars, driveVars>>

\* CopyProgressRoutine and the ABGX360 output parsers
PreparationProgress(t) ==
  /\ pc[t] \in {"copy", "autofix", "verify"}
  /\ \E p \in Parsed : ShowPreparation(p)
  /\ UNCHANGED <<pc, job, tools, fileVars, driveVars>>

-----------------------------------------------------------------------------
(* Checks on the drive before anything is written                          *)

\* The first dvd+rw-mediainfo run of RunStandardImage and RunBurnerMaxOnly
AfterMediaCheck(r) ==
  IF r.op # "burnermax" /\ ~r.grow THEN "checkdrive"
  ELSE IF r.target = "xgd3" THEN "burnermax"
  ELSE "fit"

CheckMedia_NotBlank(t) ==
  LET r == job[t].req
      bytes == ImageBytes(t)
  IN  /\ pc[t] = "mediainfo"
      /\ disc # None
      /\ r.op = "burnermax" \/ bytes # 0
      /\ MediaAccepted(r, disc.profile, bytes)
      /\ \E report \in CapacityReports :
           job' = [job EXCEPT ![t].caps = report, ![t].bytes = bytes]
      /\ Goto(t, AfterMediaCheck(r))
      /\ UNCHANGED <<snap, tools, fileVars, driveVars>>

CheckMedia(t) ==
  LET r == job[t].req
      bytes == ImageBytes(t)
  IN  /\ pc[t] = "mediainfo"
      /\ disc # None
      /\ disc.data = <<>>
      /\ r.op = "burnermax" \/ bytes # 0
      /\ MediaAccepted(r, disc.profile, bytes)
      /\ \E report \in CapacityReports :
           job' = [job EXCEPT ![t].caps = report, ![t].bytes = bytes]
      /\ Goto(t, AfterMediaCheck(r))
      /\ UNCHANGED <<snap, tools, fileVars, driveVars>>

\* RetroBeam -checkdrive
CheckDrive(t) ==
  /\ pc[t] = "checkdrive"
  /\ Proceed(t, IF job[t].req.target = "xgd3" THEN "burnermax" ELSE "fit")
  /\ UNCHANGED <<tools, fileVars, driveVars>>

\* EnableBurnerMax succeeds only when the drive reports the XGD3 boundary at
\* the end; a failed attempt may have changed the boundary all the same.
EnableBurnerMax(t) ==
  /\ pc[t] = "burnermax"
  /\ \E ok \in BOOLEAN :
       /\ burnerMax' \in IF ok THEN {TRUE} ELSE {burnerMax, TRUE}
       /\ Proceed(t, IF ok THEN "capacity" ELSE "fail")
  /\ UNCHANGED <<tools, fileVars, disc, streaming>>

\* dvd+rw-mediainfo again, into an emptied buffer
ReadCapacity(t) ==
  /\ pc[t] = "capacity"
  /\ \E report \in CapacityReports : job' = [job EXCEPT ![t].caps = report]
  /\ Goto(t, "fit")
  /\ UNCHANGED <<snap, tools, fileVars, driveVars>>

\* The first report of the capacity in mediainfo's output counts.
FullCapacity(t) == job[t].caps # <<>> /\ Head(job[t].caps) >= FullXgd3

\* The verdict on the capacity the drive reported (only an XGD3 job insists on
\* a report) for the bytes the media check found, then for RetroBeam a second
\* look at a PS2 image, for its layer break.  (growisofs's comes when the session
\* has begun, and is one reason why a recorder may not start.)
CapacityVerdict(t) ==
  LET r == job[t].req
      refused == \/ r.target = "xgd3" /\ ~FullCapacity(t)
                 \/ job[t].caps # <<>> /\ job[t].bytes > Head(job[t].caps)
                 \/ /\ r.target = "ps2dvd" /\ ~r.grow
                    /\ ImageBytes(t) \notin 1 .. DualLayer
  IN  /\ pc[t] = "fit" /\ r.op # "burnermax"
      /\ \/ refused /\ Proceed(t, "fail")
         \/ /\ ~refused
            /\ r.op = "dryrun" /\ ~r.grow
            /\ Settle(t, "Ready", 0)
         \/ /\ ~refused
            /\ r.op = "burn" \/ r.grow
            /\ Proceed(t, "begin")
      /\ UNCHANGED <<tools, fileVars, driveVars>>

\* The end of RunBurnerMaxOnly, which has no image to fit
TestVerdict(t) ==
  /\ pc[t] = "fit" /\ job[t].req.op = "burnermax"
  /\ IF FullCapacity(t) THEN Settle(t, "Ready", 0) ELSE Proceed(t, "fail")
  /\ UNCHANGED <<tools, fileVars, driveVars>>

\* RetroBeam -atip: is there a CD-R?  It does not ask whether it is blank.
CheckAtip(t) ==
  /\ pc[t] = "atip"
  /\ disc # None /\ disc.profile = "cd"
  /\ Proceed(t, IF job[t].req.target = "dreamcast" THEN "extract" ELSE "begin")
  /\ UNCHANGED <<tools, fileVars, driveVars>>

-----------------------------------------------------------------------------
(* Dreamcast: a CDI image is extracted before its two sessions are burned  *)

MakeExtractionDirectory(t) ==
  /\ pc[t] = "mkdtemp"
  /\ NewDirectory(t)
  /\ Goto(t, IF job[t].req.op = "check" THEN "extract" ELSE "atip")
  /\ UNCHANGED <<snap, tools, prepared, lost, driveVars>>

\* CDIrip followed by DetectLayout
ExtractImage(t) ==
  /\ pc[t] = "extract"
  /\ CopySource(t)
  /\ \/ /\ job[t].req.op = "check"
        /\ Settle(t, "Ready", snap.progress)
     \/ /\ job[t].req.op # "check"
        /\ Proceed(t, "begin")
  /\ UNCHANGED <<tools, prepared, lost, driveVars>>

-----------------------------------------------------------------------------
(* Writing                                                                 *)

BurnsDisc(t) == job[t].req.op = "burn"

SessionStage(n) == IF n = 1 THEN "BurningSession1" ELSE "BurningSession2"

\* The bar starts again for every image but a Dreamcast one, whose two
\* sessions share it.
BeginSession_KeepsProgress(t) ==
  LET n == job[t].session + 1
  IN  /\ pc[t] = "begin"
      /\ job' = [job EXCEPT ![t].session = n]
      /\ snap' = [snap EXCEPT !.stage = SessionStage(n), !.session = n,
                              !.writing = BurnsDisc(t)]
      /\ Goto(t, "write")
      /\ UNCHANGED <<tools, fileVars, driveVars>>

BeginSession(t) ==
  LET n == job[t].session + 1
  IN  /\ pc[t] = "begin"
      /\ job' = [job EXCEPT ![t].session = n]
      /\ snap' = [stage |-> SessionStage(n), busy |-> TRUE,
                  writing |-> BurnsDisc(t), session |-> n,
                  progress |-> IF job[t].req.target = "dreamcast"
                               THEN snap.progress ELSE 0]
      /\ Goto(t, "write")
      /\ UNCHANGED <<tools, fileVars, driveVars>>

\* RetroBeam sets the drive's streaming policy when it starts; a separate call
\* puts it back (RestoreStreaming).  r.stream: the user chose the policy and
\* left "Restore streaming defaults after burn" ticked; the window drops the
\* policy for everything but a DVD.
UsesStreaming(t) ==
  BurnsDisc(t) /\ IsDvd(job[t].req) /\ ~job[t].req.grow /\ job[t].req.stream

\* max(old, min(parsed, 0.999)) for RetroBeam and clamp(parsed, old, 0.999)
\* for growisofs, which agree as long as old <= 0.999.
WriteProgress(t) ==
  /\ pc[t] = "write"
  /\ \E p \in Parsed :
       LET shown == AtMost(WriteCap, p)
       IN  snap' = [snap EXCEPT !.progress = IF shown < @ THEN @ ELSE shown]
  /\ UNCHANGED <<pc, job, tools, fileVars, driveVars>>

\* Only a Dreamcast disc has two, the first recorded with -multi.
Sessions(r) == IF r.target = "dreamcast" THEN 2 ELSE 1

SessionOf(t) == [session |-> job[t].session, source |-> Content(t).source,
                 version |-> Content(t).version,
                 closes |-> (job[t].session = Sessions(job[t].req))]

\* Does what is written, which may have changed since the checks, fit the disc?
Fits(t) == IsDvd(job[t].req) => \E c \in Capacities : ImageBytes(t) <= c

\* growisofs is given -dry-run when the job simulates; RetroBeam is not even
\* started then (CapacityVerdict).
RecorderWrites_NoDryRun(t) == pc[t] = "write"

RecorderWrites(t) == BurnsDisc(t)

\* The streaming policy is put back before anybody looks at the result.
AfterWrite_OnlyOnSuccess(t) ==
  IF UsesStreaming(t) /\ job'[t].result = "ok" THEN "restore" ELSE "written"

AfterWrite(t) == IF UsesStreaming(t) THEN "restore" ELSE "written"

\* The recorder ends: it never started, failed somewhere on the way, or
\* exited with code 0.
RecorderEnds(t) ==
  /\ pc[t] = "write"
  /\ \E result \in {"notstarted", "failed", "ok"} :
       /\ job' = [job EXCEPT ![t].result = result]
       /\ \/ /\ ~RecorderWrites(t) \/ result = "notstarted"
             /\ UNCHANGED disc
          \/ /\ RecorderWrites(t) /\ result = "failed" /\ disc # None
             /\ disc' \in {disc, [disc EXCEPT !.data = <<Ruined>>]}
          \/ /\ RecorderWrites(t) /\ result = "failed" /\ disc = None
             /\ UNCHANGED disc
          \/ /\ RecorderWrites(t) /\ result = "ok"
             /\ Writable /\ Readable(Content(t)) /\ Fits(t)
             /\ disc' = [disc EXCEPT !.data = Append(@, SessionOf(t))]
       /\ streaming' = IF UsesStreaming(t) /\ result # "notstarted"
                       THEN "override" ELSE streaming
  /\ Goto(t, AfterWrite(t))
  /\ UNCHANGED <<snap, tools, fileVars, burnerMax>>

\* RetroBeam streamrestore, whatever the write did; a failure is a warning.
RestoreStreaming(t) ==
  /\ pc[t] = "restore"
  /\ streaming' \in {"default", "stuck"}
  /\ Goto(t, "written")
  /\ UNCHANGED <<job, snap, tools, fileVars, disc, burnerMax>>

\* Where a recorded session leads
AfterSession(t) ==
  IF job[t].req.target = "xgd3" THEN "clear"
  ELSE IF job[t].req.target = "dreamcast" /\ job[t].session = 1 THEN "begin"
  ELSE "complete"

\* Only an exit code of 0 goes on: to the end of a dry run, to the second
\* Dreamcast session, or to the end of the burn.
AfterRecorder_IgnoresExitCode(t) ==
  LET ok == job[t].result # "notstarted"
  IN  /\ pc[t] = "written"
      /\ \/ /\ ok /\ ~BurnsDisc(t)
            /\ Settle(t, "Ready", 0)
         \/ /\ ok => BurnsDisc(t)
            /\ Proceed(t, IF ok THEN AfterSession(t) ELSE "fail")
      /\ UNCHANGED <<tools, fileVars, driveVars>>

AfterRecorder_ClearsAnyway(t) ==
  /\ pc[t] = "written"
  /\ Proceed(t, IF job[t].req.target = "xgd3" THEN "clear" ELSE "fail")
  /\ UNCHANGED <<tools, fileVars, driveVars>>

AfterRecorder(t) ==
  LET r == job[t].req
      ok == job[t].result = "ok"
  IN  /\ pc[t] = "written"
      /\ \/ /\ ok /\ ~BurnsDisc(t)
            /\ Settle(t, "Ready", IF r.target = "xgd3" THEN FullProgress ELSE 0)
         \/ /\ ok => BurnsDisc(t)
            /\ Proceed(t, IF ok THEN AfterSession(t) ELSE "fail")
      /\ UNCHANGED <<tools, fileVars, driveVars>>

\* ClearPreparedXgd3, once the XGD3 disc is written
ClearPrepared(t) ==
  /\ pc[t] = "clear"
  /\ job' = [job EXCEPT ![t].doomed = prepared.dir]
  /\ prepared' = NoCopy
  /\ Goto(t, "dropBurned")
  /\ UNCHANGED <<snap, tools, dirs, lost, driveVars>>

\* The disc is ejected, or Windows could not eject it.
Complete(t) ==
  /\ pc[t] = "complete"
  /\ disc' \in {disc, None}
  /\ Settle(t, "Complete", FullProgress)
  /\ UNCHANGED <<tools, fileVars, burnerMax, streaming>>

\* The destructors that run after busy has fallen
Unwind_NeedsUiThread(t) ==
  /\ pc[t] = "tail"
  /\ ui = "loop"
  /\ RemoveAll(job[t].tmp)
  /\ job' = [job EXCEPT ![t] = NoJob]
  /\ Goto(t, "exited")
  /\ UNCHANGED <<snap, tools, prepared, driveVars>>

Unwind(t) ==
  /\ pc[t] = "tail"
  /\ RemoveAll(job[t].tmp)
  /\ job' = [job EXCEPT ![t] = NoJob]
  /\ Goto(t, "exited")
  /\ UNCHANGED <<snap, tools, prepared, driveVars>>

-----------------------------------------------------------------------------
(* The environment                                                         *)

\* Assumption: the user changes the disc neither between the media check and
\* the end of a job nor under a recording; the drive keeps its power.
DiscInUse == {"checkdrive", "burnermax", "capacity", "fit", "begin", "write",
              "restore", "written", "clear", "dropBurned", "complete"}

DriveIsFree == \A t \in Workers : pc[t] \notin DiscInUse

InsertDisc ==
  /\ disc = None /\ DriveIsFree
  /\ disc' \in [profile : Media, data : {<<>>, <<Ruined>>}]
  /\ UNCHANGED <<ver, dirs, burnerMax, streaming>>

RemoveDisc ==
  /\ disc # None /\ DriveIsFree
  /\ disc' = None
  /\ UNCHANGED <<ver, dirs, burnerMax, streaming>>

PowerCycle ==
  /\ ~snap.busy
  /\ burnerMax' = FALSE /\ streaming' = "default"
  /\ UNCHANGED <<ver, dirs, disc>>

\* Another program writes to an image, which may change its size, or deletes it.
EditSource(s) ==
  /\ ver[s] \in 1 .. MaxVersion - 1
  /\ ver' = [ver EXCEPT ![s] = @ + 1]
  /\ UNCHANGED <<dirs, driveVars>>

LoseSource(s) ==
  /\ ver[s] # 0
  /\ ver' = [ver EXCEPT ![s] = 0]
  /\ UNCHANGED <<dirs, driveVars>>

\* The user deletes the cached copy, which lies beside the image, between jobs.
LoseWorkingCopy ==
  /\ ~snap.busy /\ prepared.valid
  /\ dirs[prepared.dir] # None
  /\ dirs' = [dirs EXCEPT ![prepared.dir] = None]
  /\ UNCHANGED <<ver, driveVars>>

Environment ==
  /\ UNCHANGED <<uiVars, pc, job, snap, tools, prepared, lost>>
  /\ \/ InsertDisc \/ RemoveDisc \/ PowerCycle
     \/ \E s \in Sources : EditSource(s) \/ LoseSource(s)
     \/ LoseWorkingCopy

-----------------------------------------------------------------------------
(* The specification                                                       *)

\* Everything a worker does but report progress
Advance(t) ==
  /\ UNCHANGED <<uiVars, ver>>
  /\ \/ Run(t) \/ Validate(t) \/ StepFails(t) \/ Fail(t)
     \/ TryReuse(t) \/ DropDirectory(t) \/ PrepareWorkingCopy(t)
     \/ CopyImage(t) \/ AutoFix(t) \/ Verify(t) \/ StorePrepared(t)
     \/ Announce(t)
     \/ CheckMedia(t) \/ CheckDrive(t) \/ EnableBurnerMax(t)
     \/ ReadCapacity(t) \/ CapacityVerdict(t) \/ TestVerdict(t)
     \/ CheckAtip(t) \/ MakeExtractionDirectory(t) \/ ExtractImage(t)
     \/ BeginSession(t) \/ RecorderEnds(t) \/ RestoreStreaming(t)
     \/ AfterRecorder(t) \/ ClearPrepared(t) \/ Complete(t) \/ Unwind(t)

Report(t) ==
  /\ UNCHANGED <<uiVars, ver>>
  /\ PreparationProgress(t) \/ WriteProgress(t)

\* After the window is closed and its workers are joined nothing is left to do.
Stopped == ui = "closed" /\ UNCHANGED vars

Next ==
  \/ UiRequest \/ UiContinue
  \/ \E t \in Workers : Advance(t) \/ Report(t)
  \/ Environment
  \/ Stopped

\* The operating system schedules every thread, and every helper process that
\* was started exits: RunHiddenProcess waits for it without a timeout.  The
\* user need not do anything.
Fairness ==
  /\ \A t \in Workers : WF_vars(Advance(t))
  /\ WF_vars(UiContinue)

Spec == Init /\ [][Next]_vars /\ Fairness

-----------------------------------------------------------------------------
(* Properties: types                                                       *)

Labels == {"unborn", "run", "validate", "fail", "reuse", "dropStale",
           "prepare", "copy", "autofix", "verify", "store", "dropReplaced",
           "announce", "mediainfo", "checkdrive", "burnermax", "capacity",
           "fit", "atip", "mkdtemp", "extract", "begin", "write", "restore",
           "written", "clear", "dropBurned", "complete", "tail", "exited"}

JobType == [req : Requests \union {None},
            tmp : Dirs \union {None}, image : Dirs \union {None},
            doomed : Dirs \union {None}, bytes : Nat, caps : Seq(Nat),
            session : Nat,
            result : {None, "notstarted", "failed", "ok"}]

Stages == {"Idle", "Preparing", "Ready", "BurningSession1",
           "BurningSession2", "Complete", "Failed"}

Snapshots == [stage : Stages, busy : BOOLEAN, writing : BOOLEAN,
              progress : 0 .. FullProgress, session : Nat]

Caches == [valid : BOOLEAN, source : Sources \union {None},
           dir : Dirs \union {None}, id : Nat]

Copies == [holds : Contents \union {None}, verified : BOOLEAN]

ASSUME NoneIsNoCopy == None \notin Copies

Discs == [profile : Profiles,
          data : Seq([session : Nat, source : Sources \union {None},
                      version : Nat, closes : BOOLEAN])]

ASSUME NoneIsNoDisc == None \notin Discs

ThreadTypes ==
  /\ ui \in {"loop", "spawn", "install", "closing", "closed"}
  /\ pending \in Requests \union {None}
  /\ incoming \in Workers \union {None}
  /\ handle \in Workers \union {None}
  /\ pc \in [Workers -> Labels]
  /\ job \in [Workers -> JobType]
  /\ snap \in Snapshots

FileTypes ==
  /\ ver \in [Sources -> 0 .. MaxVersion]
  /\ dirs \in [Dirs -> Copies \union {None}]
  /\ prepared \in Caches
  /\ lost \subseteq Dirs

DriveTypes ==
  /\ tools \in {"unknown", "ready", "broken"}
  /\ disc \in Discs \union {None}
  /\ burnerMax \in BOOLEAN
  /\ streaming \in {"default", "override", "stuck"}

\* Every variable has its type; in particular the progress bar never leaves
\* 0 .. 1 whatever a helper prints, and a working directory that exists holds
\* one copy (the members of BurnSnapshot and PreparedXgd3Cache, and the locals
\* of Run and RunStandardImage).
TypeOK == ThreadTypes /\ FileTypes /\ DriveTypes

-----------------------------------------------------------------------------
(* Properties: threads                                                     *)

\* t works on a job that has not settled yet.
Active(t) == pc[t] \notin {"unborn", "tail", "exited"}

\* Never do two workers drive the recorder at once, although the end of one
\* worker overlaps the start of the next (Start, burn_engine.cpp:1048).
OneJobAtATime == \A t, u \in Workers : Active(t) /\ Active(u) => t = u

\* busy, the flag every button of the window and WM_CLOSE rely on, is up
\* exactly from the acceptance of a job until its worker settles it.
BusyMeansActive == snap.busy <=> ui = "spawn" \/ \E t \in Workers : Active(t)

Exclusive == OneJobAtATime /\ BusyMeansActive

-----------------------------------------------------------------------------
(* Properties: files                                                       *)

\* A TemporaryDirectory is removed by the worker that made it and by nobody
\* else: until it is released no other worker, no cache entry and no pending
\* removal names it, and it is still there.  (With one directory owned twice
\* the tail of a finished job could delete the image a burn is reading.)
DirectoriesOwnedOnce ==
  \A t, u \in Workers : job[t].tmp # None =>
    /\ dirs[job[t].tmp] # None
    /\ job[t].tmp # prepared.dir
    /\ job[t].tmp # job[u].doomed
    /\ t # u => job[t].tmp # job[u].tmp

\* From the end of ABGX360's passes to the end of the write an XGD3 job has
\* its image: no directory removal (the tail of the previous worker, a cache
\* that is emptied or replaced) takes away what is about to be burned, and
\* what is burned is a verified copy of the image the user selected.
BurnsVerifiedCopy ==
  \A t \in Workers :
    pc[t] \in {"checkdrive", "fit", "begin", "write"}
      /\ job[t].req.target = "xgd3" /\ job[t].req.op # "burnermax"
    => LET d == job[t].image
       IN  /\ d # None /\ dirs[d] # None
           /\ dirs[d].verified
           /\ dirs[d].holds.source = job[t].req.source

\* What the cache offers for reuse is, if the user has not deleted it, a
\* verified copy of the image it is filed under.
CacheIsVerified ==
  prepared.valid =>
    \/ dirs[prepared.dir] = None
    \/ /\ dirs[prepared.dir].verified
       /\ dirs[prepared.dir].holds.source = prepared.source

\* Working copies are several gigabytes, and no directory is forgotten before it
\* has been dealt with: each that exists belongs to a worker that will remove it
\* or to the cache, unless it was given up, because the removal failed (nobody
\* tries again) or the source vanished while ABGX360 ran (StorePreparedXgd3).
DirectoriesAccountedFor ==
  \A d \in Dirs : dirs[d] # None =>
    \/ \E t \in Workers : d \in {job[t].tmp, job[t].doomed}
    \/ d = prepared.dir
    \/ d \in lost

\* A cache entry is dropped only when it does not match the image of the job
\* that drops it, when its disc has been recorded, or when the engine goes:
\* a failed or rejected burn keeps the copy for the next attempt.
CacheSurvivesFailure ==
  [][prepared.valid /\ prepared' # prepared =>
       \/ ui' = "closed"
       \/ \E t \in Workers :
            \/ pc[t] = "reuse" /\ ~CacheMatches(job[t].req.source)
            \/ pc[t] = "clear" /\ disc.data = <<SessionOf(t)>>]_vars

-----------------------------------------------------------------------------
(* Properties: the drive                                                   *)

\* A DVD is written only on blank media of an accepted kind on which the
\* image, of the size it had when the media was checked, fits as far as the
\* drive says; an XGD3 image only on a drive that reports the expanded boundary
\* and the full capacity.  (An ISO that another program replaces by a larger one
\* after the check is found out by the recorder only.)
WritesOnCheckedMedia ==
  \A t \in Workers :
    pc[t] \in {"begin", "write"} /\ IsDvd(job[t].req) =>
      LET r == job[t].req
          caps == job[t].caps
          bytes == job[t].bytes
      IN  /\ disc # None /\ disc.data = <<>>
          /\ MediaAccepted(r, disc.profile, bytes)
          /\ bytes # 0 /\ (caps = <<>> \/ bytes <= Head(caps))
          /\ r.target = "xgd3" =>
               burnerMax /\ caps # <<>> /\ Head(caps) >= FullXgd3

\* Data reaches a disc only from a job the user started with Burn, while the
\* window shows that it is writing: checks, dry runs and BurnerMAX tests
\* never write a sector ("No disc sectors were written").
OnlyBurnsWrite ==
  [][disc # None /\ disc' # None /\ disc'.data # disc.data =>
       /\ snap.writing /\ snap.stage = SessionStage(snap.session)
       /\ \E t \in Workers : pc[t] = "write" /\ job[t].req.op = "burn"]_vars

\* A burn is reported complete only when the last thing on the disc is the
\* selected image: all its sessions, in order and of one version.
CompleteIsRecorded ==
  \A t \in Workers : pc[t] = "complete" =>
    /\ disc # None
    /\ Sessions(job[t].req) <= Len(disc.data)
    /\ LET before == Len(disc.data) - Sessions(job[t].req)
       IN  \A i \in 1 .. Sessions(job[t].req) :
             LET written == disc.data[before + i]
             IN  /\ written.session = i
                 /\ written.source = job[t].req.source
                 /\ written.version = disc.data[Len(disc.data)].version

\* ... and nothing else is on it: the job began with a blank disc, as its
\* status says ("Verifying burner and blank media...", Start).
DiscIsTheImage ==
  \A t \in Workers : pc[t] = "complete" =>
    disc # None /\ Len(disc.data) = Sessions(job[t].req)

\* The streaming policy of a burn does not outlive it, however it ends: it is
\* put back, or the attempt to do so failed and was reported.
StreamingRestored ==
  streaming = "override" => \E t \in Workers : pc[t] = "restore"

\* While a recorder runs the bar is below 1.0.  growisofs's output goes
\* through std::clamp(parsed, progress, 0.999F), which is undefined once
\* progress exceeds 0.999F, and the preparation of an XGD3 image leaves 1.0.
ClampBounds ==
  \A t \in Workers : pc[t] = "write" => snap.progress <= WriteCap

-----------------------------------------------------------------------------
(* Properties: liveness and refinement                                     *)

\* Every accepted job settles.
JobTerminates == snap.busy ~> ~snap.busy

\* Start comes back to the message loop: the join of the previous worker
\* cannot block for ever.
StartReturns == ui = "install" ~> ui = "loop"

Lifecycle == INSTANCE BurnLifecycle
  WITH stage <- snap.stage, busy <- snap.busy, writing <- snap.writing,
       progress <- snap.progress, session <- snap.session

\* What the window reads from Snapshot is the life of one job at a time.
ImplementsLifecycle == Lifecycle!Spec

-----------------------------------------------------------------------------
(* What the log says, and the code does not do                             *)

\* "Reusing the ABGX360-verified working copy" of the selected ISO: a cached
\* copy that matches the ISO's size and time is a copy of the ISO as it is.
ReuseIsCurrent ==
  \A s \in Sources : CacheMatches(s) =>
    dirs[prepared.dir].holds = [source |-> s, version |-> ver[s]]
============================================================================
