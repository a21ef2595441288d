# Retro Burner in TLA+

Specifications, model-checking configurations and machine-checked proofs for
Retro Burner, the Windows program that records console images on optical discs
(`src/src`). Line numbers are those of the sources beside this directory.
`PROJECT.json` has, for every definition, the lines it models.

    tlc -workers 4 -config drivemap.cfg MCDriveMap.tla     # model-check
    tlapm DriveMapProofs.tla                               # check the proofs

## 1. The system

| component | state | operations | talks to |
|---|---|---|---|
| Window and message loop, `main.cpp` | `AppState` (console, image, drives, selection, speed, options), `g_jobInProgress`, `g_driveRefreshRequested`, `g_droppedPath` | message loop, `WindowProcedure`, `RefreshDrives`, `SelectCdi`, `DrawApp` and its buttons and popup | calls `BurnEngine` and the drive manager; reads `Snapshot()` once per frame |
| `BurnEngine`, `burn_engine.cpp` | `state_` (a `BurnSnapshot`) and `preparedXgd3_` behind `mutex_`, `worker_` (`std::jthread`), the log | `Start`, `StartBurnerMaxTest`, `Reset`, `Snapshot`, destructor; on the worker `Run`, `RunStandardImage`, `RunBurnerMaxOnly` | starts one helper process after the other, calls `EnableBurnerMax` |
| Prepared-copy cache, `burn_engine.cpp:938-1046` | one entry: source path, size, time, directory | `TryReuse...`, `Store...`, `ClearPreparedXgd3` | file system |
| Disc geometry, inside `RunStandardImage` | sizes, media profile, reported capacity, layer break | validation, media and capacity checks, layer break | RetroBeam and growisofs have conditions of their own |
| BurnerMAX, `burnermax.cpp` | registers and layer boundary of the drive; `BurnerMaxResult` | `EnableBurnerMax` | vendor SCSI commands of two families |
| Drive manager, `drive_manager.cpp` | none; returns `OpticalDrive` records | `EnumerateOpticalDrives`, `AssignCdrecordAddresses`, MMC queries | Windows, `retrobeam -scanbus` |
| Helper processes and log, `burn_engine.cpp:295-398, 1140-1335` | the log text, a pending CR, an unfinished line | `RunHiddenProcess`, `AppendLog`, `SetFailure` | pipes; the parsers of progress |
| Embedded tools, `embedded_tools.cpp` | a static store of five paths, a directory named after the process | extraction at the first listing of drives, removal of all on a failure and at exit | resources, file system; the engine takes the paths |
| Textures, probe programs, vendored recorders | - | - | - |

What is hard about it:

* **Threads.** A worker lowers `busy` under the mutex and only then runs its
  destructors (which remove directories of several gigabytes). The next job can
  start in that tail, and joins the old worker on the UI thread.
* **Partial failure.** A job is up to a dozen steps (copy, AutoFix, verify,
  inspect, patch the drive, inspect again, write, restore the streaming policy),
  each a child process or a file operation that can fail; what a failed step
  leaves behind (directories, the cache, registers, a half-written disc) must
  still be right for the retry.
* **Stale state.** Images change and vanish while jobs run; drives come and go;
  the capacity of a disc changes under BurnerMAX; the close test looks at a
  sampled flag.
* **Boundaries.** Layer breaks are halves rounded up to ECC blocks, computed
  twice in the program and re-derived by the recorders; `std::clamp` is
  undefined when its bounds cross.
* **Choices that outlive each other.** An image is chosen for a console, a speed
  from the list of one disc, an option for one drive; then the console, the disc
  or the drive changes, from the window or behind its back.
* **Output in pieces.** A pipe cuts the output of a helper anywhere, and the
  engine writes between the pieces; the log and the parsers must not notice.
* **What a dead process leaves.** Extracted tracks of an image and half-written
  helpers stay in the temporary directory, and process numbers come back.
* **Two names for one drive.** A job inspects through a drive letter and
  records through a bus address.

What makes each component correct:

* engine: jobs exclude each other, `busy` is up exactly during a job, every job
  settles, `Complete` means recorded, only burns write;
* cache: what is burned is a verified copy of the selected image, no directory
  has two owners, none is forgotten before its removal was tried, a failed burn
  keeps the copy;
* geometry: aligned, balanced breaks that both recorders accept;
* BurnerMAX: success only for a complete payload, one command family per call,
  changes never concealed;
* log: the text a terminal would show, whole lines to the parsers, the reason of
  a failure at its end;
* tools: all of them whole, or no job runs;
* Dreamcast jobs: the tracks of this image, each in its session, a bar that does
  not run ahead;
* window: image, result, speed and options belong to what is selected, and the
  engine's checks of the disc find nothing against a burn that is offered but
  what the window has no way to foresee;
* drives: one address per letter, no change lost, letter and address of a job
  belong together, the selection stays in range.

## 2. The modules

    BurnLifecycle <- implemented by - BurnEngine     BurnEngineProofs
    EmbeddedTools <- extended by ---- DreamcastBurn  DreamcastBurnProofs  \ SequenceLemmas
                                      HelperOutput   HelperOutputProofs   /
                                      DiscGeometry   DiscGeometryProofs
                                      BurnerMax      BurnerMaxProofs
                                      DriveMap       DriveMapProofs
                                      Window         WindowProofs

`MC<module>` gives a module's constants values for TLC; `<module>Proofs` holds
its theorems. `SequenceLemmas` has what two of them need of numbers, folds and
sequences. Definitions named `X_<mistake>` are variants of `X` with a
plausible mistake. Nothing uses them; put in the place of `X`, each must make
TLC find a property violated (`mutants` in `PROJECT.json` says which).

**BurnEngine.** `ui` is where the UI thread is inside `Start` (critical section,
construction of the thread, joining assignment) or the destructor; `pc` and
`job` are each worker's program counter and locals; `snap` is `state_`;
`prepared` the cache; `dirs` the working directories with what they hold;
`ver[s]` a version number for the time of a source (0: gone), and `Size[s][v]`
how large each version is; `disc`, `burnerMax`, `streaming` the drive. There is one action per step of `Run`,
`RunStandardImage`, `RunBurnerMaxOnly` and the cache functions, cut where the
mutex is taken, a child process is run or a directory is removed. A child
process is a step whose outcome is nondeterministic, plus `Report` steps for
the progress it prints. `disc.data` is the list of sessions on the disc, each
with the image and version it came from and whether it closes the disc; a
recorder appends to a disc that is still open. The environment inserts, removes,
edits, deletes and power-cycles. An image can be replaced by a larger one
behind the media check, which remembers the bytes it saw (`bytes`) and does not
look again; only the recorder then notices (`Fits`). `fs::remove_all` fails or
not wherever the engine calls it (`RemoveAll`: the destructors of
`TemporaryDirectory` and of the engine, the three functions of the cache), and
its error is ignored as in the code; `lost`, a history variable, has the
directories that stayed behind. Sizes are six classes ordered like the limits
of the code.

**BurnLifecycle.** What the window may rely on in `Snapshot()`: one job at a
time, stages in order, a bar that does not move back while writing and reads
1.0 only when complete, `busy` and `writing` falling in one step, and every
job settling. `BurnEngine` implements it under the mapping in its last section
(stage, busy, writing, progress and session of `snap`).

**EmbeddedTools and DreamcastBurn.** `EmbeddedTools` is the static store: `bin`
says of each helper in the directory of this process number whether it is
absent, half-written, whole or left from another version; `store` whether the
constructor has run and how it ended. `DreamcastBurn` extends it with a job for
a CDI image, of which BurnEngine sees only "extract, then two sessions": CDIrip
writes one file per track, `DetectLayout` sorts the files by their names,
`runSession` records track by track, and `ParseLine` moves the bar (exact, in
half units of the amount to write). `Kill` ends the process anywhere and
`Restart` begins another with any number; both leave the file system as it is.
`doomed` are the directories a `~TemporaryDirectory` is about to remove.

**HelperOutput.** A helper writes into `pipe`; `ReadChunk` takes up to
`ChunkSize` bytes, gives them to `AppendLog`, and cuts them into `lines` for the
callback. A byte of the model stands for a run of characters the code treats
alike: text, CR, LF, backspace, one of the messages that are dropped ("noise"),
the countdown, and what the engine says itself. `AppendLog` is modelled whole:
CR and CR LF, the clean-up of noise lines, countdown and backspaces, truncation.
`said` is the history of all that was appended in this job; the log is compared
with a terminal that is given `said` in one piece.

**DiscGeometry.** One DVD job with exact sector numbers: `ValidateStandardImage`,
the media and capacity checks, both copies of the break arithmetic, and the
conditions of `set_p_layerbreak` (RetroBeam) and of growisofs' `main` and
`plus_r_dl_split`. BurnEngine and DiscGeometry share the order of the steps;
the classes of the former are intervals of the sizes of the latter.

**BurnerMax.** `EnableBurnerMax` against a drive whose registers are abstracted
to sites (places of a signature), each with the set of bytes replaced so far.
Any command may fail, a write may land or not whatever it returns, the drive
may answer one family, both or none. BurnEngine's `EnableBurnerMax` is the
summary of this module: success implies the XGD3 boundary.

**DriveMap.** The message loop as one thread (`loop`), with `RefreshDrives` in
four steps (enumerate, which may fail and then leaves an empty list, `-scanbus`,
one `Assign` per letter, selection), the
buttons and the popup; drives come and go and the engine's job ends between any
two steps. A drive's identity as Windows and as `-scanbus` see it are constants
(`Model`, `WinRev`, `ScanRev`), so USB bridges that garble a revision and drives
that cannot be opened are in. BurnEngine's `Quit` requires an idle engine;
`ClosesIdle` is why that is right although the code tests a sampled flag.

**Window.** `AppState` and the conditions of every widget of `DrawApp`: console,
format, image (Browse and dropped files), drive, speed, backend, options, the
buttons for check, BurnerMAX test, dry run and burn, and the popup, with the
request each makes. A refresh is one step here (its steps are in DriveMap), in
which any query listed in `MayFail` may fail by itself, that for the profile of
a disc that is there included. Sizes and capacities are exact sectors. What
the engine looks for in the disc of an offered burn is an operator (`Flaws`:
profile, blankness, address, BurnerMAX, capacity), beside what the window cannot
foresee of them (`Unforeseen`); an image above the limits of
`ValidateStandardImage` is refused before the disc is looked at (`ImageFits`).
`shown` is the flag `DrawApp` took at the start of the frame; discs change and
the job ends at any time. `picked` and `written` are history variables.

## 3. The runs

| run | instance | distinct states | checks |
|---|---|---|---|
| `engine_xgd3` | 2 workers, 2 directories, 2 XGD3 images, 3 requests | 2.5 M | directory ownership, verified copies, cache and its survival of failures, streaming policy, clamp bounds |
| `engine_formats` | 11 requests over all targets and operations, 4 kinds of disc, 1 directory | 2.0 M | exclusion, checked media, `Complete` is recorded, only burns write |
| `engine_live` | 1 image, 3 requests, 1 directory | 0.1 M | jobs terminate, `Start` returns, refinement of BurnLifecycle |
| `engine_reuse` | as `engine_live` | - | violation, finding a |
| `engine_appended` | 1 CDI, CD-R | - | violation, finding b |
| `geometry` | 82 sizes (every limit -1/0/+1, each remainder modulo 32 above DVD5 and below DVD9), 24 discs, both recorders | 0.5 M | break arithmetic, padding, refusals |
| `burnermax` | 2 sites per layer interleaved in memory, both families | 0.7 M | one family, complete payload, reported changes |
| `drivemap` | 3 drives (2 of one model, one behind a garbling bridge), 2 letters, 2 addresses | 0.35 M | types and selection, distinct addresses, current list, job's drive, closing, no lost change |
| `drivemap_twins` | same | - | violation, finding c |
| `helper_output` | 2 helpers, 5 bytes in all, chunks of 1 to 3 bytes, log of 7 | 1.0 M | the log is a terminal's, lines are whole, the error is shown, the log is bounded |
| `dreamcast` | 5 images of different layouts, 2 helpers, 2 directories, 4 tracks on a disc | 3.2 M | helpers are whole, tracks of this image, tracks in their sessions, the bar is honest |
| `window` | 3 consoles, 4 images, 2 drives with 4 kinds of tray, failing queries | 1.5 M | image, result, speed and options belong to the selection; an offered burn fails on the disc only for what the window cannot foresee |

Bounds and why they suffice:

* *Two workers*: `worker_` is joined before a third thread can exist, so a
  third worker would never be used; the proofs are for any number.
* *Two directories*: a worker in its tail plus the cache or the next job (or,
  for a Dreamcast job, what a killed process left, and in the engine what a
  failed removal left); a job that finds no free name fails, as it does when the
  directory cannot be made. `engine_formats` and `engine_live`, where directories
  do not compete, have one name.
* *Two sources, `MaxVersion` 2*: the cache has one entry, so a competitor and
  one edit exhaust the comparisons of path and identity; in `engine_formats` the
  edit makes the image too large for the disc that was checked.
* *`MaxSessions` 3*: an old first session and the two of the retry.
* *`FullProgress` 2*: 0, in between (also 0.999) and 1.0, with a parsed value
  above 1.0 as well.
* *Sizes*: the break arithmetic has period 32 sectors; the sizes cover a period
  and both sides of every limit, and the theorems cover every size.
* *Two sites per layer, three bytes*: needed for a half-written site beside a
  complete one. `MaxMatches` 2 (16 in the code) lets the sites pass; the branch
  for too many is the same early return as for none.
* *Three drives, two at a time*: twins, and a stranger that takes over the
  letter or address of one that left.
* *`ChunkSize` 3, `MaxLine` 4, `MaxBytes` 5 (of both helpers of a job), `MaxLog`
  7*: every pair and triple
  of bytes is cut at each place, a line spans three chunks and outgrows a
  chunk, and two helpers with a message between them outgrow the log.
* *Five images*: the three layouts `DetectLayout` knows, one with an empty
  track, one with a single track; two data tracks of different size tell a
  wrong offset from a right one.
* *Two drives, four trays* in Window: one comes and goes with a DVD+R DL that it
  can stream to, and may have no address; the other has a CD-R or a DVD+R, of
  which it may not tell the profile. Of the two ISOs one fills a DVD-R to the
  last sector (and so exceeds a DVD+R), the other two layers. Drives that
  BurnerMAX expands are in the theorem only.

`SYMMETRY` is used only in runs without temporal properties other than a
step property that names no worker or directory. No run turns the
check for deadlocks off.

**Fairness.** `BurnEngine` assumes weak fairness of each worker and of the UI
thread inside a call: the system schedules threads, and every helper exits.
`RunHiddenProcess` (line 394) waits for a helper without a timeout, so that
last part is an assumption about the helpers and not a fact about this code; a
hung recorder hangs the job. No fairness is assumed of the user. `BurnLifecycle`
has weak fairness of `Settle`, which is what `JobTerminates` says of it.
`DriveMap` assumes that the loop runs (it polls and never waits for the user)
and that jobs end. `ChangesAreServed` is conditional on the user not starting
jobs for ever, each in the frame in which the previous one ended: the loop
tests `busy` once per frame, so such a user could starve the refresh. The other
modules state safety only and assume no fairness.

**Assumptions about the environment.** The disc is not changed and the drive
not power-cycled under a job that has checked it (`DiscInUse`): the program
looks at the disc once and does not look again, so what it checked can only
hold of the disc it writes as long as the user leaves it there. Names of
temporary directories do not repeat while one is in use (process id and tick
count); after a kill they may. A recorder that exits with code 0 wrote what it
was given, behind what the disc already held if that was left open. A drive
whose register memory reads as something else shows neither pattern. A killed
process leaves its files, and a later one may get its number. Windows
broadcasts when a disc is inserted or removed.

## 4. The proofs

For all values of the constants:

| module | theorems | from |
|---|---|---|
| `BurnEngineProofs`, threads | `TypeCorrectness`, `MutualExclusion`, `DirectoryOwnership` | `Invariance` |
| copies | `NoDirectoryForgotten`, `VerifiedCache`, `VerifiedCopyIsBurned` | `CopyInvariance` |
| stages | `LifecycleSafety`, `ClampIsDefined`, `CheckedBeforeWriting`, `StreamingNotLeftBehind`, `NothingElseWrites`, `CompleteMeansRecorded`, `FailureKeepsCache` | `StageInvariance`, `MediaInvariance`, `RecordInvariance`, `CacheInv` |
| `DiscGeometryProofs` | `GeometryTypes`, `GoodBreaks`, `BreakInsideImage`, `PaddingWithinDisc`, `RefusalsAreKnown` | `GeometryInvariance` |
| `BurnerMaxProofs` | `BurnerMaxTypes`, `SingleFamily`, `CompletePayload`, `ReportedChanges` | `BurnerMaxInvariance` |
| `DriveMapProofs` | `SelectionInList`, `DistinctAddresses`, `CurrentList`, `OneDrivePerJob`, `IdleClose` | `DriveMapInvariance` |
| `DreamcastBurnProofs` | `WholeHelpers`, `OwnTracks` | `DreamcastInvariance` |
| | `DreamcastTypes`, `AllTracksRecorded`, `HonestBar` | `JobInvariance` |
| `HelperOutputProofs` | `TypeCorrect`, `LinesWhole`, `ErrorShown`, `LogShown` | `TypeOK`, `LinesInv`, `ErrorInv`, `ScreenInv` |
| `WindowProofs` | `WindowTypes`, `SuitableImage`, `CurrentResult`, `OfferedSpeed`, `SupportedOptions`, `OfferIsSound` | `WindowInvariance` |

Each rests on an inductive invariant:

* **BurnEngine, threads.** Exclusion is not inductive: a step of a worker is
  harmless only when no other job can begin beside it, so `SpawnsAlone` adds
  that nobody is in a job while `Start` is between raising `busy` and the birth
  of the thread, and `Requested` that a worker in a job has a request. Ownership
  needs `HasDirectory` (at which program counters a `TemporaryDirectory` exists)
  and `DoomedBriefly` (a directory taken from the cache is named only until its
  removal). The proof sorts the worker's steps into those that touch no owner
  (`QuietSteps`), those that empty the cache, remove, make, or file a directory,
  and the destructor.
* **BurnEngine, copies.** `CopyInv` says at each program counter whose directory
  the working copy is in and what is known of it: `CopyGrows` while ABGX360's
  passes run over it, `CopyKept` from the cache until the disc is recorded,
  where no destructor and no pending removal may name it. Together with
  ownership they give that every directory has an owner or was given up in
  sight (`lost`), and that what reaches the recorder is a verified copy of the
  selected image. What a removal may leave behind is in one lemma
  (`RemoveAllFacts`): every other directory is as it was, and one that stayed is
  in `lost`.
* **BurnEngine, stages.** `StageInv` ties the published snapshot to the step the
  worker is at; every step then maps to a step of BurnLifecycle or a stutter
  (`LifecycleSafety`), and the bounds of the clamp follow. `MediaInv` carries
  the check of the disc, with the size the image had then, to the write, `RecordInv` what the recorder has put on
  the disc (`Imaged`: what a job records is its own image; `OnDisc`: at each
  step, how many of its sessions are the last ones on the disc, and that the
  two of a CDI are of one version). `CacheInv` says that the cache is empty
  while a copy is made, and that the disc holds the session when the cache is
  cleared after a burn, so a failure never reaches that line.
* **DiscGeometry.** `StageInv` records what each stage has established. The
  arithmetic is in lemmas on `RoundUp16` and `Ps2Break` over all naturals
  (`Ps2BreakLeast`: the least multiple of 16 not below half).
* **BurnerMax.** `CallInv` says which registers may differ from the start of the
  call at each point; during the patch nothing outside the found sites.
  `RecognisedIsSeen` shows that the family in use shows the real memory, because
  `Nothing` has no signature to recognise.
* **DriveMap.** `RefreshOK` says, for each step of a refresh, which parts of the
  list are current unless a new change is pending, that entries left over are
  distinct from every address given out, and that no job runs during a refresh;
  `listed` tells an empty list that is current from one that could not be read.
  `CloseOK` carries the sampled flag from the top of the loop to `WM_CLOSE`: only
  `DrawApp`, on the same thread, starts jobs.
* **DreamcastBurn.** `StoreOK` (during the construction every helper written so
  far is whole, and all of them once the store is ready), `ReadyBehindTest`
  (past its first test a job has a ready store), `PlaceKnown` (the job's
  directory exists, is not about to be removed, and holds only tracks of its
  image) and `DirectoriesOK` (a directory that does not exist is empty).
* **DreamcastBurn, jobs.** `TracksInTheirSessions` speaks of the end of a job
  only, so `JobInv` says at each step what leads there: `LayoutOf` (the layout
  has all files of the image, each once, and in the order of the image where
  that is a supported one), `HeadOK` (the recorder is inside the session it
  writes), `WrittenOK` (the disc ends with the first session of the layout
  while the second is written, and with both at the end), `BarOK` (the bar is
  below its end, behind what is recorded, and not past the first session before
  the second begins, which is what `ParseLine` builds on). `Detected` is the
  lemma about `DetectLayout`: what it puts into the two sessions is a partition
  of the files. `ListedBlock` says that files of one kind with consecutive
  numbers are listed in that order, `TotalPrefix` that the sizes of the first
  tracks never add up to more than all, and `FractionBound` that a fraction
  reported of one track never passes that track. TLC checked `JobInv` in all
  states of `dreamcast` before it was proved.
* **HelperOutput, lines.** `LinesAreWhole` compares with the whole output, which
  is known only when the helper exits. `LinesInv` says it of what has been read
  so far: `lines` are those of some `read` with `sent = read \o pipe`, the
  unfinished line is its rest. The step is the lemma that to cut `a \o b` is to
  cut `a`, and then `b` with the rest of `a` in front (`CutConcat`), which is
  where "the cuts do not matter" comes from.
* **HelperOutput, log.** Equality with a terminal is not inductive: the log
  removes noise and backspaces line by line as lines end, a terminal shows them
  until then. `Matches(log, Terminal(said), truncated)` splits both at the last
  line: the finished part of the log is the end of the terminal's when that is
  cleaned (all of it unless the log was truncated), and the unfinished line is
  the same without its backspaces. `ScreenInv` adds that `pendingCR` is up
  exactly behind a CR, and that every line fits into the log (`ShortLines`,
  `ShortLastLine`), so that truncation, which drops bytes from the front, never
  reaches the line that is still being written.
* **Window.** `JobOK` (while a frame is drawn from a snapshot that was not busy
  the engine is idle), `PopupOK` (nothing takes the image from an open popup),
  `CanOK` (the options in the list are those of the drive with its disc unless
  a refresh is pending), `ListOK` (the list shows the trays unless a refresh is
  pending or a burn has begun since) and `TraysOK` (`MediaAssumption` of what is in
  a drive, recorded or not).

DreamcastBurn and HelperOutput are about sequences of any length, and what a
fold or `FlattenSeq` yields is known only by going through it. The induction
theorems of the library take an operator and cannot be used, so `SequenceLemmas` has
induction over sets: `LeastNat` (a non-empty set of numbers has a least one,
from the well-foundedness of `<`), from it `Induction` and `HandedOn` (a set with
0 and the successor of each of its numbers has them all), and from that that
the function behind a fold exists (`FoldExists`) and that a fold is the last of
a series of steps. A lemma on a fold then defines the set of positions up to
which it holds and shows that the set is closed under successor.

Two definitions were changed by the proofs. `Listed` is the increasing
enumeration of the files of a kind, stated as such instead of by a sort of the
library, whose definition the prover cannot expand. `Supported` asks that the
first session has a track: the attempt to prove `TracksInTheirSessions` showed
that for an image whose first session is empty and whose second has several
data tracks `DetectLayout` rightly puts the first of them into a session of its
own. Such an image is neither Audio+Data nor Data+Data, and none of the images
of the run was one.

Assumptions on constants: `NoneAssumption`, `SizeAssumption`, `BoundsAssumption`,
`RequestsAssumption`, `NoneIsNoCopy`, `NoneIsNoDisc`; `SizesAssumption`,
`DiscsAssumption` (the layers of a blank dual-layer disc are equal and of
plausible size), `MediaAssumption` (no blank DVD-R or DVD+R DL holds less than
its nominal size); `SitesAssumption`, `FamiliesAssumption`; `NumbersAssumption`,
`UnknownAssumption` (no drive is named by the marker for an unknown identity);
`ToolsAssumption`, `ImagesAssumption`, `PlacesAssumption`; `ChoicesAssumption`,
`DrivesAssumption`; HelperOutput's `BoundsAssumption`, which says that the longest
line of a helper fits into the log (2 MB, `burn_engine.cpp:30`). TLC evaluates
them in every run. The types of BurnEngine, DiscGeometry, BurnerMax and
Window and DiscGeometry's `Ps2BreakInside` are proved and in no run.

Checked by TLC only:

* `JobTerminates`, `StartReturns`, `ChangesAreServed` and the fairness half of
  `ImplementsLifecycle`: liveness and `ENABLED` are out of the prover's reach.

## 5. Findings

Each is a run that TLC ends with a violation of one property.

* **a** `engine_reuse`: the identity a prepared copy is filed under is taken
  when the preparation ends, so an ISO replaced meanwhile is cached under its
  new identity with its old content (`burn_engine.cpp:1012`).
* **b** `engine_appended`: the preflight of a Dreamcast burn asks for the ATIP of
  the CD-R but not whether it is blank. After a second session that failed the
  disc is still open; a retry on it appends both sessions behind the old one and
  reports Complete (`burn_engine.cpp:3123`).
* **c** `drivemap_twins`: of two drives of one model one can be given the
  address of the other (`drive_manager.cpp:850`).

Seen while modelling and left in the models as the code has them, without a run
of their own:

* no caller looks at the error of `fs::remove_all`
  (`burn_engine.cpp:77`, `954`, `999`, `1042`): a working copy of about 8 GB that
  cannot be removed, because a program has a file of it open, stays behind and
  is never tried again (BurnEngine's `lost`, an exception of
  `DirectoriesAccountedFor`);
* an ISO that is replaced by a larger one after the media check is found out by
  the recorder only (the size of the check in `WritesOnCheckedMedia`);
* the window compares an image with one limit for all single-layer discs
  (`main.cpp:1486`) and none for DVD-R DL, so an ISO a little below that limit on
  a DVD+R, or above what a DVD-R DL holds, is offered and then refused by the
  engine's capacity check (`burn_engine.cpp:2126`; Window's `Unforeseen`);
* a BurnerMAX result or dry run of one drive stays on show when another drive is
  selected (`main.cpp:1113`; `ResultIsOfSelection` does not name the drive);
* CDIrip skips a track that is cut short and exits with 0
  (`cdirip.c:378`), so such a CDI can be recorded without it and reported
  complete; DreamcastBurn's images have all their tracks;
* the log says that the prepared copy was cached even when the source had
  vanished and `StorePreparedXgd3` returned early; the copy then belongs to
  nobody (`burn_engine.cpp:1013`, `1930`; BurnEngine's `lost`);
* XGD2 images above 3827520 sectors pass every check and get a layer break
  below half of their size (`burn_engine.cpp:2590`; hence `BreaksAreGood` is
  not about XGD2, and growisofs' refusal is a known one);
* a single-layer PS2 image is accepted on DVD+R DL, where both recorders refuse
  it (`burn_engine.cpp:2045`; another known refusal);
* a retry of BurnerMAX after a write that failed halfway can report "already
  active ... verified" for an incomplete payload (`burnermax.cpp:1164`; hence
  `EnabledIsComplete` is about Enabled and not about AlreadyActive);
* RetroBeam prints track numbers of the whole disc (`cdrecord.c:1606`, `2485`),
  `parseLine` takes them for numbers within the session, so in a second session
  of several tracks the bar shows too much (the premise of `BarIsHonest`);
* of a CDI with audio behind the data of its first session the tracks are
  recorded in another arrangement than the image's; only Audio+Data and
  Data+Data are promised (`README.md:61`; the premise of
  `TracksInTheirSessions`).

## 6. Not modelled

* Speed, buffer and remaining-time figures, telemetry, ejecting, the chime, the
  wording of messages: display only.
* Drawing, textures, the dialogs of the shell: no protocol of their own.
* The decoding of MMC answers in the drive manager and of SCSI sense in
  BurnerMAX: pure functions of bytes from a device; what they leave in the list
  of drives, failed queries included, is in Window.
* The probe programs: straight-line vendor commands for developers.
* cdrecord/RetroBeam, growisofs, CDIrip, abgx360, Dear ImGui: third-party code;
  of the recorders only their conditions on layer breaks (DiscGeometry), what
  `-atip` answers, that they append to an open disc and refuse an image that
  does not fit (BurnEngine), and that they write unit by unit (DreamcastBurn);
  of CDIrip the names and order of the files.
* A noise message or countdown that is cut inside its own text by a read: each
  is one byte of HelperOutput.
* A helper that never exits: `RunHiddenProcess` has no timeout
  (`burn_engine.cpp:394`), so a job then stays busy for ever. The models assume
  it away (see Fairness) because every liveness property would only repeat it.

## 7. Plan

Done, in the order of importance: BurnLifecycle and BurnEngine with all safety
properties and the safety half of the refinement proved; DiscGeometry,
BurnerMax and DriveMap with all their invariants proved; Window with all its
invariants proved; EmbeddedTools and DreamcastBurn with crashes, and
HelperOutput, with all their invariants proved. Every safety property of a
passing run is now a theorem.

Left:

1. The composition of DriveMap and Window with BurnEngine's `Start` and `Quit`
   in place of the summary `busy`; the product of the three state spaces is
   beyond TLC unless each is cut down first.
2. A finer recorder (buffer underrun, a second session refused for lack of
   room) if `engine_appended` is to be followed past its first retry.
