---------------------------- MODULE DreamcastBurn ----------------------------
(***************************************************************************)
(* A Dreamcast job track by track (src/src/burn_engine.cpp, Run)           *)
(*                                                                         *)
(* CDIrip unpacks a CDI image into a temporary directory, one file per     *)
(* track.  Of the image's sessions only the names of those files are left: *)
(* DetectLayout sorts them into two sessions by their extensions, and      *)
(* RetroBeam records one session after the other.  BurnEngine has the      *)
(* threads of such a job and takes the image as a whole; here there is one *)
(* job at a time, and the tracks, the directories and the progress bar     *)
(* are exact.  The program may be closed while no job runs, or be killed   *)
(* anywhere and started again; what it leaves in the file system stays.    *)
(***************************************************************************)
EXTENDS EmbeddedTools, SequencesExt

CONSTANTS
  Images,      \* the CDI images of the user
  Sessions,    \* Sessions[i]: the sessions of i, sequences of tracks
  Places,      \* names for temporary directories
  MaxTracks    \* bound: tracks on one disc

\* A track has a kind and a size; a CD has at most 99 of them, which is why
\* their numbers have two digits and names sort like numbers.
Tracks == [kind : {"audio", "data"}, size : Nat]

ASSUME ImagesAssumption ==
  /\ Images # {} /\ Sessions \in [Images -> Seq(Seq(Tracks))]
  /\ MaxTracks \in 0 .. 99
NoPlace == "none"
ASSUME PlacesAssumption == NoPlace \notin Places

VARIABLES
  pc,        \* the step the worker is at; off: no job
  request,   \* BurnRequest: image, and is it only a check?
  place,     \* the directory of this job
  dirs,      \* the temporary directories that exist
  files,     \* files[p]: the tracks in directory p
  doomed,    \* directories a worker is about to remove after its job
  layout,    \* ExtractedLayout: the files of the two sessions
  head,      \* the recorder: how many tracks and units of the next are done
  before,    \* tracks on the disc when this session began
  disc,      \* the disc: its sessions; is the last one closed?
  session,   \* state_.session
  bar        \* state_.progress, in half units of what is to be written

jobVars  == <<pc, request, place, layout, head, before, session, bar>>
diskVars == <<dirs, files, doomed>>
vars     == <<toolVars, jobVars, diskVars, disc>>

-----------------------------------------------------------------------------
(* Files and layouts                                                       *)

\* All tracks of an image, numbered through all its sessions.  (A track that is
\* cut short is skipped by CDIrip, which still exits with 0; such images are
\* left out.)
AllTracks(i)   == FlattenSeq(Sessions[i])
File(i, n)     == [kind |-> AllTracks(i)[n].kind, number |-> n, image |-> i]
FilesOf(i)     == {File(i, n) : n \in DOMAIN AllTracks(i)}
SizeOf(f)      == AllTracks(f.image)[f.number].size
SameName(f, g) == f.kind = g.kind /\ f.number = g.number

TotalSize(s) == FoldLeft(LAMBDA sum, f : sum + SizeOf(f), 0, s)

\* The files of a kind, in the order of their numbers; what is listed first is
\* up to the file system.
Listed_Unsorted(found, kind) ==
  LET some == {f \in found : f.kind = kind}
  IN  CHOOSE s \in [1 .. Cardinality(some) -> some] :
        \A m, n \in DOMAIN s : m < n => s[m].number > s[n].number

Listed(found, kind) ==
  LET some == {f \in found : f.kind = kind}
  IN  CHOOSE s \in [1 .. Cardinality(some) -> some] :
        \A m, n \in DOMAIN s : m < n => s[m].number < s[n].number

NoLayout == [first |-> <<>>, second |-> <<>>]

\* Audio tracks go first and data tracks second; of data tracks alone the first
\* makes the first session.  Anything else, and an empty session, is refused.
Arrange(found) ==
  LET audio == Listed(found, "audio")
      data  == Listed(found, "data")
  IN  IF audio # <<>> /\ data # <<>> THEN [first |-> audio, second |-> data]
      ELSE IF audio = <<>> /\ Len(data) >= 2
           THEN [first |-> <<data[1]>>, second |-> Tail(data)]
      ELSE NoLayout

DetectLayout(found) ==
  LET arranged == Arrange(found)
  IN  IF TotalSize(arranged.first) = 0 \/ TotalSize(arranged.second) = 0
      THEN NoLayout ELSE arranged

Total == TotalSize(layout.first) + TotalSize(layout.second)

-----------------------------------------------------------------------------

NoRequest == [image |-> CHOOSE i \in Images : TRUE, check |-> TRUE]
AtStart   == [tracks |-> 0, units |-> 0]

Blank == [sessions |-> <<>>, open |-> TRUE]
Ruin  == [sessions |-> <<>>, open |-> FALSE]

TracksOn(d) == Len(FlattenSeq(d.sessions))

Init ==
  /\ InitTools
  /\ pc = "off" /\ request = NoRequest
  /\ place = NoPlace /\ layout = NoLayout
  /\ head = AtStart /\ before = 0
  /\ dirs = {} /\ files = [p \in Places |-> {}] /\ doomed = {}
  /\ disc = Blank
  /\ session = 0 /\ bar = 0

\* A job is over: busy falls, and the destructor of TemporaryDirectory follows.
\* (What the window goes on showing is in BurnEngine.)
Settle ==
  /\ pc' = "off" /\ request' = NoRequest
  /\ doomed' = (doomed \union {place}) \ {NoPlace}
  /\ place' = NoPlace /\ layout' = NoLayout
  /\ head' = AtStart /\ before' = 0
  /\ session' = 0 /\ bar' = 0

\* The removal of a directory, which may fail
RemoveDirectory ==
  \E p \in doomed :
    /\ doomed' = doomed \ {p}
    /\ \/ dirs' = dirs \ {p} /\ files' = [files EXCEPT ![p] = {}]
       \/ UNCHANGED <<dirs, files>>
    /\ UNCHANGED <<toolVars, jobVars, disc>>

-----------------------------------------------------------------------------
(* The job                                                                 *)

\* The window reads no busy flag before wWinMain has listed the drives, which
\* builds the store.  A worker that is still removing its directory holds up
\* the next call but one.
Start ==
  /\ store \in {"ready", "failed"} /\ pc = "off" /\ Cardinality(doomed) <= 1
  /\ request' \in [image : Images, check : BOOLEAN]
  /\ pc' = "tools"
  /\ UNCHANGED <<toolVars, place, layout, head, before, session, bar, diskVars,
                 disc>>

\* GetEmbeddedToolPaths().Ready()
AskTools ==
  /\ pc = "tools"
  /\ IF Ready
     THEN /\ pc' = "mkdtemp"
          /\ UNCHANGED <<request, place, layout, head, before, session, bar,
                         doomed>>
     ELSE Settle
  /\ UNCHANGED <<toolVars, dirs, files, disc>>

\* create_directory takes a name only if there is nothing of that name.
MakeTemporaryDirectory_TakesAny ==
  /\ pc = "mkdtemp"
  /\ \E p \in Places \ doomed :
       /\ place' = p
       /\ dirs' = dirs \union {p}
  /\ pc' = IF request.check THEN "extract" ELSE "atip"
  /\ UNCHANGED <<toolVars, request, layout, head, before, session, bar, files,
                 doomed, disc>>

MakeTemporaryDirectory ==
  /\ pc = "mkdtemp"
  /\ \E p \in Places \ dirs :
       /\ place' = p
       /\ dirs' = dirs \union {p}
  /\ pc' = IF request.check THEN "extract" ELSE "atip"
  /\ UNCHANGED <<toolVars, request, layout, head, before, session, bar, files,
                 doomed, disc>>

\* No directory, no space, a helper that does not start or fails
StepFails ==
  /\ pc \in {"mkdtemp", "atip", "extract"}
  /\ Settle
  /\ UNCHANGED <<toolVars, dirs, files, disc>>

\* RetroBeam -atip shows that there is a disc, not that it is blank.
CheckAtip ==
  /\ pc = "atip" /\ pc' = "extract"
  /\ UNCHANGED <<toolVars, request, place, layout, head, before, session, bar,
                 diskVars, disc>>

\* CDIrip writes one file after the other, over a file of that name.
ExtractTrack ==
  /\ pc = "extract"
  /\ \E f \in FilesOf(request.image) \ files[place] :
       /\ \A g \in FilesOf(request.image) :
            g.number < f.number => g \in files[place]
       /\ files' = [files EXCEPT ![place] =
                      {g \in @ : ~SameName(f, g)} \union {f}]
  /\ UNCHANGED <<toolVars, jobVars, dirs, doomed, disc>>

\* CDIrip exits with code 0: all tracks are there.
Extracted ==
  /\ pc = "extract" /\ FilesOf(request.image) \subseteq files[place]
  /\ LET found == DetectLayout(files[place])
     IN  IF found = NoLayout \/ request.check
         THEN Settle
         ELSE /\ layout' = found
              /\ pc' = "write" /\ session' = 1
              /\ before' = TracksOn(disc)
              /\ UNCHANGED <<request, place, head, bar, doomed>>
  /\ UNCHANGED <<toolVars, dirs, files, disc>>

-----------------------------------------------------------------------------
(* runSession                                                              *)

Current == IF session = 1 THEN layout.first ELSE layout.second

\* RetroBeam writes behind what is on the disc, unless that is closed.
WriteUnit ==
  /\ pc = "write" /\ disc.open
  /\ before + Len(Current) <= MaxTracks
  /\ head.tracks < Len(Current)
  /\ head' = IF head.units < SizeOf(Current[head.tracks + 1])
             THEN [head EXCEPT !.units = @ + 1]
             ELSE [tracks |-> head.tracks + 1, units |-> 0]
  /\ UNCHANGED <<toolVars, pc, request, place, layout, before, session, bar,
                 diskVars, disc>>

\* "Track <number>: <a> of <b> MB written" for the track under the head.
\* RetroBeam counts the tracks of the disc; the parser takes the number for
\* one of the session.  The bar never goes back and stays below the end.
PriorBytes == IF session = 1 THEN 0 ELSE TotalSize(layout.first)

TrackIndex == Min({before + head.tracks + 1, Len(Current)})

Fraction(whole, part, of) == IF of = 0 THEN 0 ELSE (whole * part) \div of

Parsed_Unclamped(p) == Max({bar, p})

Parsed(p) == Max({bar, Min({p, 2 * Total - 1})})

Reported_WholeTracks ==
  2 * PriorBytes + 2 * TotalSize(SubSeq(Current, 1, TrackIndex))

\* prior sessions, prior tracks, and the share of this track, twice
Reported ==
  2 * PriorBytes
    + 2 * TotalSize(SubSeq(Current, 1, TrackIndex - 1))
    + Fraction(2 * SizeOf(Current[TrackIndex]), head.units,
               SizeOf(Current[head.tracks + 1]))

ParseLine ==
  /\ pc = "write" /\ head.tracks < Len(Current)
  /\ bar' = Parsed(Reported)
  /\ UNCHANGED <<toolVars, pc, request, place, layout, head, before, session,
                 diskVars, disc>>

\* The recorder failed, somewhere or at the start; what it wrote may be lost,
\* or may have left the disc as it was.
SessionFails ==
  /\ pc = "write"
  /\ disc' \in {disc, Ruin}
  /\ Settle
  /\ UNCHANGED <<toolVars, dirs, files>>

\* Exit code 0.  The first session was recorded with -multi; the second closes
\* the disc.
SessionEnds ==
  /\ pc = "write" /\ head.tracks = Len(Current)
  /\ disc' = [sessions |-> Append(disc.sessions, Current),
              open |-> session = 1]
  /\ head' = AtStart
  /\ IF session = 1
     THEN session' = 2 /\ before' = TracksOn(disc') /\ UNCHANGED pc
     ELSE pc' = "done" /\ UNCHANGED <<session, before>>
  /\ UNCHANGED <<toolVars, request, place, layout, bar, diskVars>>

Complete ==
  /\ pc = "done"
  /\ Settle
  /\ UNCHANGED <<toolVars, dirs, files, disc>>

-----------------------------------------------------------------------------
(* The user and the system                                                 *)

\* The window can be closed while no job runs; the engine's destructor waits
\* for the worker, and the store goes last.
Close ==
  /\ pc = "off" /\ doomed = {}
  /\ DestroyStore
  /\ UNCHANGED <<jobVars, diskVars, disc>>

\* The process is killed.  Its directories stay; a recorder it has started may
\* still fail, finish the session, or never have touched the disc.
Kill ==
  /\ store # "gone"
  /\ Interrupt
  /\ disc' \in IF pc # "write" THEN {disc}
               ELSE {disc, Ruin} \union
                    IF ~disc.open \/ before + Len(Current) > MaxTracks THEN {}
                    ELSE {[sessions |-> Append(disc.sessions, Current),
                           open |-> session = 1]}
  /\ pc' = "off" /\ request' = NoRequest /\ place' = NoPlace
  /\ layout' = NoLayout /\ head' = AtStart /\ before' = 0
  /\ session' = 0 /\ bar' = 0 /\ doomed' = {}
  /\ UNCHANGED <<dirs, files>>

Restart ==
  /\ NewProcess
  /\ UNCHANGED <<jobVars, diskVars, disc>>

InsertDisc ==
  /\ pc = "off" /\ disc' = Blank
  /\ UNCHANGED <<toolVars, jobVars, diskVars>>

BuildStore ==
  /\ CreateDirectory \/ WriteTool
  /\ UNCHANGED <<jobVars, diskVars, disc>>

Worker ==
  \/ AskTools \/ MakeTemporaryDirectory \/ StepFails \/ CheckAtip
  \/ ExtractTrack \/ Extracted \/ WriteUnit \/ ParseLine \/ SessionFails
  \/ SessionEnds \/ Complete \/ RemoveDirectory

Next == BuildStore \/ Start \/ Worker \/ Close \/ Kill \/ Restart \/ InsertDisc

Spec == Init /\ [][Next]_vars

-----------------------------------------------------------------------------
(* Properties                                                              *)

AllFiles == UNION {FilesOf(i) : i \in Images}
Layouts  == [first : Seq(AllFiles), second : Seq(AllFiles)]

\* The type of every variable; the bar is not full while RetroBeam writes.
TypeOK ==
  /\ ToolsOK
  /\ pc \in {"off", "tools", "mkdtemp", "atip", "extract", "write", "done"}
  /\ request \in [image : Images, check : BOOLEAN]
  /\ place \in Places \union {NoPlace}
  /\ files \in [Places -> SUBSET AllFiles]
  /\ dirs \subseteq Places /\ doomed \subseteq dirs
  /\ layout \in Layouts
  /\ head \in [tracks : Nat, units : Nat] /\ before \in Nat
  /\ disc \in [sessions : Seq(Seq(AllFiles)), open : BOOLEAN]
  /\ session \in 0 .. 2 /\ bar \in Nat
  /\ pc = "write" => bar < 2 * Total

\* No job starts a helper unless all of them are there, whole and of this
\* program: after an extraction that failed half-way, in a directory that a
\* killed process of the same number left behind (EmbeddedToolStore).
HelpersAreWhole == pc \notin {"off", "tools"} => bin = AllWhole

\* What is extracted and sorted into sessions are tracks of the selected image
\* only: no track that an earlier job, a failed removal or a killed process
\* left in the file system, and no directory about to be removed
\* (MakeTemporaryDirectory, ~TemporaryDirectory).
TracksOfThisImage ==
  place # NoPlace =>
    /\ files[place] \subseteq FilesOf(request.image)
    /\ place \notin doomed

Recorded == SubSeq(disc.sessions, Len(disc.sessions) - 1, Len(disc.sessions))

\* The two layouts of which README.md:61 says that they are retained: audio
\* tracks and then data tracks, or one data track and then others.
Supported(i) ==
  /\ Len(Sessions[i]) = 2 /\ Sessions[i][1] # <<>>
  /\ \A n \in DOMAIN Sessions[i][2] : Sessions[i][2][n].kind = "data"
  /\ \/ \A n \in DOMAIN Sessions[i][1] : Sessions[i][1][n].kind = "audio"
     \/ Len(Sessions[i][1]) = 1

\* Whatever the layout of the image, a job that ends well has recorded each of
\* its tracks exactly once in the two sessions it wrote; and if the layout is
\* one of those supported, the disc has the sessions of the image, although
\* only the names of the extracted files tell them apart (DetectLayout,
\* runSession).
TracksInTheirSessions ==
  pc = "done" =>
    LET i     == request.image
        all   == FlattenSeq(Recorded)
        first == Len(Sessions[i][1])
    IN  /\ {all[n] : n \in DOMAIN all} = FilesOf(i)
        /\ Len(all) = Len(AllTracks(i))
        /\ Supported(i) =>
             Recorded = <<[n \in 1 .. first |-> File(i, n)],
                          [n \in DOMAIN Sessions[i][2] |-> File(i, first + n)]>>

\* The bar never shows more than RetroBeam has written, as long as its numbers
\* of the tracks are those the parser takes them for: in the first session of
\* a blank disc, and in sessions of one track (runSession, parseLine).
BarIsHonest ==
  pc = "write" /\ (before = 0 \/ Len(Current) = 1) =>
    bar <= 2 * (PriorBytes + TotalSize(SubSeq(Current, 1, head.tracks))
                  + head.units)
=============================================================================
