------------------------------- MODULE Window -------------------------------
(***************************************************************************)
(* What the user can ask for: the choices the window keeps (AppState in    *)
(* src/src/main.cpp), the conditions under which DrawApp offers each       *)
(* button, and the request it makes of them for the engine.                *)
(*                                                                         *)
(* The choices outlive each other: an image is chosen for a console, a     *)
(* speed from the list of one disc, an option for one drive, a result is   *)
(* shown for the job that produced it, and consoles, discs, drives, images *)
(* and jobs change in any order, from the window, from Explorer, and from  *)
(* the engine's thread.  The message queue, the steps of a refresh and the *)
(* pairing of drives with addresses are DriveMap's: here a refresh is one  *)
(* step.                                                                   *)
(*                                                                         *)
(* X_<mistake> is X with a mistake somebody could make in that code, to be *)
(* put in the place of X when the property it breaks must be found         *)
(* violated.                                                               *)
(***************************************************************************)
EXTENDS Naturals, FiniteSets, SequencesExt

CONSTANTS
  Consoles,    \* the consoles the user chooses from
  Images,      \* the files the user may choose
  Extension,   \* of each file
  Size,        \* of each file, in sectors of a DVD
  Overlong,    \* the files whose path has MAX_PATH characters or more
  Letters,     \* drive letters
  Trays,       \* for each letter, what may be found there: Gone or a disc
  CdWriters,   \* the drives that do not deny writing CD-R
  MayFail,     \* the queries each drive may fail: "profile", "blank", "speeds",
               \* "address", "options"
  NoImage

ConsoleProfiles == {"Dreamcast", "PlayStation", "PlayStation2Cd",
                    "PlayStation2Dvd", "Saturn", "Xbox360"}
Profiles == {"none", "CD-R", "DVD-R", "DVD+R", "DVD-R DL", "DVD+R DL", "other"}
Options  == {"burnFree", "forceSpeed", "streaming"}

\* In sectors: kDvdSingleLayerBytes, which is what a DVD-R holds, the nominal
\* size of two layers, which is what a DVD+R DL holds, and a full XGD3 image.
\* A DVD+R and a DVD-R DL hold less (2295104 and 4171712).
SingleLayer == 2298496
TwoLayers   == 4173824
FullXgd3    == 4267040

\* A drive and the disc in it: its writable sectors if the drive reports them (0
\* if not), whether BurnerMAX makes it report FullXgd3, its write speeds, and
\* the options RetroBeam reports for this drive with this disc
Discs == [profile : Profiles, blank : BOOLEAN, capacity : Nat,
          expands : BOOLEAN, speeds : SUBSET Nat, options : SUBSET Options]
Bare(p) == [profile |-> p, blank |-> FALSE, capacity |-> 0, expands |-> FALSE,
            speeds |-> {}, options |-> {}]

\* A drive that is not attached, and one without a disc
Gone  == Bare("gone")
Empty == Bare("none")

ASSUME ChoicesAssumption ==
  /\ Consoles \subseteq ConsoleProfiles /\ "Dreamcast" \in Consoles
  /\ NoImage \notin Images
  /\ Size \in [Images -> Nat] /\ Overlong \subseteq Images
ASSUME DrivesAssumption ==
  /\ Letters \subseteq Nat \ {0}
  /\ \A l \in Letters : Trays[l] \subseteq Discs \union {Gone}

\* The discs of the shops: no blank DVD-R or DVD+R DL holds less than its nominal
\* size.
ASSUME MediaAssumption ==
  \A l \in Letters : \A t \in Trays[l] :
    /\ t.profile = "DVD-R" => t.capacity = 0 \/ t.capacity >= SingleLayer
    /\ t.profile = "DVD+R DL" => t.capacity = 0 \/ t.capacity >= TwoLayers

VARIABLES
  console, format,  \* state.selectedConsole, state.xbox360DiscType
  image,            \* state.selectedCdi
  drives,           \* state.drives, by letter
  selected,         \* state.selectedDrive, 0 when there is none
  speed,            \* state.selectedSpeed, 0 for Automatic
  growisofs,        \* state.useGrowisofsForDvd
  advanced,         \* state.advanced, the options that are on
  popup,            \* is "Confirm burn" open?
  requested,        \* g_driveRefreshRequested, or the message that sets it
  loop,             \* where the message loop is
  shown,            \* burn.busy of the snapshot DrawApp took
  busy, request,    \* the engine's job
  about,            \* what the engine's status and result are about
  tray,             \* the real drives
  written,          \* history: a burn began since the last refresh
  picked            \* history: the speed as it read when it was picked

target   == <<console, format, image>>
settings == <<speed, growisofs, advanced, picked>>
list     == <<drives, selected>>
engine   == <<busy, request, about>>
world    == <<tray, written>>
vars     == <<target, settings, list, popup, requested, loop, shown, engine,
              world>>

NoRequest == [op |-> "none"]
Nothing   == [console |-> "none", format |-> "none", image |-> NoImage]
NoSpeed   == [drive |-> 0, kilobytes |-> 0, dvd |-> FALSE]

IsDvd(c) == c \in {"PlayStation2Dvd", "Xbox360"}

Attached == {l \in Letters : tray[l] # Gone}

IsFirst(n, S) == n \in S /\ \A m \in S : n <= m

\* BurnEngine::Reset: a settled job is forgotten.
Reset ==
  \/ busy /\ UNCHANGED engine
  \/ ~busy /\ about' = Nothing /\ UNCHANGED <<busy, request>>

-----------------------------------------------------------------------------
(* RefreshDrives                                                           *)

\* What the window learns of a drive: each query may fail, that of the profile
\* also with a disc in the drive, and a drive that cannot be opened answers none
\* of them.  Speeds are kept sorted and once each (AddWriteSpeed,
\* QueryMediaAndWriteSpeeds).  The options are asked of the drive and its disc
\* through the mapped address (that it is the drive's own is DriveMap's matter):
\* without one, or without an answer, they count as unsupported.
SortedSpeeds(S) ==
  SetToSortSeq({s \in S : s \in 100 .. 100000}, LAMBDA a, b : a < b)

Fails(query, l) == IF query \in MayFail[l] THEN BOOLEAN ELSE {FALSE}

Listed(disc, l) ==
  {[present    |-> disc.profile # "none",
    profile    |-> IF noProfile THEN "none" ELSE disc.profile,
    blankKnown |-> disc.profile # "none" /\ ~noBlank,
    blank      |-> disc.blank /\ ~noBlank,
    speeds     |-> IF noSpeeds THEN <<>> ELSE SortedSpeeds(disc.speeds),
    writesCd   |-> l \in CdWriters,
    mapped     |-> ~noAddress,
    can        |-> IF noAddress \/ noOptions THEN {} ELSE disc.options] :
   noProfile \in Fails("profile", l), noBlank \in Fails("blank", l),
   noSpeeds \in Fails("speeds", l), noAddress \in Fails("address", l),
   noOptions \in Fails("options", l)}

RefreshDrives_KeepsSpeed ==
  /\ \E found \in [Attached -> UNION {Listed(tray[l], l) : l \in Attached}] :
       /\ \A l \in Attached : found[l] \in Listed(tray[l], l)
       /\ drives' = found
  /\ \/ selected \in Attached /\ UNCHANGED selected
     \/ selected \notin Attached /\ IsFirst(selected', Attached)
     \/ Attached = {} /\ selected' = 0
  /\ UNCHANGED settings
  /\ written' = FALSE

RefreshDrives ==
  /\ \E found \in [Attached -> UNION {Listed(tray[l], l) : l \in Attached}] :
       /\ \A l \in Attached : found[l] \in Listed(tray[l], l)
       /\ drives' = found
  /\ \/ selected \in Attached /\ UNCHANGED selected
     \/ selected \notin Attached /\ IsFirst(selected', Attached)
     \/ Attached = {} /\ selected' = 0
  /\ speed' = 0 /\ picked' = NoSpeed
  /\ UNCHANGED <<growisofs, advanced>>
  /\ written' = FALSE

-----------------------------------------------------------------------------
(* SelectCdi: an image dropped on the window or chosen with Browse         *)

Supported(c, i) ==
  Extension[i] \in IF c = "Dreamcast" THEN {"cdi"}
                   ELSE IF c = "PlayStation2Cd" THEN {"cue", "iso"}
                   ELSE IF IsDvd(c) THEN {"iso"} ELSE {"cue"}

Suits(c, i) == Supported(c, i) /\ (c = "Dreamcast" => i \notin Overlong)

\* The file must also exist: a refusal leaves everything as it was.
SelectCdi(i) ==
  \/ UNCHANGED <<image, speed, picked, engine>>
  \/ /\ Suits(console, i)
     /\ image' = i
     /\ speed' = 0 /\ picked' = NoSpeed
     /\ Reset

-----------------------------------------------------------------------------
(* The message loop                                                        *)

\* A requested refresh waits for the end of the job.
ServeRefresh ==
  /\ loop = "refresh" /\ loop' = "drop"
  /\ IF requested /\ ~busy
     THEN requested' = FALSE /\ RefreshDrives
     ELSE UNCHANGED <<requested, list, settings, written>>
  /\ UNCHANGED <<target, popup, shown, engine, tray>>

\* WM_DROPFILES left a file, or not; it is discarded during a job.  DrawApp then
\* begins with a snapshot of the engine.
ServeDrop_IgnoresJob ==
  /\ loop = "drop" /\ loop' = "draw"
  /\ \/ UNCHANGED <<image, speed, picked, engine>>
     \/ \E dropped \in Images : SelectCdi(dropped)
  /\ shown' = busy
  /\ UNCHANGED <<console, format, growisofs, advanced, list, popup, requested,
                 world>>

ServeDrop ==
  /\ loop = "drop" /\ loop' = "draw"
  /\ \/ UNCHANGED <<image, speed, picked, engine>>
     \/ ~busy /\ \E dropped \in Images : SelectCdi(dropped)
  /\ shown' = busy
  /\ UNCHANGED <<console, format, growisofs, advanced, list, popup, requested,
                 world>>

-----------------------------------------------------------------------------
(* DrawApp: the choices.  All of them are disabled while the snapshot is   *)
(* busy, and hidden behind the popup while it is open.                     *)

SelectConsole_KeepsImage ==
  /\ \E c \in Consoles \ {console} : console' = c
  /\ speed' = 0 /\ picked' = NoSpeed
  /\ Reset
  /\ UNCHANGED <<format, image, growisofs, advanced, list, popup>>

SelectConsole ==
  /\ \E c \in Consoles \ {console} : console' = c
  /\ image' = NoImage
  /\ speed' = 0 /\ picked' = NoSpeed
  /\ Reset
  /\ UNCHANGED <<format, growisofs, advanced, list, popup>>

SelectFormat ==
  /\ console = "Xbox360"
  /\ format' \in {"xgd2", "xgd3"}
  /\ speed' = 0 /\ picked' = NoSpeed
  /\ Reset
  /\ UNCHANGED <<console, image, growisofs, advanced, list, popup>>

Browse ==
  /\ \E i \in Images : SelectCdi(i)
  /\ UNCHANGED <<console, format, growisofs, advanced, list, popup>>

SelectDrive ==
  /\ selected' \in DOMAIN drives
  /\ speed' = 0 /\ picked' = NoSpeed
  /\ UNCHANGED <<target, growisofs, advanced, drives, popup, engine>>

\* growisofs is offered for DVDs only, and remembered.
SelectBackend ==
  /\ growisofs' \in (IF IsDvd(console) THEN BOOLEAN ELSE {FALSE})
  /\ UNCHANGED <<target, speed, picked, advanced, list, popup, engine>>

SelectSpeed ==
  /\ \/ speed' = 0 /\ picked' = NoSpeed
     \/ /\ selected # 0
        /\ speed' \in 1 .. Len(drives[selected].speeds)
        /\ picked' = [drive     |-> selected,
                      kilobytes |-> drives[selected].speeds[speed'],
                      dvd       |-> IsDvd(console)]
  /\ UNCHANGED <<target, growisofs, advanced, list, popup, engine>>

\* The options the selected drive supports can be switched one by one, or all
\* be reset; what was switched on for another drive stays on.  (The policy of
\* OPC needs no support, and the rotation belongs to the streaming policy.)
Available ==
  drives[selected].can \intersect
    (IF IsDvd(console) THEN Options ELSE {"burnFree", "forceSpeed"})

SelectAdvanced ==
  /\ selected # 0
  /\ ~(IsDvd(console) /\ growisofs)
  /\ \/ advanced' = {}
     \/ \E o \in Available : advanced' \in {advanced \union {o}, advanced \ {o}}
  /\ UNCHANGED <<target, speed, growisofs, picked, list, popup, engine>>

RefreshButton == RefreshDrives /\ UNCHANGED <<target, popup, engine, tray>>

-----------------------------------------------------------------------------
(* DrawApp: the jobs                                                       *)

Larger(a, b) == IF a < b THEN b ELSE a

\* Rounded to a whole multiple of 1385 kB/s (DVD) or of 176.4 kB/s (CD)
SelectedSpeedX ==
  IF selected = 0 \/ speed \notin 1 .. Len(drives[selected].speeds) THEN 0
  ELSE LET s == drives[selected].speeds[speed]
       IN  Larger(1, IF IsDvd(console) THEN (2 * s + 1385) \div 2770
                     ELSE (10 * s + 882) \div 1764)

\* The options that are on and that the drive and the target support
EffectiveOptions_AsTicked == advanced

EffectiveOptions == advanced \intersect Available

\* The profiles DrawApp takes for the target, once a disc is found
ProfileSupported_AnyDvd ==
  drives[selected].profile \in
    (IF console = "Xbox360" THEN {"DVD+R DL"}
     ELSE IF IsDvd(console) THEN {"DVD-R", "DVD+R", "DVD-R DL", "DVD+R DL"}
     ELSE {"none", "CD-R"})

ProfileSupported ==
  drives[selected].profile \in
    (IF console = "Xbox360" THEN {"DVD+R DL"}
     ELSE IF IsDvd(console)
          THEN {"DVD-R DL", "DVD+R DL"} \union
               (IF Size[image] > SingleLayer THEN {} ELSE {"DVD-R", "DVD+R"})
     ELSE {"none", "CD-R"})

\* For a DVD the drive must say that the disc is blank, for a CD it must not
\* say the opposite.
BlankSupported ==
  LET d == drives[selected]
  IN  IF IsDvd(console) THEN d.blankKnown /\ d.blank ELSE d.blankKnown => d.blank

BackendReady ==
  drives[selected].mapped \/ (IsDvd(console) /\ growisofs)

\* shown is of the same frame.
CanBurn ==
  /\ ~shown
  /\ image # NoImage
  /\ selected # 0
  /\ drives[selected].present
  /\ ProfileSupported /\ BlankSupported
  /\ IsDvd(console) \/ drives[selected].writesCd
  /\ BackendReady

\* BurnEngine::Start, which refuses a second job
Start(r, a) ==
  \/ busy /\ UNCHANGED engine
  \/ ~busy /\ busy' = TRUE /\ request' = r /\ about' = a

Selection == [console |-> console, format |-> format, image |-> image]

\* The request of a burn or a dry run, made of all the choices
FullRequest(op) ==
  [op |-> op, console |-> console, image |-> image, drive |-> selected,
   speed |-> SelectedSpeedX, growisofs |-> growisofs,
   options |-> EffectiveOptions]

CheckImage ==
  /\ image # NoImage
  /\ Start([op |-> "check", console |-> console, image |-> image], Selection)
  /\ UNCHANGED <<target, settings, list, popup, written>>

TestBurnerMax ==
  /\ console = "Xbox360" /\ format = "xgd3"
  /\ selected # 0
  /\ drives[selected].present
  /\ Start([op |-> "burnermax"], [Selection EXCEPT !.image = NoImage])
  /\ UNCHANGED <<target, settings, list, popup, written>>

DryRun ==
  /\ IsDvd(console) /\ CanBurn
  /\ Start(FullRequest("dryrun"), Selection)
  /\ UNCHANGED <<target, settings, list, popup, written>>

OpenPopup ==
  /\ CanBurn
  /\ popup' = TRUE
  /\ UNCHANGED <<target, settings, list, engine, written>>

\* The popup asks only whether there is a drive, and closes if the engine
\* takes the job.
Confirm ==
  /\ selected # 0
  /\ Start(FullRequest("burn"), Selection)
  /\ popup' = busy
  /\ written' = (written \/ ~busy)
  /\ UNCHANGED <<target, settings, list>>

Cancel ==
  /\ popup' = FALSE
  /\ UNCHANGED <<target, settings, list, engine, written>>

\* In one frame the user does at most one thing.
Idle == UNCHANGED <<target, settings, list, popup, engine, written>>

Choose ==
  /\ SelectConsole \/ SelectFormat \/ Browse \/ SelectDrive \/ SelectBackend
     \/ SelectSpeed \/ SelectAdvanced
  /\ UNCHANGED written

Draw ==
  /\ loop = "draw" /\ loop' = "refresh"
  /\ \/ Idle
     \/ ~popup /\ ~shown /\ (Choose \/ RefreshButton)
     \/ ~popup /\ ~shown /\ (CheckImage \/ TestBurnerMax \/ DryRun \/ OpenPopup)
     \/ popup /\ (Confirm \/ Cancel)
  /\ UNCHANGED <<requested, shown, tray>>

-----------------------------------------------------------------------------
(* The rest of the world                                                   *)

\* A job ends.  A burn may have used up the disc it was given.
JobEnds ==
  /\ busy /\ busy' = FALSE
  /\ request' = NoRequest
  /\ \/ UNCHANGED tray
     \/ /\ request.op = "burn"
        /\ tray[request.drive] # Gone
        /\ tray' = [tray EXCEPT ![request.drive].blank = FALSE]
  /\ UNCHANGED <<target, settings, list, popup, requested, loop, shown,
                 about, written>>

\* Windows broadcasts WM_DEVICECHANGE when a drive or a disc comes or goes.
ChangeTray ==
  /\ \E l \in Letters : \E t \in Trays[l] \ {tray[l]} :
       tray' = [tray EXCEPT ![l] = t]
  /\ requested' = TRUE
  /\ UNCHANGED <<target, settings, list, popup, loop, shown, engine, written>>

\* wWinMain: the drives are listed once before the loop, which is the request
\* that is pending here.
Init ==
  /\ console = "Dreamcast" /\ format = "xgd2" /\ image = NoImage
  /\ speed = 0 /\ growisofs = FALSE /\ advanced = {} /\ picked = NoSpeed
  /\ drives = [l \in {} |-> Empty] /\ selected = 0
  /\ popup = FALSE /\ requested = TRUE
  /\ loop = "refresh" /\ shown = FALSE
  /\ busy = FALSE /\ request = NoRequest /\ about = Nothing
  /\ tray \in {t \in [Letters -> UNION {Trays[l] : l \in Letters}] :
                 \A l \in Letters : t[l] \in Trays[l]}
  /\ written = FALSE

Next == \/ ServeRefresh \/ ServeDrop \/ Draw
        \/ JobEnds \/ ChangeTray

Spec == Init /\ [][Next]_vars

-----------------------------------------------------------------------------
(* Properties                                                              *)

\* The type of every variable; the selection is a drive of the list.
TypeOK ==
  /\ console \in Consoles /\ format \in {"xgd2", "xgd3"}
  /\ image \in Images \union {NoImage}
  /\ DOMAIN drives \subseteq Letters
  /\ IF DOMAIN drives = {} THEN selected = 0 ELSE selected \in DOMAIN drives
  /\ speed \in Nat /\ growisofs \in BOOLEAN /\ advanced \subseteq Options
  /\ popup \in BOOLEAN /\ requested \in BOOLEAN
  /\ loop \in {"refresh", "drop", "draw"} /\ shown \in BOOLEAN
  /\ busy \in BOOLEAN /\ written \in BOOLEAN
  /\ tray \in [Letters -> Discs \union {Gone}]

\* However consoles, dropped files and jobs follow each other, the image is
\* one the console can use, and so is that of the running job.
ImageSuitsTarget ==
  /\ image # NoImage => Suits(console, image)
  /\ request.op \in {"check", "dryrun", "burn"} =>
       Suits(request.console, request.image)

\* The status and the result in the window are about the console, the format
\* and the image that are selected in it: a check of one image never reads as a
\* check of another, nor XGD2 as XGD3.  (Not about the drive: SelectDrive does
\* not reset the engine, and what a BurnerMAX test or a dry run said of one drive
\* stays on show beside another.)
ResultIsOfSelection ==
  about # Nothing =>
    /\ about.console = console /\ about.format = format
    /\ about.image \in {image, NoImage}

\* A speed that was picked is still the one that stands at its place in the
\* list of the selected drive, and was read in the units of the target.
SpeedIsOffered ==
  speed # 0 =>
    /\ selected = picked.drive /\ speed <= Len(drives[selected].speeds)
    /\ drives[selected].speeds[speed] = picked.kilobytes
    /\ picked.dvd = IsDvd(console)

\* The flaws the engine may find in a disc for the selected image before it
\* writes.  For a DVD, dvd+rw-mediainfo tells profile, blankness and capacity, and
\* an XGD3 image needs BurnerMAX; for a CD, RetroBeam -atip finds a CD-R or not.
\* A tool that does not start or that the drive does not answer (-checkdrive) is
\* not a flaw of the disc.
Recordable ==
  IF console = "Xbox360" THEN {"DVD+R DL"}
  ELSE IF ~IsDvd(console) THEN {"CD-R"}
  ELSE {"DVD-R DL", "DVD+R DL"} \union
       (IF Size[image] > SingleLayer THEN {} ELSE {"DVD-R", "DVD+R"})

IsXgd3 == console = "Xbox360" /\ format = "xgd3"

Flaws(disc) ==
  {f \in {"media", "blank", "address", "burnermax", "capacity"} :
     \/ f = "media" /\ disc.profile \notin Recordable
     \/ f = "blank" /\ IsDvd(console) /\ ~disc.blank
     \/ f = "address" /\ ~drives[selected].mapped /\ ~(IsDvd(console) /\ growisofs)
     \/ f = "burnermax" /\ IsXgd3 /\ ~disc.expands
     \/ /\ f = "capacity" /\ IsDvd(console) /\ ~IsXgd3
        /\ disc.capacity # 0 /\ Size[image] > disc.capacity}

\* The images ValidateStandardImage lets through: a larger one is refused before
\* the engine looks at the disc.
ImageFits ==
  IsDvd(console) => Size[image] <= IF IsXgd3 THEN FullXgd3 ELSE TwoLayers

\* What the window cannot foresee of a disc: whether BurnerMAX works, the capacity
\* of the two kinds of DVD that hold less than the sizes it compares with, and,
\* for a CD, the kind of a disc whose profile the drive did not tell.
Unforeseen(disc) ==
  IF IsXgd3 THEN {"burnermax"}
  ELSE IF IsDvd(console)
       THEN IF disc.profile \in {"DVD+R", "DVD-R DL"} THEN {"capacity"} ELSE {}
  ELSE IF drives[selected].profile = "none" THEN {"media"} ELSE {}

\* A burn that is offered fails the engine's checks of the disc only on what the
\* window could not foresee, whichever disc is really in the drive, unless a disc
\* or a drive changed, or a burn was begun, since the list was made.
OfferedIsAccepted ==
  loop = "draw" /\ ~popup /\ CanBurn /\ ~requested /\ ~written /\ ImageFits =>
    Flaws(tray[selected]) \subseteq Unforeseen(tray[selected])

\* An option ticked for one drive or disc is never sent to a drive that, with the
\* disc that is in it when the job is asked for, does not have it (unless a change
\* is announced that the list does not show yet), nor the streaming policy of
\* DVDs to a CD burn.
AsksOnlySupported ==
  request' # request /\ request'.op \in {"dryrun", "burn"} =>
    /\ ~requested => request'.options \subseteq tray[request'.drive].options
    /\ "streaming" \in request'.options => IsDvd(request'.console)

OptionsAreSupported == [][AsksOnlySupported]_vars
=============================================================================
