---------------------------- MODULE WindowProofs ----------------------------
(***************************************************************************)
(* Proofs about Window, for any consoles, files, drives and discs.  The    *)
(* properties of the window are inductive together with four facts: while  *)
(* a frame is drawn from a snapshot that was not busy the engine is idle,  *)
(* a popup has an image, a list that needs no refresh describes the discs  *)
(* there are, and no disc holds less than its kind does.                   *)
(***************************************************************************)
EXTENDS Window, TLAPS

\* What the engine's job has to do with the rest.
JobOK ==
  /\ ~busy => request = NoRequest
  /\ loop = "draw" /\ busy => shown
  /\ request.op = "burn" => written

\* Nothing can take the image away from an open popup.
PopupOK == popup => image # NoImage

\* A list with no change pending has the options of the drives and discs there
\* are, and before a burn uses up a disc all that is known of them.
CanOK ==
  ~requested => \A l \in DOMAIN drives : drives[l].can \subseteq tray[l].options

ListOK ==
  ~requested /\ ~written =>
    \A l \in DOMAIN drives : drives[l] \in Listed(tray[l], l)

\* MediaAssumption holds of whatever is in a drive, recorded or not.
TraysOK ==
  \A l \in Letters :
    /\ tray[l].profile = "DVD-R" =>
         tray[l].capacity = 0 \/ tray[l].capacity >= SingleLayer
    /\ tray[l].profile = "DVD+R DL" =>
         tray[l].capacity = 0 \/ tray[l].capacity >= TwoLayers

IInv ==
  /\ TypeOK
  /\ ImageSuitsTarget
  /\ ResultIsOfSelection
  /\ SpeedIsOffered
  /\ JobOK /\ PopupOK /\ CanOK /\ ListOK /\ TraysOK

-----------------------------------------------------------------------------
(* Lemmas                                                                  *)

\* What the window learns of a drive is true of it.
LEMMA ListedIsTrue ==
  ASSUME NEW l \in Letters, NEW disc, NEW e \in Listed(disc, l)
  PROVE  /\ e.profile \in {disc.profile, "none"}
         /\ e.blankKnown /\ e.blank => disc.blank
         /\ e.can \subseteq disc.options
<1>1. PICK p \in Fails("profile", l), b \in Fails("blank", l),
           s \in Fails("speeds", l), a \in Fails("address", l),
           o \in Fails("options", l) :
        e = [present    |-> disc.profile # "none",
             profile    |-> IF p THEN "none" ELSE disc.profile,
             blankKnown |-> disc.profile # "none" /\ ~b,
             blank      |-> disc.blank /\ ~b,
             speeds     |-> IF s THEN <<>> ELSE SortedSpeeds(disc.speeds),
             writesCd   |-> l \in CdWriters,
             mapped     |-> ~a,
             can        |-> IF a \/ o THEN {} ELSE disc.options]
  BY DEF Listed
<1>2. e.profile \in {disc.profile, "none"}
  BY <1>1
<1>3. e.blank => disc.blank
  BY <1>1, Zenon
<1>4. e.can \subseteq disc.options
  BY <1>1
<1> QED
  BY <1>2, <1>3, <1>4

\* After RefreshDrives the list has the drives that are attached, the
\* selection is one of them, and no speed is selected.
LEMMA RefreshResult ==
  ASSUME TypeOK, RefreshDrives
  PROVE  /\ DOMAIN drives' = Attached
         /\ \A l \in Attached : drives'[l] \in Listed(tray[l], l)
         /\ IF DOMAIN drives' = {} THEN selected' = 0
            ELSE selected' \in DOMAIN drives'
         /\ speed' = 0
         /\ UNCHANGED <<growisofs, advanced>>
<1>1. PICK found \in [Attached -> UNION {Listed(tray[l], l) : l \in Attached}] :
        /\ \A l \in Attached : found[l] \in Listed(tray[l], l)
        /\ drives' = found
  BY DEF RefreshDrives
<1>2. DOMAIN drives' = Attached
  BY <1>1
<1>3. \A l \in Attached : drives'[l] \in Listed(tray[l], l)
  BY <1>1
<1>4. CASE selected \in Attached /\ UNCHANGED selected
  BY <1>2, <1>3, <1>4 DEF RefreshDrives
<1>5. CASE selected \notin Attached /\ IsFirst(selected', Attached)
  BY <1>2, <1>3, <1>5 DEF RefreshDrives, IsFirst
<1>6. CASE Attached = {} /\ selected' = 0
  BY <1>2, <1>3, <1>6 DEF RefreshDrives
<1> QED
  BY <1>4, <1>5, <1>6 DEF RefreshDrives

\* A refresh on an idle engine, with the world as it is, keeps the invariant.
LEMMA RefreshKeeps ==
  ASSUME IInv, RefreshDrives, ~busy,
         UNCHANGED <<target, popup, engine, tray>>,
         loop' \in {"refresh", "drop"}, shown' \in BOOLEAN,
         requested' \in BOOLEAN
  PROVE  IInv'
<1>1. /\ DOMAIN drives' = Attached
      /\ \A l \in Attached : drives'[l] \in Listed(tray[l], l)
      /\ IF DOMAIN drives' = {} THEN selected' = 0
         ELSE selected' \in DOMAIN drives'
      /\ speed' = 0
      /\ UNCHANGED <<growisofs, advanced>>
  BY RefreshResult DEF IInv
<1>2. written' = FALSE
  BY DEF RefreshDrives
<1>3. Attached \subseteq Letters
  BY DEF Attached
<1>4. TypeOK'
  BY <1>1, <1>2, <1>3 DEF IInv, TypeOK, target, engine
<1>5. request = NoRequest /\ request' = NoRequest
  BY DEF IInv, JobOK, engine
<1>6. ImageSuitsTarget'
  BY DEF IInv, ImageSuitsTarget, target, engine
<1>7. ResultIsOfSelection'
  BY DEF IInv, ResultIsOfSelection, target, engine
<1>8. SpeedIsOffered'
  BY <1>1 DEF SpeedIsOffered
<1>10. JobOK'
  BY <1>2, <1>5 DEF IInv, JobOK, NoRequest, engine
<1>11. PopupOK'
  BY DEF IInv, PopupOK, target
<1>12. CanOK'
  BY <1>1, <1>3, ListedIsTrue DEF CanOK
<1>13. ListOK' /\ TraysOK'
  BY <1>1 DEF IInv, ListOK, TraysOK
<1> QED
  BY <1>4, <1>6, <1>7, <1>8, <1>10, <1>11, <1>12, <1>13 DEF IInv

\* Taking an image while the engine is idle keeps the invariant.
LEMMA SelectCdiKeeps ==
  ASSUME IInv, ~busy, NEW i \in Images, SelectCdi(i),
         UNCHANGED <<console, format, growisofs, advanced, list, popup,
                     requested, world>>,
         loop' \in {"refresh", "drop", "draw"}, shown' \in BOOLEAN
  PROVE  IInv'
<1>1. ASSUME UNCHANGED <<image, speed, picked, engine>> PROVE IInv'
  <2>1. TypeOK'
    BY <1>1 DEF IInv, TypeOK, engine, list, world
  <2>2. ImageSuitsTarget' /\ ResultIsOfSelection' /\ SpeedIsOffered'
    BY <1>1 DEF IInv, ImageSuitsTarget, ResultIsOfSelection, SpeedIsOffered,
       engine, list
  <2>3. JobOK' /\ PopupOK'
    BY <1>1 DEF IInv, JobOK, PopupOK, engine, world
  <2>4. CanOK' /\ ListOK' /\ TraysOK'
    BY DEF IInv, CanOK, ListOK, TraysOK, list, world
  <2> QED
    BY <2>1, <2>2, <2>3, <2>4 DEF IInv
<1>2. ASSUME Suits(console, i), image' = i, speed' = 0, Reset
      PROVE  IInv'
  <2>1. about' = Nothing /\ UNCHANGED <<busy, request>>
    BY <1>2 DEF Reset
  <2>2. TypeOK'
    BY <1>2, <2>1 DEF IInv, TypeOK, list, world
  <2>3. ImageSuitsTarget'
    BY <1>2, <2>1 DEF IInv, ImageSuitsTarget
  <2>4. ResultIsOfSelection'
    BY <2>1 DEF ResultIsOfSelection
  <2>5. SpeedIsOffered'
    BY <1>2 DEF SpeedIsOffered
  <2>6. JobOK'
    BY <2>1 DEF IInv, JobOK, world
  <2>7. PopupOK'
    BY <1>2, ChoicesAssumption DEF PopupOK
  <2>8. CanOK' /\ ListOK' /\ TraysOK'
    BY DEF IInv, CanOK, ListOK, TraysOK, list, world
  <2> QED
    BY <2>2, <2>3, <2>4, <2>5, <2>6, <2>7, <2>8 DEF IInv
<1> QED
  BY <1>1, <1>2 DEF SelectCdi

\* A choice made on an idle engine keeps the invariant.
LEMMA ChooseKeeps ==
  ASSUME IInv, ~busy, ~popup, Choose, loop' = "refresh",
         UNCHANGED <<requested, shown, tray>>
  PROVE  IInv'
<1>1. ASSUME SelectConsole PROVE IInv'
  <2>1. about' = Nothing /\ UNCHANGED <<busy, request>>
    BY <1>1 DEF SelectConsole, Reset
  <2>2. /\ console' \in Consoles /\ image' = NoImage /\ speed' = 0
        /\ UNCHANGED <<format, growisofs, advanced, list, popup, written>>
    BY <1>1 DEF SelectConsole, Choose
  <2>3. request = NoRequest
    BY DEF IInv, JobOK
  <2>4. TypeOK'
    BY <2>1, <2>2 DEF IInv, TypeOK, list
  <2>5. ImageSuitsTarget' /\ ResultIsOfSelection' /\ SpeedIsOffered'
    BY <2>1, <2>2, <2>3 DEF ImageSuitsTarget, ResultIsOfSelection,
                            SpeedIsOffered, NoRequest
  <2>6. JobOK' /\ PopupOK'
    BY <2>1, <2>2 DEF IInv, JobOK, PopupOK
  <2>7. CanOK' /\ ListOK' /\ TraysOK'
    BY <2>2 DEF IInv, CanOK, ListOK, TraysOK, list
  <2> QED
    BY <2>4, <2>5, <2>6, <2>7 DEF IInv
<1>2. ASSUME SelectFormat PROVE IInv'
  <2>1. about' = Nothing /\ UNCHANGED <<busy, request>>
    BY <1>2 DEF SelectFormat, Reset
  <2>2. /\ format' \in {"xgd2", "xgd3"} /\ speed' = 0
        /\ UNCHANGED <<console, image, growisofs, advanced, list, popup,
                      written>>
    BY <1>2 DEF SelectFormat, Choose
  <2>3. TypeOK'
    BY <2>1, <2>2 DEF IInv, TypeOK, list
  <2>4. ImageSuitsTarget' /\ ResultIsOfSelection' /\ SpeedIsOffered'
    BY <2>1, <2>2 DEF IInv, ImageSuitsTarget, ResultIsOfSelection,
                      SpeedIsOffered
  <2>5. JobOK' /\ PopupOK'
    BY <2>1, <2>2 DEF IInv, JobOK, PopupOK
  <2>6. CanOK' /\ ListOK' /\ TraysOK'
    BY <2>2 DEF IInv, CanOK, ListOK, TraysOK, list
  <2> QED
    BY <2>3, <2>4, <2>5, <2>6 DEF IInv
<1>3. ASSUME Browse PROVE IInv'
  <2>1. PICK i \in Images : SelectCdi(i)
    BY <1>3 DEF Browse
  <2>2. shown' \in BOOLEAN
    BY DEF IInv, TypeOK
  <2> QED
    BY <1>3, <2>1, <2>2, SelectCdiKeeps DEF Browse, Choose, world
<1>4. ASSUME SelectDrive PROVE IInv'
  BY <1>4 DEF Choose, SelectDrive, IInv, TypeOK, ImageSuitsTarget,
     ResultIsOfSelection, SpeedIsOffered, JobOK, PopupOK,
     CanOK, ListOK, TraysOK, target, engine
<1>5. ASSUME SelectBackend PROVE IInv'
  BY <1>5 DEF Choose, SelectBackend, IInv, TypeOK, ImageSuitsTarget,
     ResultIsOfSelection, SpeedIsOffered, JobOK, PopupOK,
     CanOK, ListOK, TraysOK, target, engine, list
<1>6. ASSUME SelectSpeed PROVE IInv'
  <2>1. UNCHANGED <<target, growisofs, advanced, list, popup, engine, written>>
    BY <1>6 DEF SelectSpeed, Choose
  <2>2. CASE speed' = 0
    BY <2>1, <2>2 DEF IInv, TypeOK, ImageSuitsTarget, ResultIsOfSelection,
       SpeedIsOffered, JobOK, PopupOK, CanOK, ListOK, TraysOK,
       target, engine, list
  <2>3. ASSUME selected # 0, speed' \in 1 .. Len(drives[selected].speeds),
               picked' = [drive     |-> selected,
                          kilobytes |-> drives[selected].speeds[speed'],
                          dvd       |-> IsDvd(console)]
        PROVE  IInv'
    <3>1. SpeedIsOffered'
      BY <2>1, <2>3 DEF SpeedIsOffered, target, list
    <3>2. speed' \in Nat
      BY <2>3
    <3> QED
      BY <2>1, <3>1, <3>2 DEF IInv, TypeOK, ImageSuitsTarget,
         ResultIsOfSelection, JobOK, PopupOK, CanOK,
         ListOK, TraysOK, target, engine, list
  <2> QED
    BY <1>6, <2>2, <2>3 DEF SelectSpeed
<1>7. ASSUME SelectAdvanced PROVE IInv'
  <2>1. /\ UNCHANGED <<target, speed, growisofs, picked, list, popup, engine,
                      written>>
        /\ advanced' \subseteq Options
    BY <1>7 DEF SelectAdvanced, Choose, Available, Options, IInv, TypeOK
  <2> QED
    BY <2>1 DEF IInv, TypeOK, ImageSuitsTarget, ResultIsOfSelection,
       SpeedIsOffered, JobOK, PopupOK, CanOK, ListOK, TraysOK,
       target, engine, list
<1> QED
  BY <1>1, <1>2, <1>3, <1>4, <1>5, <1>6, <1>7 DEF Choose

\* The options of a request are the drive's own and fit the target.
LEMMA RequestOptions ==
  ASSUME IInv, selected # 0
  PROVE  /\ ~requested => EffectiveOptions \subseteq tray[selected].options
         /\ "streaming" \in EffectiveOptions => IsDvd(console)
<1>1. selected \in DOMAIN drives
  BY DEF IInv, TypeOK
<1>2. ~requested => drives[selected].can \subseteq tray[selected].options
  BY <1>1 DEF IInv, CanOK
<1>3. EffectiveOptions \subseteq drives[selected].can
  BY DEF EffectiveOptions, Available
<1>4. "streaming" \in EffectiveOptions => IsDvd(console)
  BY DEF EffectiveOptions, Available
<1> QED
  BY <1>2, <1>3, <1>4

\* Starting a job for the selection keeps the invariant.
LEMMA StartKeeps ==
  ASSUME IInv, loop' = "refresh", popup' \in {popup, FALSE},
         UNCHANGED <<target, settings, list, requested, shown, tray>>,
         written' \in BOOLEAN, written => written',
         NEW r, NEW a, Start(r, a), ~busy,
         r.op \in {"check", "dryrun", "burn"} =>
           Suits(r.console, r.image),
         r.op = "burn" => written',
         a.console = console, a.format = format, a.image \in {image, NoImage}
  PROVE  IInv'
<1>1. busy' = TRUE /\ request' = r /\ about' = a
  BY DEF Start
<1>2. TypeOK'
  BY <1>1 DEF IInv, TypeOK, target, settings, list
<1>3. ImageSuitsTarget'
  BY <1>1 DEF IInv, ImageSuitsTarget, target
<1>4. ResultIsOfSelection'
  BY <1>1 DEF ResultIsOfSelection, target
<1>5. SpeedIsOffered'
  BY DEF IInv, SpeedIsOffered, target, settings, list
<1>7. JobOK'
  BY <1>1 DEF JobOK
<1>8. PopupOK'
  BY DEF IInv, PopupOK, target
<1>9. CanOK' /\ ListOK' /\ TraysOK'
  BY DEF IInv, TypeOK, CanOK, ListOK, TraysOK, list
<1> QED
  BY <1>2, <1>3, <1>4, <1>5, <1>7, <1>8, <1>9 DEF IInv

\* A step that changes only the popup, the loop and the snapshot
LEMMA QuietKeeps ==
  ASSUME IInv, UNCHANGED <<target, settings, list, engine, world, requested>>,
         popup' \in BOOLEAN, popup' => image # NoImage,
         loop' \in {"refresh", "drop", "draw"}, shown' \in BOOLEAN,
         loop' = "draw" /\ busy => shown'
  PROVE  IInv'
<1>1. TypeOK'
  BY DEF IInv, TypeOK, target, settings, list, engine, world
<1>2. ImageSuitsTarget' /\ ResultIsOfSelection' /\ SpeedIsOffered'
  BY DEF IInv, ImageSuitsTarget, ResultIsOfSelection, SpeedIsOffered, target,
         settings, list, engine
<1>3. JobOK' /\ PopupOK'
  BY DEF IInv, JobOK, PopupOK, engine, world, target
<1>4. CanOK' /\ ListOK' /\ TraysOK'
  BY DEF IInv, CanOK, ListOK, TraysOK, list, world
<1> QED
  BY <1>1, <1>2, <1>3, <1>4 DEF IInv

-----------------------------------------------------------------------------
(* The invariant                                                           *)

LEMMA DrawKeeps ==
  ASSUME IInv, Draw
  PROVE  IInv'
<1> USE DEF Draw
<1>0. /\ loop = "draw" /\ loop' = "refresh"
      /\ UNCHANGED <<requested, shown, tray>>
      /\ shown' \in BOOLEAN /\ requested' \in BOOLEAN
  BY DEF IInv, TypeOK
<1>1. CASE Idle
  BY <1>0, <1>1, QuietKeeps DEF Idle, IInv, TypeOK, PopupOK, world
<1>2. CASE ~popup /\ ~shown /\ Choose
  <2>1. ~busy
    BY <1>0, <1>2 DEF IInv, JobOK
  <2> QED
    BY <1>0, <1>2, <2>1, ChooseKeeps
<1>3. CASE ~popup /\ ~shown /\ RefreshButton
  <2>1. ~busy
    BY <1>0, <1>3 DEF IInv, JobOK
  <2> QED
    BY <1>0, <1>3, <2>1, RefreshKeeps DEF RefreshButton
<1>4. ASSUME ~popup /\ ~shown /\ CheckImage PROVE IInv'
  <2>1. ~busy
    BY <1>0, <1>4 DEF IInv, JobOK
  <2>2. Suits(console, image)
    BY <1>4 DEF CheckImage, IInv, ImageSuitsTarget
  <2> DEFINE r == [op |-> "check", console |-> console, image |-> image]
  <2>3. r.op = "check" /\ Suits(r.console, r.image)
    BY <2>2
  <2>4. Start(r, Selection)
    BY <1>4 DEF CheckImage
  <2>5. /\ UNCHANGED <<target, settings, list, popup, written>>
        /\ written \in BOOLEAN
    BY <1>4 DEF CheckImage, IInv, TypeOK
  <2>6. /\ Selection.console = console /\ Selection.format = format
        /\ Selection.image \in {image, NoImage}
    BY DEF Selection
  <2> HIDE DEF r
  <2> QED
    BY <1>0, <2>1, <2>3, <2>4, <2>5, <2>6, StartKeeps
<1>5. ASSUME ~popup /\ ~shown /\ TestBurnerMax PROVE IInv'
  <2>1. ~busy
    BY <1>0, <1>5 DEF IInv, JobOK
  <2> DEFINE r == [op |-> "burnermax"]
             a == [Selection EXCEPT !.image = NoImage]
  <2>2. r.op = "burnermax"
    OBVIOUS
  <2>3. Start(r, a)
    BY <1>5 DEF TestBurnerMax
  <2>4. /\ UNCHANGED <<target, settings, list, popup, written>>
        /\ written \in BOOLEAN
    BY <1>5 DEF TestBurnerMax, IInv, TypeOK
  <2>5. /\ a.console = console /\ a.format = format
        /\ a.image \in {image, NoImage}
    BY DEF Selection
  <2> HIDE DEF r, a
  <2> QED
    BY <1>0, <2>1, <2>2, <2>3, <2>4, <2>5, StartKeeps
<1>6. ASSUME ~popup /\ ~shown /\ DryRun PROVE IInv'
  <2>1. ~busy
    BY <1>0, <1>6 DEF IInv, JobOK
  <2>2. image # NoImage /\ selected # 0
    BY <1>6 DEF DryRun, CanBurn
  <2>3. Suits(console, image)
    BY <2>2 DEF IInv, ImageSuitsTarget
  <2> DEFINE r == FullRequest("dryrun")
  <2>4. /\ r.op = "dryrun" /\ Suits(r.console, r.image)
    BY <2>2, <2>3 DEF FullRequest
  <2>5. Start(r, Selection)
    BY <1>6 DEF DryRun
  <2>6. /\ UNCHANGED <<target, settings, list, popup, written>>
        /\ written \in BOOLEAN
    BY <1>6 DEF DryRun, IInv, TypeOK
  <2>7. /\ Selection.console = console /\ Selection.format = format
        /\ Selection.image \in {image, NoImage}
    BY DEF Selection
  <2> HIDE DEF r
  <2> QED
    BY <1>0, <2>1, <2>4, <2>5, <2>6, <2>7, StartKeeps
<1>7. CASE ~popup /\ ~shown /\ OpenPopup
  BY <1>0, <1>7, QuietKeeps DEF OpenPopup, CanBurn, world
<1>8. ASSUME popup /\ Confirm PROVE IInv'
  <2>1. CASE busy
    BY <1>0, <1>8, <2>1, QuietKeeps DEF Confirm, Start, world, IInv, TypeOK,
       PopupOK
  <2>2. CASE ~busy
    <3>1. image # NoImage /\ selected # 0
      BY <1>8 DEF Confirm, IInv, PopupOK
    <3>2. Suits(console, image)
      BY <3>1 DEF IInv, ImageSuitsTarget
    <3> DEFINE r == FullRequest("burn")
    <3>3. /\ r.op = "burn" /\ Suits(r.console, r.image)
      BY <3>1, <3>2 DEF FullRequest
    <3>4. Start(r, Selection)
      BY <1>8 DEF Confirm
    <3>5. /\ UNCHANGED <<target, settings, list>>
          /\ popup' \in {popup, FALSE} /\ written'
          /\ written' \in BOOLEAN
      BY <1>8, <2>2 DEF Confirm, IInv, TypeOK
    <3>6. /\ Selection.console = console /\ Selection.format = format
          /\ Selection.image \in {image, NoImage}
      BY DEF Selection
    <3> HIDE DEF r
    <3> QED
      BY <1>0, <2>2, <3>3, <3>4, <3>5, <3>6, StartKeeps
  <2> QED
    BY <2>1, <2>2
<1>9. CASE popup /\ Cancel
  BY <1>0, <1>9, QuietKeeps DEF Cancel, world
<1> QED
  BY <1>1, <1>2, <1>3, <1>4, <1>5, <1>6, <1>7, <1>8, <1>9

\* A burn that ends may have used up its disc, which written announced.
LEMMA JobEndsKeeps ==
  ASSUME IInv, JobEnds
  PROVE  IInv'
<1>1. /\ busy /\ busy' = FALSE /\ request' = NoRequest
      /\ UNCHANGED <<target, settings, list, popup, requested, loop, shown,
                    about, written>>
  BY DEF JobEnds
<1>2. tray' \in [Letters -> Discs \union {Gone}]
  <2>1. CASE UNCHANGED tray
    BY <2>1 DEF IInv, TypeOK
  <2>2. ASSUME tray[request.drive] # Gone,
               tray' = [tray EXCEPT ![request.drive].blank = FALSE]
        PROVE  tray' \in [Letters -> Discs \union {Gone}]
    <3>1. tray \in [Letters -> Discs \union {Gone}]
      BY DEF IInv, TypeOK
    <3>2. ASSUME NEW l \in Letters, l = request.drive
          PROVE  [tray[l] EXCEPT !.blank = FALSE] \in Discs
      BY <2>2, <3>1, <3>2 DEF Discs
    <3> QED
      BY <2>2, <3>1, <3>2
  <2> QED
    BY <2>1, <2>2 DEF JobEnds
<1>3. TypeOK'
  BY <1>1, <1>2 DEF IInv, TypeOK, target, settings, list
<1>4. ImageSuitsTarget' /\ JobOK'
  BY <1>1 DEF IInv, ImageSuitsTarget, JobOK, NoRequest,
              target
<1>5. ResultIsOfSelection' /\ SpeedIsOffered' /\ PopupOK'
  BY <1>1 DEF IInv, ResultIsOfSelection, SpeedIsOffered, PopupOK, target,
              settings, list
<1>6. \A l \in Letters : /\ tray'[l].options = tray[l].options
                         /\ tray'[l].profile = tray[l].profile
                         /\ tray'[l].capacity = tray[l].capacity
  BY DEF JobEnds, IInv, TypeOK, Discs, Gone, Bare
<1>7. CanOK' /\ TraysOK'
  BY <1>1, <1>6 DEF IInv, TypeOK, CanOK, TraysOK, list
<1>8. ListOK'
  <2>1. CASE UNCHANGED tray
    BY <1>1, <2>1 DEF IInv, ListOK, list
  <2>2. CASE request.op = "burn"
    BY <1>1, <2>2 DEF IInv, JobOK, ListOK
  <2> QED
    BY <2>1, <2>2 DEF JobEnds
<1> QED
  BY <1>3, <1>4, <1>5, <1>8, <1>7 DEF IInv

LEMMA InitEstablishes == Init => IInv
<1> SUFFICES ASSUME Init PROVE IInv
  OBVIOUS
<1>1. tray \in [Letters -> Discs \union {Gone}]
  BY DrivesAssumption DEF Init
<1>2. TypeOK
  BY <1>1, ChoicesAssumption DEF Init, TypeOK
<1>3. TraysOK
  BY MediaAssumption DEF Init, TraysOK
<1> QED
  BY <1>2, <1>3 DEF Init, IInv, ImageSuitsTarget, ResultIsOfSelection,
     SpeedIsOffered, JobOK, PopupOK, CanOK, ListOK,
     NoRequest

LEMMA StepPreserves == IInv /\ [Next]_vars => IInv'
<1> SUFFICES ASSUME IInv, [Next]_vars PROVE IInv'
  OBVIOUS
<1>1. CASE ServeRefresh
  <2>1. /\ loop' = "drop" /\ requested' \in BOOLEAN /\ shown' \in BOOLEAN
        /\ UNCHANGED <<target, popup, engine, tray>>
    BY <1>1 DEF ServeRefresh, IInv, TypeOK
  <2>2. CASE requested /\ ~busy
    BY <1>1, <2>1, <2>2, RefreshKeeps DEF ServeRefresh
  <2>3. CASE ~(requested /\ ~busy)
    BY <1>1, <2>1, <2>3, QuietKeeps DEF ServeRefresh, IInv, TypeOK, PopupOK,
       world
  <2> QED
    BY <2>2, <2>3
<1>2. CASE ServeDrop
  <2>1. /\ loop' = "draw" /\ shown' = busy
        /\ UNCHANGED <<console, format, growisofs, advanced, list, popup,
                      requested, world>>
        /\ shown' \in BOOLEAN
    BY <1>2 DEF ServeDrop, IInv, TypeOK
  <2>2. CASE UNCHANGED <<image, speed, picked, engine>>
    BY <2>1, <2>2, QuietKeeps DEF IInv, TypeOK, PopupOK, target, settings
  <2>3. ASSUME ~busy, NEW i \in Images, SelectCdi(i) PROVE IInv'
    BY <2>1, <2>3, SelectCdiKeeps
  <2> QED
    BY <1>2, <2>2, <2>3 DEF ServeDrop
<1>3. CASE Draw
  BY <1>3, DrawKeeps
<1>4. CASE JobEnds
  BY <1>4, JobEndsKeeps
<1>5. CASE ChangeTray
  <2>1. /\ requested' = TRUE
        /\ UNCHANGED <<target, settings, list, popup, loop, shown, engine,
                      written>>
    BY <1>5 DEF ChangeTray
  <2>2. tray' \in [Letters -> Discs \union {Gone}]
    BY <1>5, DrivesAssumption DEF ChangeTray, IInv, TypeOK
  <2>3. TypeOK'
    BY <2>1, <2>2 DEF IInv, TypeOK, target, settings, list, engine
  <2>4. ImageSuitsTarget' /\ ResultIsOfSelection' /\ SpeedIsOffered'
    BY <2>1 DEF IInv, ImageSuitsTarget, ResultIsOfSelection, SpeedIsOffered,
       target, settings, list, engine
  <2>5. JobOK' /\ PopupOK' /\ CanOK' /\ ListOK'
    BY <2>1 DEF IInv, JobOK, PopupOK, CanOK, ListOK, target, list, engine
  <2>6. TraysOK'
    <3>1. PICK l \in Letters : \E t \in Trays[l] : tray' = [tray EXCEPT ![l] = t]
      BY <1>5 DEF ChangeTray
    <3>2. PICK t \in Trays[l] : tray' = [tray EXCEPT ![l] = t]
      BY <3>1
    <3>3. \A k \in Letters : tray'[k] = IF k = l THEN t ELSE tray[k]
      BY <3>2 DEF IInv, TypeOK
    <3> QED
      BY <3>3, MediaAssumption DEF IInv, TraysOK
  <2> QED
    BY <2>3, <2>4, <2>5, <2>6 DEF IInv
<1>6. CASE UNCHANGED vars
  BY <1>6, QuietKeeps DEF vars, IInv, TypeOK, PopupOK, JobOK
<1> QED
  BY <1>1, <1>2, <1>3, <1>4, <1>5, <1>6 DEF Next

\* The invariant holds in every state of every behaviour of the window, for
\* any consoles, files, drives and discs.
THEOREM WindowInvariance == Spec => []IInv
<1> QED
  BY InitEstablishes, StepPreserves, PTL DEF Spec

\* Every variable keeps its type, and the selection is a drive of the list
\* (DrawApp indexes state.drives without a bound check).
THEOREM WindowTypes == Spec => []TypeOK
<1>1. IInv => TypeOK
  BY DEF IInv
<1> QED
  BY <1>1, WindowInvariance, PTL

\* No order of dropped files, consoles and jobs leaves an image, or a running
\* job, that the console cannot use (SelectCdi, the console combo).
THEOREM SuitableImage == Spec => []ImageSuitsTarget
<1>1. IInv => ImageSuitsTarget
  BY DEF IInv
<1> QED
  BY <1>1, WindowInvariance, PTL

\* What the window shows of the engine is about the current selection (Reset
\* in SelectCdi and the combos).
THEOREM CurrentResult == Spec => []ResultIsOfSelection
<1>1. IInv => ResultIsOfSelection
  BY DEF IInv
<1> QED
  BY <1>1, WindowInvariance, PTL

\* A speed that is selected is still where it was picked (selectedSpeed = 0
\* wherever the list or the target changes).
THEOREM OfferedSpeed == Spec => []SpeedIsOffered
<1>1. IInv => SpeedIsOffered
  BY DEF IInv
<1> QED
  BY <1>1, WindowInvariance, PTL

\* A job that begins in a step was asked for in DrawApp, by one of its buttons.
LEMMA RequestIsDrawn ==
  ASSUME IInv, [Next]_vars, request' # request,
         request'.op \in {"dryrun", "burn"}
  PROVE  /\ Draw /\ selected # 0
         /\ request' \in {FullRequest("dryrun"), FullRequest("burn")}
<1>1. Draw
  BY DEF Next, ServeRefresh, ServeDrop, SelectCdi, Reset, JobEnds, ChangeTray,
     NoRequest, engine, vars
<1>2. ~Choose /\ ~RefreshButton /\ ~OpenPopup /\ ~Cancel /\ ~Idle
  BY DEF Choose, SelectConsole, SelectFormat, Browse, SelectCdi, Reset,
     SelectDrive, SelectBackend, SelectSpeed, SelectAdvanced, RefreshButton,
     OpenPopup, Cancel, Idle, engine
<1>3. ~CheckImage /\ ~TestBurnerMax
  BY DEF CheckImage, TestBurnerMax, Start, engine
<1>4. DryRun \/ Confirm
  BY <1>1, <1>2, <1>3 DEF Draw
<1>5. /\ selected # 0
      /\ \/ Start(FullRequest("dryrun"), Selection)
         \/ Start(FullRequest("burn"), Selection)
  BY <1>4 DEF DryRun, Confirm, CanBurn
<1> QED
  BY <1>1, <1>5 DEF Start, engine

\* EffectiveAdvancedOptions drops what the drive with its disc or the target does
\* not have: for any drives and discs, no request names such an option.
THEOREM SupportedOptions == Spec => OptionsAreSupported
<1>1. IInv /\ [Next]_vars => [AsksOnlySupported]_vars
  <2> SUFFICES ASSUME IInv, [Next]_vars, request' # request,
                      request'.op \in {"dryrun", "burn"}
               PROVE  /\ ~requested =>
                           request'.options \subseteq tray[request'.drive].options
                      /\ "streaming" \in request'.options => IsDvd(request'.console)
    BY DEF AsksOnlySupported
  <2>1. /\ selected # 0
        /\ request' \in {FullRequest("dryrun"), FullRequest("burn")}
    BY RequestIsDrawn
  <2>2. /\ request'.options = EffectiveOptions
        /\ request'.drive = selected /\ request'.console = console
    BY <2>1 DEF FullRequest
  <2> QED
    BY <2>1, <2>2, RequestOptions
<1> QED
  BY <1>1, WindowInvariance, PTL DEF Spec, OptionsAreSupported

\* The conditions of canBurn imply those of the engine's look at the disc, for
\* any image, drive and disc, but for what Unforeseen names, as long as the list
\* is current.
THEOREM OfferIsSound == Spec => []OfferedIsAccepted
<1>1. IInv => OfferedIsAccepted
  <2> DEFINE d == drives[selected]
             t == tray[selected]
  <2> SUFFICES ASSUME IInv, CanBurn, ~requested, ~written, ImageFits,
                      NEW f \in Flaws(t)
               PROVE  f \in Unforeseen(t)
    BY DEF OfferedIsAccepted
  <2>1. selected \in DOMAIN drives /\ selected \in Letters
    BY DEF CanBurn, IInv, TypeOK
  <2>2. d \in Listed(t, selected)
    BY <2>1 DEF IInv, ListOK
  <2>3. /\ d.profile \in {t.profile, "none"}
        /\ d.blankKnown /\ d.blank => t.blank
    BY <2>1, <2>2, ListedIsTrue
  <2>4. /\ t.profile = "DVD-R" => t.capacity = 0 \/ t.capacity >= SingleLayer
        /\ t.profile = "DVD+R DL" => t.capacity = 0 \/ t.capacity >= TwoLayers
    BY <2>1 DEF IInv, TraysOK
  <2>5. t.capacity \in Nat
    <3>1. t \in Discs \/ t = Gone
      BY <2>1 DEF IInv, TypeOK
    <3> QED
      BY <3>1 DEF Discs, Gone, Bare
  <2>6. ProfileSupported /\ BlankSupported /\ BackendReady
    BY DEF CanBurn
  <2>7. Size[image] \in Nat
    BY ChoicesAssumption DEF CanBurn, IInv, TypeOK
  <2>8. SingleLayer \in Nat /\ TwoLayers \in Nat
    BY SMT DEF SingleLayer, TwoLayers
  <2>9. CASE f = "media"
    BY <2>3, <2>6, <2>9 DEF Flaws, Unforeseen, Recordable, ProfileSupported, IsXgd3,
       IsDvd
  <2>10. CASE f = "blank"
    BY <2>3, <2>6, <2>10 DEF Flaws, BlankSupported
  <2>11. CASE f = "address"
    BY <2>6, <2>11 DEF Flaws, BackendReady
  <2>12. CASE f = "burnermax"
    BY <2>12 DEF Flaws, Unforeseen
  <2>13. CASE f = "capacity"
    <3>1. /\ IsDvd(console) /\ ~IsXgd3
          /\ t.capacity # 0 /\ Size[image] > t.capacity
      BY <2>13 DEF Flaws
    <3>2. d.profile = t.profile
      BY <2>3, <2>6, <3>1 DEF ProfileSupported, IsDvd
    <3>3. Size[image] <= TwoLayers
      BY <3>1 DEF ImageFits
    <3>4. ASSUME t.profile = "DVD+R DL" PROVE FALSE
      <4>1. t.capacity >= TwoLayers
        BY <2>4, <3>1, <3>4
      <4> QED
        BY <2>7, <2>8, <2>5, <3>1, <3>3, <4>1
    <3>5. ASSUME t.profile = "DVD-R" PROVE FALSE
      <4>1. t.capacity >= SingleLayer
        BY <2>4, <3>1, <3>5
      <4>2. ~(Size[image] > SingleLayer)
        BY <2>6, <3>2, <3>5 DEF ProfileSupported
      <4> QED
        BY <2>7, <2>8, <2>5, <3>1, <4>1, <4>2
    <3> QED
      BY <2>6, <2>13, <3>1, <3>2, <3>4, <3>5 DEF ProfileSupported, Unforeseen, IsDvd
  <2> QED
    BY <2>9, <2>10, <2>11, <2>12, <2>13 DEF Flaws
<1> QED
  BY <1>1, WindowInvariance, PTL
=============================================================================
