------------------------- MODULE DreamcastBurnProofs -------------------------
(***************************************************************************)
(* Theorems about DreamcastBurn and EmbeddedTools, for any list of tools,  *)
(* any images and any names of directories: the helpers and the files in   *)
(* the first part, then the layout of the sessions and the progress.       *)
(***************************************************************************)
EXTENDS DreamcastBurn, SequenceLemmas, FiniteSetTheorems

\* What the construction of the store has achieved at each point of it
StoreOK ==
  /\ ToolsOK
  /\ store = "extracting" =>
       /\ extracted < Len(Tools)
       /\ \A i \in 1 .. extracted : bin[Tools[i]] = "whole"
  /\ store = "ready" => bin = AllWhole

\* A worker beyond the test of the tools has a store that is ready, for the
\* life of its process.
ReadyBehindTest == pc \notin {"off", "tools"} => Ready

\* Where a job stands and whether it has a directory
PlaceKnown ==
  /\ pc \in {"off", "tools", "mkdtemp", "atip", "extract", "write", "done"}
  /\ request.image \in Images
  /\ IF pc \in {"off", "tools", "mkdtemp"}
     THEN place = NoPlace
     ELSE place \in dirs \ doomed /\ files[place] \subseteq FilesOf(request.image)

\* A directory that does not exist has nothing in it.
DirectoriesOK ==
  /\ dirs \subseteq Places /\ doomed \subseteq dirs
  /\ files \in [Places -> SUBSET AllFiles]
  /\ \A p \in Places \ dirs : files[p] = {}

IInv == StoreOK /\ ReadyBehindTest /\ PlaceKnown /\ DirectoriesOK

-----------------------------------------------------------------------------

\* The names of the tools are those at the positions of the list.
LEMMA ToolsAreNamed ==
  /\ Len(Tools) \in Nat /\ Len(Tools) > 0
  /\ \A i \in 1 .. Len(Tools) : Tools[i] \in Names
  /\ \A t \in Names : \E i \in 1 .. Len(Tools) : t = Tools[i]
BY ToolsAssumption DEF Names

\* Writing a tool keeps StoreOK: after the last one all are whole.
LEMMA WriteToolKeeps ==
  ASSUME StoreOK, WriteTool
  PROVE  StoreOK'
<1>1. /\ store = "extracting" /\ extracted \in Nat /\ extracted < Len(Tools)
      /\ bin \in [Names -> Copies]
  BY DEF StoreOK, ToolsOK, WriteTool
<1>2. extracted + 1 \in 1 .. Len(Tools) /\ Tools[extracted + 1] \in Names
  BY <1>1, ToolsAreNamed
<1> DEFINE tool == Tools[extracted + 1]
<1>3. CASE /\ bin' = [bin EXCEPT ![tool] = "whole"]
           /\ extracted' = extracted + 1
           /\ store' = IF extracted' = Len(Tools) THEN "ready" ELSE store
  <2>1. bin' \in [Names -> Copies] /\ extracted' \in 0 .. Len(Tools)
    BY <1>1, <1>2, <1>3, ToolsAreNamed DEF Copies
  <2>2. \A i \in 1 .. extracted' : bin'[Tools[i]] = "whole"
    <3> TAKE i \in 1 .. extracted'
    <3>1. CASE i = extracted + 1
      BY <1>1, <1>2, <1>3, <3>1
    <3>2. CASE i # extracted + 1
      <4>1. i \in 1 .. extracted /\ i \in 1 .. Len(Tools)
        BY <1>1, <1>3, <3>2, ToolsAreNamed
      <4>2. bin[Tools[i]] = "whole" /\ Tools[i] \in Names
        BY <1>1, <4>1, ToolsAreNamed DEF StoreOK
      <4> QED BY <1>1, <1>2, <1>3, <4>2
    <3> QED BY <3>1, <3>2
  <2>3. store' = "ready" => bin' = AllWhole
    <3> SUFFICES ASSUME store' = "ready" PROVE bin' = AllWhole
      OBVIOUS
    <3>1. extracted' = Len(Tools)
      BY <1>1, <1>3
    <3>2. \A t \in Names : bin'[t] = "whole"
      BY <2>2, <3>1, ToolsAreNamed
    <3> QED BY <2>1, <3>2 DEF AllWhole
  <2>4. store' = "extracting" => extracted' < Len(Tools)
    BY <1>1, <1>2, <1>3, <2>1, ToolsAreNamed
  <2>5. store' \in {"ready", "extracting"}
    BY <1>1, <1>3
  <2> QED BY <2>1, <2>2, <2>3, <2>4, <2>5 DEF StoreOK, ToolsOK
<1>4. CASE \E left \in {bin[tool], "partial"} :
             /\ bin' \in Removals([bin EXCEPT ![tool] = left])
             /\ store' = "failed"
             /\ UNCHANGED extracted
  <2>1. bin' \in [Names -> Copies] /\ store' = "failed" /\ extracted' = extracted
    BY <1>4 DEF Removals
  <2> QED BY <2>1 DEF StoreOK, ToolsOK
<1> QED BY <1>3, <1>4 DEF WriteTool

\* So do all the other steps of the life of a store.
LEMMA StoreKeeps ==
  ASSUME StoreOK,
         CreateDirectory \/ WriteTool \/ Interrupt \/ DestroyStore \/ NewProcess
           \/ UNCHANGED toolVars
  PROVE  StoreOK'
<1>1. CASE CreateDirectory
  <2>1. 0 \in 0 .. Len(Tools) /\ 0 < Len(Tools)
    BY ToolsAreNamed
  <2> QED BY <1>1, <2>1 DEF StoreOK, ToolsOK, CreateDirectory
<1>2. CASE Interrupt
  <2>1. bin' \in [Names -> Copies]
    <3>1. bin \in [Names -> Copies]
      BY DEF StoreOK, ToolsOK
    <3>2. CASE store = "extracting"
      <4>1. Tools[extracted + 1] \in Names
        BY <3>2, ToolsAreNamed DEF StoreOK, ToolsOK
      <4> QED BY <1>2, <3>1, <3>2, <4>1 DEF Interrupt, Copies
    <3> QED BY <1>2, <3>1, <3>2 DEF Interrupt
  <2> QED BY <1>2, <2>1 DEF StoreOK, ToolsOK, Interrupt
<1>3. CASE DestroyStore
  <2>1. bin' \in [Names -> Copies]
    BY <1>3 DEF DestroyStore, Removals, StoreOK, ToolsOK
  <2> QED BY <1>3, <2>1 DEF StoreOK, ToolsOK, DestroyStore
<1>4. CASE NewProcess
  <2>1. bin' \in [Names -> Copies]
    BY <1>4 DEF NewProcess, NoFiles, Copies, StoreOK, ToolsOK
  <2>2. 0 \in 0 .. Len(Tools)
    BY ToolsAreNamed
  <2> QED BY <1>4, <2>1, <2>2 DEF StoreOK, ToolsOK, NewProcess
<1>5. CASE UNCHANGED toolVars
  BY <1>5 DEF StoreOK, ToolsOK, toolVars
<1> QED BY <1>1, <1>2, <1>3, <1>4, <1>5, WriteToolKeeps

\* The end of a job leaves no directory to it.
LEMMA SettleKeeps ==
  ASSUME IInv, Settle, UNCHANGED <<toolVars, dirs, files>>
  PROVE  ReadyBehindTest' /\ PlaceKnown' /\ DirectoriesOK'
<1>1. NoRequest.image \in Images
  BY ImagesAssumption DEF NoRequest
<1>2. doomed' \subseteq dirs
  BY DEF IInv, Settle, PlaceKnown, DirectoriesOK
<1> QED BY <1>1, <1>2
        DEF IInv, Settle, ReadyBehindTest, PlaceKnown, DirectoriesOK

-----------------------------------------------------------------------------

\* No job, no directory and no store
LEMMA InitKeeps == Init => IInv
<1> SUFFICES ASSUME Init PROVE IInv
  OBVIOUS
<1>1. StoreOK
  <2>1. bin \in [Names -> Copies] /\ 0 \in 0 .. Len(Tools)
    BY ToolsAreNamed DEF Init, InitTools, NoFiles, Copies
  <2> QED BY <2>1 DEF Init, InitTools, StoreOK, ToolsOK
<1>2. NoRequest.image \in Images
  BY ImagesAssumption DEF NoRequest
<1>3. PlaceKnown /\ ReadyBehindTest /\ DirectoriesOK
  BY <1>2 DEF Init, PlaceKnown, ReadyBehindTest, DirectoriesOK
<1> QED BY <1>1, <1>3 DEF IInv

\* Steps of a job that leave the file system and the store alone
QuietSteps ==
  CheckAtip \/ WriteUnit \/ ParseLine \/ SessionEnds \/ Start

\* The invariant is about nothing they change.
LEMMA QuietKeeps ==
  ASSUME IInv, QuietSteps
  PROVE  IInv'
<1>1. UNCHANGED <<toolVars, place, diskVars>>
  BY DEF QuietSteps, CheckAtip, WriteUnit, ParseLine, SessionEnds, Start
<1>2. StoreOK'
  BY <1>1, StoreKeeps DEF IInv
<1>3. CASE Start
  <2>1. pc = "off" /\ pc' = "tools" /\ request'.image \in Images
    BY <1>3 DEF Start
  <2> QED BY <1>1, <1>2, <2>1
          DEF IInv, ReadyBehindTest, PlaceKnown, DirectoriesOK, diskVars
<1>4. CASE CheckAtip \/ WriteUnit \/ ParseLine \/ SessionEnds
  <2>1. request' = request
    BY <1>4 DEF CheckAtip, WriteUnit, ParseLine, SessionEnds
  <2>2. /\ pc \in {"atip", "write"}
        /\ pc' \in {"extract", "write", "done"}
    BY <1>4 DEF CheckAtip, WriteUnit, ParseLine, SessionEnds
  <2> QED BY <1>1, <1>2, <2>1, <2>2
          DEF IInv, ReadyBehindTest, PlaceKnown, DirectoriesOK, toolVars,
              diskVars, Ready
<1> QED BY <1>2, <1>3, <1>4 DEF QuietSteps, IInv

\* A new directory is empty.
LEMMA DirectoryKeeps ==
  ASSUME IInv, MakeTemporaryDirectory
  PROVE  IInv'
<1>1. UNCHANGED <<toolVars, request, files, doomed>>
  BY DEF MakeTemporaryDirectory
<1>2. PICK p \in Places \ dirs : place' = p /\ dirs' = dirs \union {p}
  BY DEF MakeTemporaryDirectory
<1>3. files[p] = {} /\ p \notin doomed
  BY <1>2 DEF IInv, DirectoriesOK
<1>4. pc = "mkdtemp" /\ pc' \in {"extract", "atip"}
  BY DEF MakeTemporaryDirectory
<1>5. StoreOK'
  BY <1>1, StoreKeeps DEF IInv
<1>6. ReadyBehindTest'
  BY <1>1, <1>4 DEF IInv, ReadyBehindTest, Ready, toolVars
<1>7. PlaceKnown'
  BY <1>1, <1>2, <1>3, <1>4 DEF IInv, PlaceKnown
<1>8. DirectoriesOK'
  BY <1>1, <1>2 DEF IInv, DirectoriesOK
<1> QED BY <1>5, <1>6, <1>7, <1>8 DEF IInv

\* What is extracted is a track of the image.
LEMMA ExtractKeeps ==
  ASSUME IInv, ExtractTrack
  PROVE  IInv'
<1>1. UNCHANGED <<toolVars, pc, request, place, dirs, doomed>> /\ pc = "extract"
  BY DEF ExtractTrack, jobVars
<1>2. place \in dirs \ doomed /\ files[place] \subseteq FilesOf(request.image)
  BY <1>1 DEF IInv, PlaceKnown
<1>3. PICK f \in FilesOf(request.image) :
        files' = [files EXCEPT ![place] = {g \in @ : ~SameName(f, g)} \union {f}]
  BY DEF ExtractTrack
<1>4. FilesOf(request.image) \subseteq AllFiles
  BY DEF IInv, PlaceKnown, AllFiles
<1>5. place \in Places
  BY <1>2 DEF IInv, DirectoriesOK
<1>6. files'[place] \subseteq FilesOf(request.image)
  BY <1>2, <1>3, <1>5 DEF IInv, DirectoriesOK
<1>7. DirectoriesOK'
  <2>1. files' \in [Places -> SUBSET AllFiles]
    BY <1>3, <1>4, <1>5, <1>6 DEF IInv, DirectoriesOK
  <2>2. \A p \in Places \ dirs' : files'[p] = {}
    BY <1>1, <1>2, <1>3 DEF IInv, DirectoriesOK
  <2> QED BY <1>1, <2>1, <2>2 DEF IInv, DirectoriesOK
<1>8. PlaceKnown'
  BY <1>1, <1>2, <1>6 DEF IInv, PlaceKnown
<1>9. StoreOK' /\ ReadyBehindTest'
  BY <1>1, StoreKeeps DEF IInv, ReadyBehindTest, Ready, toolVars
<1> QED BY <1>7, <1>8, <1>9 DEF IInv

\* Only directories of jobs that are over are removed.
LEMMA RemoveKeeps ==
  ASSUME IInv, RemoveDirectory
  PROVE  IInv'
<1>1. UNCHANGED <<toolVars, pc, request, place>>
  BY DEF RemoveDirectory, jobVars
<1>2. PICK p \in doomed :
        /\ doomed' = doomed \ {p}
        /\ \/ dirs' = dirs \ {p} /\ files' = [files EXCEPT ![p] = {}]
           \/ UNCHANGED <<dirs, files>>
  BY DEF RemoveDirectory
<1>3. p \in Places
  BY DEF IInv, DirectoriesOK
<1>4. DirectoriesOK'
  BY <1>2, <1>3 DEF IInv, DirectoriesOK
<1>5. PlaceKnown'
  BY <1>1, <1>2, <1>3 DEF IInv, PlaceKnown, DirectoriesOK
<1>6. StoreOK' /\ ReadyBehindTest'
  BY <1>1, StoreKeeps DEF IInv, ReadyBehindTest, Ready, toolVars
<1> QED BY <1>4, <1>5, <1>6 DEF IInv

\* The ends of jobs, early and late
SettlingSteps == AskTools \/ StepFails \/ Extracted \/ SessionFails \/ Complete

\* They keep the invariant, whether the job goes on or not.
LEMMA SettlingKeeps ==
  ASSUME IInv, SettlingSteps
  PROVE  IInv'
<1>1. UNCHANGED <<toolVars, dirs, files>>
  BY DEF SettlingSteps, AskTools, StepFails, Extracted, SessionFails, Complete
<1>2. StoreOK'
  BY <1>1, StoreKeeps DEF IInv
<1>3. CASE Settle
  BY <1>1, <1>2, <1>3, SettleKeeps DEF IInv
<1>4. CASE ~Settle
  <2>1. UNCHANGED <<request, place, doomed>>
    BY <1>4 DEF SettlingSteps, AskTools, StepFails, Extracted, SessionFails,
                Complete
  <2>2. \/ pc = "tools" /\ pc' = "mkdtemp" /\ Ready
        \/ pc = "extract" /\ pc' = "write"
    BY <1>4 DEF SettlingSteps, AskTools, StepFails, Extracted, SessionFails,
                Complete
  <2> QED BY <1>1, <1>2, <2>1, <2>2
          DEF IInv, ReadyBehindTest, PlaceKnown, DirectoriesOK, Ready, toolVars
<1> QED BY <1>3, <1>4

\* What happens around the jobs
LEMMA AroundKeeps ==
  ASSUME IInv, BuildStore \/ Close \/ Kill \/ Restart \/ InsertDisc
  PROVE  IInv'
<1>1. StoreOK'
  BY StoreKeeps
     DEF IInv, BuildStore, Close, Kill, Restart, InsertDisc, toolVars
<1>2. CASE BuildStore
  <2>1. UNCHANGED <<jobVars, diskVars>> /\ ~Ready
    BY <1>2 DEF BuildStore, CreateDirectory, WriteTool, Ready
  <2> QED BY <1>1, <2>1
          DEF IInv, ReadyBehindTest, PlaceKnown, DirectoriesOK, jobVars, diskVars
<1>3. CASE Close \/ Restart \/ InsertDisc
  <2>1. UNCHANGED <<jobVars, diskVars>>
    BY <1>3 DEF Close, Restart, InsertDisc
  <2>2. ReadyBehindTest'
    BY <1>3, <2>1
       DEF IInv, ReadyBehindTest, Close, Restart, NewProcess, InsertDisc, Ready,
           jobVars, toolVars
  <2> QED BY <1>1, <2>1, <2>2 DEF IInv, PlaceKnown, DirectoriesOK, jobVars, diskVars
<1>4. CASE Kill
  <2>1. NoRequest.image \in Images
    BY ImagesAssumption DEF NoRequest
  <2> QED BY <1>1, <1>4, <2>1
          DEF IInv, Kill, ReadyBehindTest, PlaceKnown, DirectoriesOK
<1> QED BY <1>2, <1>3, <1>4

\* The inductive invariant: an extraction that is complete up to the tool at
\* hand, a ready store behind the test, an empty directory for each job.
THEOREM DreamcastInvariance == Spec => []IInv
<1>1. IInv /\ [Next]_vars => IInv'
  <2> SUFFICES ASSUME IInv, [Next]_vars PROVE IInv'
    OBVIOUS
  <2>1. CASE UNCHANGED vars
    <3>1. UNCHANGED <<toolVars, jobVars, diskVars>>
      BY <2>1 DEF vars
    <3>2. StoreOK'
      BY <3>1, StoreKeeps DEF IInv
    <3> QED BY <3>1, <3>2
            DEF IInv, ReadyBehindTest, PlaceKnown, DirectoriesOK, Ready,
                toolVars, jobVars, diskVars
  <2>2. CASE Next
    BY <2>2, QuietKeeps, DirectoryKeeps, ExtractKeeps, RemoveKeeps, SettlingKeeps,
       AroundKeeps
       DEF Next, Worker, QuietSteps, SettlingSteps
  <2> QED BY <2>1, <2>2
<1> QED BY <1>1, InitKeeps, PTL DEF Spec

\* For any list of helpers, a job that got past the test has all of them whole
\* in this program's version (EmbeddedToolStore, EmbeddedToolPaths::Ready).
THEOREM WholeHelpers == Spec => []HelpersAreWhole
<1>1. IInv => HelpersAreWhole
  BY DEF IInv, StoreOK, ReadyBehindTest, Ready, HelpersAreWhole
<1> QED BY <1>1, DreamcastInvariance, PTL

\* For any images and names, what a job extracts into is its own and holds
\* tracks of its image only (MakeTemporaryDirectory, ~TemporaryDirectory).
THEOREM OwnTracks == Spec => []TracksOfThisImage
<1>1. IInv => TracksOfThisImage
  BY DEF IInv, PlaceKnown, TracksOfThisImage
<1> QED BY <1>1, DreamcastInvariance, PTL

-----------------------------------------------------------------------------
(* Tracks, files and their sizes                                           *)

\* All tracks of an image are a sequence of tracks.
LEMMA TracksType ==
  ASSUME NEW i \in Images
  PROVE  AllTracks(i) \in Seq(Tracks) /\ Len(AllTracks(i)) \in Nat
<1>1. Sessions[i] \in Seq(Seq(Tracks))
  BY ImagesAssumption
<1>2. AllTracks(i) \in Seq(Tracks)
  BY <1>1, FlattenType DEF AllTracks
<1> QED BY <1>2

\* The size, the number and the kind of a file are those of its track.
LEMMA FileType ==
  ASSUME NEW f \in AllFiles
  PROVE  /\ SizeOf(f) \in Nat /\ f.number \in Nat \ {0} /\ f.kind \in {"audio", "data"}
<1>1. PICK i \in Images : f \in FilesOf(i)
  BY DEF AllFiles
<1>2. PICK n \in DOMAIN AllTracks(i) : f = File(i, n)
  BY <1>1 DEF FilesOf
<1> DEFINE s == AllTracks(i)
<1>3. s \in Seq(Tracks)
  BY TracksType
<1>4. f.image = i /\ f.number = n /\ f.kind = s[n].kind
  BY <1>2 DEF File
<1>5. SizeOf(f) = s[n].size
  BY <1>4 DEF SizeOf
<1> HIDE DEF s
<1>6. n \in DOMAIN s
  BY DEF s
<1>7. n \in Nat \ {0} /\ s[n] \in Tracks
  BY <1>3, <1>6
<1> QED BY <1>4, <1>5, <1>7 DEF Tracks

\* The sum goes from one file to the next.
LEMMA TotalGoesThrough ==
  ASSUME NEW text \in Seq(AllFiles)
  PROVE  \E d \in [0 .. Len(text) -> Nat] :
           /\ d[0] = 0
           /\ \A k \in 1 .. Len(text) : d[k] = d[k - 1] + SizeOf(text[k])
           /\ TotalSize(text) = d[Len(text)]
<1> DEFINE n    == Len(text)
           step == [p \in Nat \X (1 .. n) |-> p[1] + SizeOf(text[p[2]])]
           Fold(g) == g = [s \in SUBSET (DOMAIN text) |->
                             IF s = {} THEN 0
                             ELSE g[s \ {Max(s)}] + SizeOf(text[Max(s)])]
           all  == CHOOSE g : Fold(g)
           d    == [k \in 0 .. n |-> all[1 .. k]]
<1>1. TotalSize(text) = all[DOMAIN text]
  BY DEF TotalSize, FoldLeft, MapThenFoldSet
<1>2. n \in Nat /\ DOMAIN text = 1 .. n /\ \A k \in 1 .. n : SizeOf(text[k]) \in Nat
  <2>1. n \in Nat /\ DOMAIN text = 1 .. n /\ \A k \in 1 .. n : text[k] \in AllFiles
    OBVIOUS
  <2> QED BY <2>1, FileType
<1>3. step \in [Nat \X (1 .. n) -> Nat]
  <2> SUFFICES ASSUME NEW c \in Nat, NEW k \in 1 .. n
               PROVE  c + SizeOf(text[k]) \in Nat
    OBVIOUS
  <2> QED BY <1>2
<1>4. PICK g \in [SUBSET (1 .. n) -> Nat] : IsFold(g, n, 0, step)
  <2> HIDE DEF step, n
  <2> QED BY <1>2, <1>3, FoldExists
<1>5. \A s \in SUBSET (1 .. n) : s # {} => Max(s) \in 1 .. n /\ s \ {Max(s)} \in SUBSET (1 .. n)
  BY <1>2, LargestPosition
<1>6. Fold(g)
  <2> SUFFICES ASSUME NEW s \in SUBSET (1 .. n)
               PROVE  g[s] = IF s = {} THEN 0 ELSE g[s \ {Max(s)}] + SizeOf(text[Max(s)])
    BY <1>2
  <2>1. CASE s # {}
    <3>1. <<g[s \ {Max(s)}], Max(s)>> \in Nat \X (1 .. n)
      BY <1>5, <2>1
    <3>2. step[<<g[s \ {Max(s)}], Max(s)>>] = g[s \ {Max(s)}] + SizeOf(text[Max(s)])
      BY <3>1
    <3> HIDE DEF step
    <3> QED BY <3>2, <1>2, <1>4, <1>5, <2>1 DEF IsFold
  <2>2. CASE s = {}
    BY <2>2, <1>4 DEF IsFold
  <2> QED BY <2>1, <2>2
<1>7. Fold(all)
  <2> HIDE DEF Fold
  <2> QED BY <1>6
<1>8. d[0] = 0
  <2>1. 1 .. 0 = {} /\ {} \in SUBSET (DOMAIN text)
    OBVIOUS
  <2> HIDE DEF all
  <2> QED BY <2>1, <1>2, <1>7
<1>9. ASSUME NEW k \in 1 .. n PROVE d[k] = d[k - 1] + SizeOf(text[k])
  <2>1. 1 .. k # {} /\ Max(1 .. k) = k /\ (1 .. k) \ {k} = 1 .. (k - 1)
    <3>1. k \in Nat \ {0}
      BY <1>2
    <3> QED BY <3>1, LastPosition
  <2>2. 1 .. k \in SUBSET (DOMAIN text)
    BY <1>2
  <2> HIDE DEF all
  <2>3. all[1 .. k] = all[1 .. (k - 1)] + SizeOf(text[k])
    BY <2>1, <2>2, <1>2, <1>7
  <2> QED BY <2>3, <1>2
<1>10. \A k \in 0 .. n : d[k] \in Nat
  <2> DEFINE S == {k \in 0 .. n : d[k] \in Nat}
  <2>1. 0 \in S
    BY <1>2, <1>8
  <2>2. \A k \in 0 .. n - 1 : k \in S => k + 1 \in S
    <3> TAKE k \in 0 .. n - 1
    <3>1. k + 1 \in 1 .. n /\ k + 1 - 1 = k
      BY <1>2
    <3> HIDE DEF d
    <3>2. d[k + 1] = d[k] + SizeOf(text[k + 1]) /\ SizeOf(text[k + 1]) \in Nat
      BY <3>1, <1>2, <1>9
    <3> QED BY <3>1, <3>2
  <2> HIDE DEF S
  <2>3. 0 .. n \subseteq S
    BY <1>2, <2>1, <2>2, HandedOn
  <2> QED BY <2>3 DEF S
<1>11. TotalSize(text) = d[n]
  <2> HIDE DEF all
  <2> QED BY <1>1, <1>2
<1>12. d \in [0 .. n -> Nat]
  BY <1>10
<1> HIDE DEF d
<1> QED BY <1>8, <1>9, <1>11, <1>12

\* The sum is a number.
LEMMA TotalType ==
  ASSUME NEW s \in Seq(AllFiles)
  PROVE  TotalSize(s) \in Nat
<1>1. PICK d \in [0 .. Len(s) -> Nat] : TotalSize(s) = d[Len(s)]
  BY TotalGoesThrough
<1>2. Len(s) \in 0 .. Len(s)
  OBVIOUS
<1> QED BY <1>1, <1>2

\* No files, no size
LEMMA TotalEmpty == TotalSize(<<>>) = 0
<1>1. <<>> \in Seq(AllFiles) /\ Len(<<>>) = 0
  OBVIOUS
<1>2. PICK d \in [0 .. 0 -> Nat] : d[0] = 0 /\ TotalSize(<<>>) = d[0]
  BY <1>1, TotalGoesThrough
<1> QED BY <1>2

\* One more file
LEMMA TotalAppend ==
  ASSUME NEW text \in Seq(AllFiles), NEW f \in AllFiles
  PROVE  TotalSize(Append(text, f)) = TotalSize(text) + SizeOf(f)
<1> DEFINE n == Len(text)
           more == Append(text, f)
<1>1. /\ more \in Seq(AllFiles) /\ Len(more) = n + 1 /\ n \in Nat
      /\ (\A k \in 1 .. n : more[k] = text[k]) /\ more[n + 1] = f
  BY AppendProperties
<1> HIDE DEF more
<1>2. PICK d \in [0 .. n -> Nat] :
        /\ d[0] = 0
        /\ \A k \in 1 .. n : d[k] = d[k - 1] + SizeOf(text[k])
        /\ TotalSize(text) = d[n]
  BY TotalGoesThrough
<1>3. PICK e \in [0 .. Len(more) -> Nat] :
        /\ e[0] = 0
        /\ \A k \in 1 .. Len(more) : e[k] = e[k - 1] + SizeOf(more[k])
        /\ TotalSize(more) = e[Len(more)]
  BY <1>1, TotalGoesThrough
<1> HIDE DEF n
<1> DEFINE R == {k \in 0 .. n : d[k] = e[k]}
<1>4. 0 \in R
  BY <1>1, <1>2, <1>3
<1>5. ASSUME NEW k \in 0 .. n - 1, d[k] = e[k] PROVE d[k + 1] = e[k + 1]
  <2> DEFINE j == k + 1
  <2>0. n \in Nat /\ Len(more) = n + 1
    BY <1>1
  <2>1. j \in 1 .. n /\ j \in 1 .. Len(more) /\ j - 1 = k
    BY <2>0
  <2> HIDE DEF j
  <2>2. d[j] = d[k] + SizeOf(text[j]) /\ e[j] = e[k] + SizeOf(text[j])
    BY <2>1, <1>1, <1>2, <1>3
  <2> QED BY <2>2, <1>5 DEF j
<1>6. \A k \in 0 .. n - 1 : k \in R => k + 1 \in R
  <2> TAKE k \in 0 .. n - 1
  <2>1. k + 1 \in 0 .. n
    BY <1>1
  <2> QED BY <2>1, <1>5
<1> HIDE DEF R
<1>7. 0 .. n \subseteq R
  BY <1>1, <1>4, <1>6, HandedOn
<1>8. d[n] = e[n]
  <2>1. n \in 0 .. n
    BY <1>1
  <2>2. n \in R
    BY <2>1, <1>7, Zenon
  <2> QED BY <2>2 DEF R
<1>9. e[n + 1] = e[n] + SizeOf(f)
  <2> DEFINE j == n + 1
  <2>1. j \in 1 .. Len(more) /\ j - 1 = n /\ more[j] = f
    BY <1>1
  <2> HIDE DEF j
  <2>2. e[j] = e[n] + SizeOf(f)
    BY <2>1, <1>3
  <2> QED BY <2>2 DEF j
<1>10. TotalSize(more) = TotalSize(text) + SizeOf(f)
  BY <1>1, <1>2, <1>3, <1>8, <1>9
<1> QED BY <1>10 DEF more

\* The files up to the k-th, and all of them
LEMMA TotalPrefix ==
  ASSUME NEW s \in Seq(AllFiles)
  PROVE  /\ \A k \in 0 .. Len(s) : TotalSize(SubSeq(s, 1, k)) \in Nat
         /\ TotalSize(SubSeq(s, 1, 0)) = 0
         /\ \A k \in 1 .. Len(s) :
              TotalSize(SubSeq(s, 1, k)) = TotalSize(SubSeq(s, 1, k - 1)) + SizeOf(s[k])
         /\ \A k \in 0 .. Len(s) : TotalSize(SubSeq(s, 1, k)) <= TotalSize(s)
<1> DEFINE n == Len(s)
           T(k) == TotalSize(SubSeq(s, 1, k))
<1>1. n \in Nat /\ \A k \in 1 .. n : s[k] \in AllFiles /\ SizeOf(s[k]) \in Nat
  BY FileType
<1>2. \A k \in 0 .. n : SubSeq(s, 1, k) \in Seq(AllFiles) /\ Len(SubSeq(s, 1, k)) = k
  BY Divided
<1>3. \A k \in 0 .. n : T(k) \in Nat
  BY <1>2, TotalType
<1>4. T(0) = 0
  <2>1. SubSeq(s, 1, 0) = <<>>
    BY SubSeqEmpty
  <2> QED BY <2>1, TotalEmpty
<1>5. ASSUME NEW k \in 1 .. n PROVE T(k) = T(k - 1) + SizeOf(s[k])
  <2>1. k - 1 \in 0 .. n /\ k \in 0 .. n
    BY <1>1
  <2>2. SubSeq(s, 1, k) = Append(SubSeq(s, 1, k - 1), s[k])
    <3> DEFINE t == SubSeq(s, 1, k - 1)
               r == Append(t, s[k])
    <3>1. t \in Seq(AllFiles) /\ Len(t) = k - 1 /\ \A i \in 1 .. k - 1 : t[i] = s[i]
      <4>1. \A i \in 1 .. k - 1 : s[i] \in AllFiles
        BY <1>1
      <4>2. 1 \in Int /\ k - 1 \in Int
        BY <1>1
      <4> QED BY <1>2, <2>1, <4>1, <4>2, SubSeqProperties
    <3> HIDE DEF t
    <3>2. r \in Seq(AllFiles) /\ Len(r) = k /\ r[k] = s[k]
          /\ \A i \in 1 .. k - 1 : r[i] = s[i]
      <4>1. s[k] \in AllFiles
        BY <1>1
      <4>2. Len(t) + 1 = k
        BY <3>1
      <4> QED BY <3>1, <4>1, <4>2, AppendProperties
    <3>3. /\ SubSeq(s, 1, k) \in Seq(AllFiles) /\ Len(SubSeq(s, 1, k)) = k
          /\ \A i \in 1 .. k : SubSeq(s, 1, k)[i] = s[i]
      <4>1. \A i \in 1 .. k : s[i] \in AllFiles
        BY <1>1
      <4>2. 1 \in Int /\ k \in Int
        BY <1>1
      <4> QED BY <1>2, <2>1, <4>1, <4>2, SubSeqProperties
    <3> HIDE DEF r
    <3>4. \A i \in 1 .. k : r[i] = s[i]
      BY <1>1, <3>2
    <3> QED BY <3>2, <3>3, <3>4, SeqEqual DEF r
  <2>3. TotalSize(Append(SubSeq(s, 1, k - 1), s[k])) = T(k - 1) + SizeOf(s[k])
    BY <1>1, <1>2, <2>1, TotalAppend
  <2> QED BY <2>2, <2>3
<1>6. T(n) = TotalSize(s)
  BY SubSeqFull
<1> HIDE DEF T, n
<1>7. ASSUME NEW k \in 0 .. n PROVE T(k) <= T(n)
  <2> DEFINE R == {j \in 0 .. n : j >= k => T(k) <= T(j)}
  <2>1. 0 \in R
    BY <1>1, <1>3, <1>7
  <2>2. \A j \in 0 .. n - 1 : j \in R => j + 1 \in R
    <3> SUFFICES ASSUME NEW j \in 0 .. n - 1, j >= k => T(k) <= T(j), j + 1 >= k
                 PROVE  T(k) <= T(j + 1)
      BY <1>1
    <3>1. j + 1 \in 1 .. n /\ j + 1 - 1 = j /\ j \in 0 .. n /\ j + 1 \in 0 .. n
      BY <1>1
    <3>2. T(j + 1) = T(j) + SizeOf(s[j + 1]) /\ SizeOf(s[j + 1]) \in Nat
      BY <3>1, <1>1, <1>5
    <3>3. T(j) \in Nat /\ T(k) \in Nat /\ T(j + 1) \in Nat
      BY <3>1, <1>3
    <3>4. CASE j >= k
      BY <3>2, <3>3, <3>4
    <3>5. CASE ~ (j >= k)
      <4>1. k = j + 1
        BY <3>5, <3>1
      <4> QED BY <4>1, <3>3
    <3> QED BY <3>4, <3>5
  <2> HIDE DEF R
  <2>3. 0 .. n \subseteq R
    BY <1>1, <2>1, <2>2, HandedOn
  <2>4. n \in R
    <3>1. n \in 0 .. n
      BY <1>1
    <3> QED BY <2>3, <3>1, Zenon
  <2> QED BY <2>4, <1>1, <1>7 DEF R
<1>8. \A k \in 0 .. n : T(k) <= TotalSize(s)
  BY <1>6, <1>7
<1> QED BY <1>3, <1>4, <1>5, <1>8 DEF T, n

-----------------------------------------------------------------------------
(* Listed: the files of one kind in the order of their numbers             *)

\* Any set of positions can be gone through from the first to the last.
LEMMA PositionsInOrder ==
  ASSUME NEW n \in Nat, NEW P \in SUBSET (1 .. n)
  PROVE  \E m \in Nat : \E e \in [1 .. m -> P] :
           /\ \A j, k \in 1 .. m : j < k => e[j] < e[k]
           /\ \A p \in P : \E k \in 1 .. m : e[k] = p
<1> DEFINE Ordered(S) ==
             \E m \in Nat : \E e \in [1 .. m -> S] :
               /\ \A j, k \in 1 .. m : j < k => e[j] < e[k]
               /\ \A p \in S : \E k \in 1 .. m : e[k] = p
           Q(l) == \A S \in SUBSET (1 .. l) : Ordered(S)
<1>1. Q(0)
  <2> SUFFICES ASSUME NEW S \in SUBSET (1 .. 0) PROVE Ordered(S)
    OBVIOUS
  <2>1. S = {} /\ 0 \in Nat /\ 1 .. 0 = {}
    OBVIOUS
  <2> DEFINE e == [k \in {} |-> 0]
  <2>2. e \in [1 .. 0 -> S]
    BY <2>1
  <2> QED BY <2>1, <2>2
<1>2. ASSUME NEW l \in Nat, Q(l) PROVE Q(l + 1)
  <2> SUFFICES ASSUME NEW S \in SUBSET (1 .. l + 1) PROVE Ordered(S)
    OBVIOUS
  <2>1. CASE l + 1 \notin S
    <3>1. S \in SUBSET (1 .. l)
      BY <2>1
    <3> HIDE DEF Ordered
    <3> QED BY <1>2, <3>1
  <2>2. CASE l + 1 \in S
    <3> DEFINE R == S \ {l + 1}
    <3>1. R \in SUBSET (1 .. l) /\ S = R \union {l + 1}
      BY <2>2
    <3> HIDE DEF R
    <3>a. Ordered(R)
      <4> HIDE DEF Ordered
      <4> QED BY <1>2, <3>1
    <3>b. PICK m \in Nat : \E d \in [1 .. m -> R] :
            /\ \A j, k \in 1 .. m : j < k => d[j] < d[k]
            /\ \A p \in R : \E k \in 1 .. m : d[k] = p
      BY <3>a
    <3>2. PICK d \in [1 .. m -> R] :
            /\ \A j, k \in 1 .. m : j < k => d[j] < d[k]
            /\ \A p \in R : \E k \in 1 .. m : d[k] = p
      BY <3>b
    <3> DEFINE e == [k \in 1 .. m + 1 |-> IF k = m + 1 THEN l + 1 ELSE d[k]]
    <3>3. /\ \A k \in 1 .. m : k \in 1 .. m + 1 /\ e[k] = d[k] /\ d[k] \in 1 .. l
          /\ m + 1 \in 1 .. m + 1 /\ e[m + 1] = l + 1
          /\ \A k \in 1 .. m + 1 : k = m + 1 \/ k \in 1 .. m
      <4>1. \A k \in 1 .. m : k \in 1 .. m + 1 /\ k # m + 1
        OBVIOUS
      <4>2. m + 1 \in 1 .. m + 1 /\ \A k \in 1 .. m + 1 : k = m + 1 \/ k \in 1 .. m
        OBVIOUS
      <4>3. \A k \in 1 .. m : d[k] \in R
        BY <3>2
      <4>4. \A k \in 1 .. m : d[k] \in 1 .. l
        BY <3>1, <4>3
      <4> QED BY <4>1, <4>2, <4>4
    <3>4. e \in [1 .. m + 1 -> S]
      BY <3>1, <3>2
    <3> HIDE DEF e
    <3>5. ASSUME NEW j \in 1 .. m + 1, NEW k \in 1 .. m + 1, j < k PROVE e[j] < e[k]
      <4>1. j \in 1 .. m
        BY <3>5
      <4>2. CASE k = m + 1
        BY <3>3, <4>1, <4>2
      <4>3. CASE k \in 1 .. m
        BY <3>2, <3>3, <3>5, <4>1, <4>3
      <4> QED BY <3>3, <4>2, <4>3
    <3>6. ASSUME NEW p \in S PROVE \E k \in 1 .. m + 1 : e[k] = p
      BY <3>1, <3>2, <3>3
    <3>7. m + 1 \in Nat
      OBVIOUS
    <3> QED BY <3>4, <3>5, <3>6, <3>7
  <2> QED BY <2>1, <2>2
<1>3. Ordered(P)
  <2> DEFINE R == {l \in Nat : Q(l)}
  <2> HIDE DEF Q
  <2>1. 0 \in R /\ \A l \in Nat : l \in R => l + 1 \in R
    BY <1>1, <1>2
  <2> HIDE DEF R
  <2>2. Nat \subseteq R
    BY <2>1, Induction
  <2>3. Q(n)
    BY <2>2 DEF R
  <2> HIDE DEF Ordered
  <2> QED BY <2>3 DEF Q
<1> QED BY <1>3

\* As many numbers as there is room for, in order: each is at its place.
LEMMA NoGaps ==
  ASSUME NEW m \in Nat, NEW lo \in Nat, NEW e \in [1 .. m -> Nat],
         \A k \in 1 .. m : e[k] \in lo + 1 .. lo + m,
         \A j, k \in 1 .. m : j < k => e[j] < e[k]
  PROVE  \A k \in 1 .. m : e[k] = lo + k
<1>1. \A k \in 1 .. m : e[k] >= lo + k
  <2> DEFINE R == {k \in 0 .. m : k = 0 \/ e[k] >= lo + k}
  <2>1. 0 \in R
    OBVIOUS
  <2>2. \A k \in 0 .. m - 1 : k \in R => k + 1 \in R
    <3> SUFFICES ASSUME NEW k \in 0 .. m - 1, k = 0 \/ e[k] >= lo + k
                 PROVE  e[k + 1] >= lo + (k + 1)
      OBVIOUS
    <3>1. k + 1 \in 1 .. m /\ e[k + 1] \in lo + 1 .. lo + m
      OBVIOUS
    <3>2. CASE k = 0
      BY <3>1, <3>2
    <3>3. CASE k # 0
      <4>1. k \in 1 .. m /\ e[k] \in Nat /\ e[k + 1] \in Nat
        BY <3>1, <3>3
      <4>2. e[k] < e[k + 1]
        BY <3>1, <4>1
      <4> QED BY <3>3, <4>1, <4>2
    <3> QED BY <3>2, <3>3
  <2> HIDE DEF R
  <2>3. 0 .. m \subseteq R
    BY <2>1, <2>2, HandedOn
  <2>4. \A k \in 1 .. m : k \in 0 .. m /\ k # 0
    OBVIOUS
  <2> QED BY <2>3, <2>4 DEF R
<1>2. \A k \in 1 .. m : e[k] <= lo + k
  <2> DEFINE R == {k \in 0 .. m : k = m \/ e[m - k] <= lo + (m - k)}
  <2>1. 0 \in R
    <3>1. CASE m = 0
      BY <3>1
    <3>2. CASE m # 0
      BY <3>2
    <3> QED BY <3>1, <3>2
  <2>2. \A k \in 0 .. m - 1 : k \in R => k + 1 \in R
    <3> SUFFICES ASSUME NEW k \in 0 .. m - 1, e[m - k] <= lo + (m - k),
                        k + 1 # m
                 PROVE  e[m - (k + 1)] <= lo + (m - (k + 1))
      OBVIOUS
    <3> DEFINE j == m - (k + 1)
    <3>1. j \in 1 .. m /\ j + 1 \in 1 .. m /\ m - k = j + 1 /\ j < j + 1
      OBVIOUS
    <3> HIDE DEF j
    <3>2. e[j] \in Nat /\ e[j + 1] \in Nat /\ e[j] < e[j + 1]
      BY <3>1
    <3>3. e[j] <= lo + j
      BY <3>1, <3>2
    <3> QED BY <3>3 DEF j
  <2> HIDE DEF R
  <2>3. 0 .. m \subseteq R
    BY <2>1, <2>2, HandedOn
  <2>4. \A k \in 1 .. m : m - k \in 0 .. m /\ m - k # m /\ m - (m - k) = k
    OBVIOUS
  <2>5. \A k \in 1 .. m : e[m - (m - k)] <= lo + (m - (m - k))
    BY <2>3, <2>4 DEF R
  <2> QED BY <2>4, <2>5
<1> QED BY <1>1, <1>2

\* The files of an image of one kind
Kind(i, kind) == {f \in FilesOf(i) : f.kind = kind}

\* The n-th file of an image has the number n, ...
LEMMA FilesAreNumbered ==
  ASSUME NEW i \in Images, NEW n \in 1 .. Len(AllTracks(i))
  PROVE  /\ File(i, n) \in FilesOf(i) /\ File(i, n).number = n
         /\ File(i, n).kind = AllTracks(i)[n].kind
         /\ File(i, n).kind \in {"audio", "data"}
<1> DEFINE s == AllTracks(i)
<1>1. s \in Seq(Tracks)
  BY TracksType
<1>2. File(i, n).number = n /\ File(i, n).kind = s[n].kind
  BY DEF File
<1>3. n \in DOMAIN s /\ s[n] \in Tracks
  <2> HIDE DEF s
  <2>1. n \in 1 .. Len(s)
    BY DEF s
  <2> QED BY <1>1, <2>1
<1>4. s[n].kind \in {"audio", "data"}
  BY <1>3 DEF Tracks
<1> QED BY <1>2, <1>3, <1>4 DEF FilesOf

\* ... and every file is the one of its number.
LEMMA FilesHaveNumbers ==
  ASSUME NEW i \in Images, NEW f \in FilesOf(i)
  PROVE  /\ f.number \in 1 .. Len(AllTracks(i)) /\ f = File(i, f.number)
         /\ f \in AllFiles
<1> DEFINE s == AllTracks(i)
<1>1. s \in Seq(Tracks)
  BY TracksType
<1>2. PICK n \in DOMAIN s : f = File(i, n)
  BY DEF FilesOf
<1>3. f.number = n
  BY <1>2 DEF File
<1>4. n \in 1 .. Len(s)
  <2> HIDE DEF s
  <2> QED BY <1>1, <1>2
<1> QED BY <1>2, <1>3, <1>4 DEF AllFiles

\* Files in the order of their numbers
Rising(s) == \A m, n \in DOMAIN s : m < n => s[m].number < s[n].number

\* The files of a kind can be listed in the order of their numbers.
LEMMA RisingExists ==
  ASSUME NEW i \in Images, NEW kind
  PROVE  \E s \in [1 .. Cardinality(Kind(i, kind)) -> Kind(i, kind)] : Rising(s)
<1> DEFINE N    == Len(AllTracks(i))
           some == Kind(i, kind)
           P    == {n \in 1 .. N : File(i, n) \in some}
<1>1. N \in Nat /\ P \in SUBSET (1 .. N)
  BY TracksType
<1> HIDE DEF P, some
<1>a. PICK m \in Nat : \E e \in [1 .. m -> P] :
        /\ \A j, k \in 1 .. m : j < k => e[j] < e[k]
        /\ \A p \in P : \E k \in 1 .. m : e[k] = p
  BY <1>1, PositionsInOrder
<1>2. PICK e \in [1 .. m -> P] :
        /\ \A j, k \in 1 .. m : j < k => e[j] < e[k]
        /\ \A p \in P : \E k \in 1 .. m : e[k] = p
  BY <1>a
<1> DEFINE s == [k \in 1 .. m |-> File(i, e[k])]
<1>3. \A k \in 1 .. m : e[k] \in 1 .. N /\ s[k] \in some /\ s[k].number = e[k]
  BY <1>2, FilesAreNumbered DEF P
<1>4. s \in [1 .. m -> some] /\ DOMAIN s = 1 .. m
  BY <1>3
<1>5. \A f \in some : \E k \in 1 .. m : s[k] = f
  <2> TAKE f \in some
  <2>1. f.number \in 1 .. N /\ f = File(i, f.number)
    BY FilesHaveNumbers DEF some, Kind
  <2>2. f.number \in P
    BY <2>1 DEF P
  <2>3. PICK k \in 1 .. m : e[k] = f.number
    BY <1>2, <2>2
  <2> QED BY <2>1, <2>3
<1> HIDE DEF s
<1>6. \A j, k \in 1 .. m : j < k => s[j].number < s[k].number
  BY <1>2, <1>3
<1>7. Rising(s)
  BY <1>4, <1>6 DEF Rising
<1>8. \A j, k \in 1 .. m : s[j] = s[k] => j = k
  <2> SUFFICES ASSUME NEW j \in 1 .. m, NEW k \in 1 .. m, s[j] = s[k], j # k
               PROVE  FALSE
    OBVIOUS
  <2>1. s[j].number = s[k].number /\ s[j].number \in Nat
    BY <1>1, <1>3
  <2>2. j < k \/ k < j
    OBVIOUS
  <2> QED BY <1>6, <2>1, <2>2
<1>9. s \in Bijection(1 .. m, some)
  BY <1>4, <1>5, <1>8 DEF Bijection, Injection, Surjection, IsInjective
<1>10. Cardinality(some) = m
  BY <1>2, <1>9, FS_CountingElements DEF ExistsBijection
<1> QED BY <1>4, <1>7, <1>10 DEF some

\* Listed goes through all the files of its kind.
LEMMA ListedFiles ==
  ASSUME NEW i \in Images, NEW kind
  PROVE  LET s == Listed(FilesOf(i), kind)
             m == Cardinality(Kind(i, kind))
         IN  /\ m \in Nat
             /\ s \in Seq(Kind(i, kind)) /\ Len(s) = m /\ Rising(s)
             /\ \A f \in Kind(i, kind) : \E k \in 1 .. m : s[k] = f
<1> DEFINE N    == Len(AllTracks(i))
           some == Kind(i, kind)
           m    == Cardinality(some)
           s    == CHOOSE t \in [1 .. m -> some] : Rising(t)
           num  == [f \in some |-> f.number]
<1>1. N \in Nat
  BY TracksType
<1>2. num \in Injection(some, 1 .. N)
  <2>1. \A f \in some : f.number \in 1 .. N /\ f = File(i, f.number)
    BY FilesHaveNumbers DEF Kind
  <2> HIDE DEF some
  <2>2. num \in [some -> 1 .. N]
    BY <2>1
  <2>3. \A f, g \in some : num[f] = num[g] => f = g
    BY <2>1
  <2> HIDE DEF num
  <2> QED BY <2>2, <2>3 DEF Injection, IsInjective
<1>3. IsFiniteSet(1 .. N)
  BY <1>1, FS_Interval
<1> HIDE DEF num
<1>4. IsFiniteSet(some)
  BY <1>2, <1>3, FS_Injection
<1>5. m \in Nat
  BY <1>4, FS_CardinalityType
<1>6. Listed(FilesOf(i), kind) = s
  BY DEF Listed, Kind, Rising
<1>7. s \in [1 .. m -> some] /\ Rising(s)
  BY RisingExists
<1> HIDE DEF s
<1>8. s \in Seq(some) /\ Len(s) = m /\ DOMAIN s = 1 .. m
  BY <1>5, <1>7
<1>9. \A f \in some : f.number \in Nat
  BY <1>1, FilesHaveNumbers DEF Kind
<1>10. s \in Injection(1 .. m, some)
  <2> SUFFICES ASSUME NEW j \in 1 .. m, NEW k \in 1 .. m, s[j] = s[k], j # k
               PROVE  FALSE
    BY <1>7, <1>8 DEF Injection, IsInjective
  <2>1. j < k \/ k < j
    BY <1>5
  <2>2. s[j].number \in Nat /\ s[k].number \in Nat
    BY <1>7, <1>9
  <2> QED BY <1>7, <1>8, <2>1, <2>2 DEF Rising
<1>11. Cardinality(1 .. m) = m
  BY <1>5, FS_Interval
<1>12. s \in Surjection(1 .. m, some)
  BY <1>4, <1>10, <1>11, FS_Injection
<1>13. \A f \in some : \E k \in 1 .. m : s[k] = f
  BY <1>12 DEF Surjection
<1> QED BY <1>5, <1>6, <1>7, <1>8, <1>13

\* Each file has one of two kinds.
LEMMA TwoKinds ==
  ASSUME NEW i \in Images
  PROVE  /\ FilesOf(i) = Kind(i, "audio") \union Kind(i, "data")
         /\ Cardinality(Kind(i, "audio")) + Cardinality(Kind(i, "data"))
              = Len(AllTracks(i))
<1> DEFINE N == Len(AllTracks(i))
           a == Kind(i, "audio")
           d == Kind(i, "data")
           all == FilesOf(i)
           num  == [n \in 1 .. N |-> File(i, n)]
<1>1. N \in Nat
  BY TracksType
<1>2. \A f \in all : f.number \in 1 .. N /\ f = File(i, f.number)
  BY FilesHaveNumbers
<1>3. \A n \in 1 .. N : File(i, n) \in all /\ File(i, n).number = n
        /\ File(i, n).kind \in {"audio", "data"}
  BY FilesAreNumbered
<1>4. all = a \union d /\ a \cap d = {}
  BY <1>2, <1>3 DEF Kind
<1> HIDE DEF all, a, d
<1>5. num \in Bijection(1 .. N, all)
  <2>1. num \in [1 .. N -> all]
    BY <1>3
  <2>2. \A j, k \in 1 .. N : num[j] = num[k] => j = k
    BY <1>3
  <2>3. \A f \in all : \E k \in 1 .. N : num[k] = f
    BY <1>2
  <2> HIDE DEF num
  <2> QED BY <2>1, <2>2, <2>3 DEF Bijection, Injection, Surjection, IsInjective
<1>6. IsFiniteSet(1 .. N) /\ Cardinality(1 .. N) = N
  BY <1>1, FS_Interval, SMTT(30)
<1>7. IsFiniteSet(all) /\ Cardinality(all) = N
  BY <1>5, <1>6, FS_Bijection DEF ExistsBijection
<1>8. a \in SUBSET all /\ d \in SUBSET all
  BY <1>4
<1>9. IsFiniteSet(a) /\ IsFiniteSet(d)
  BY <1>7, <1>8, FS_Subset
<1>10. Cardinality(a) \in Nat /\ Cardinality(d) \in Nat
  BY <1>9, FS_CardinalityType
<1>11. Cardinality(a \union d) = Cardinality(a) + Cardinality(d) - Cardinality({})
  BY <1>4, <1>9, FS_Union
<1>12. Cardinality({}) = 0
  BY FS_EmptySet
<1> QED BY <1>4, <1>7, <1>10, <1>11, <1>12 DEF all, a, d

\* The tracks of a kind are the m behind the first lo.
Block(i, kind, lo, m) ==
  \A n \in 1 .. Len(AllTracks(i)) :
    AllTracks(i)[n].kind = kind <=> n \in lo + 1 .. lo + m

\* The files of m tracks that follow one another
FilesFrom(i, lo, m) == [k \in 1 .. m |-> File(i, lo + k)]

\* Where the tracks of a kind follow one another, Listed has them in their
\* order on the disc.
LEMMA ListedBlock ==
  ASSUME NEW i \in Images, NEW kind, NEW lo \in Nat, NEW m \in Nat,
         lo + m <= Len(AllTracks(i)), Block(i, kind, lo, m)
  PROVE  Listed(FilesOf(i), kind) = FilesFrom(i, lo, m)
<1> DEFINE N    == Len(AllTracks(i))
           some == Kind(i, kind)
           s    == Listed(FilesOf(i), kind)
           num  == [k \in 1 .. m |-> File(i, lo + k)]
<1>1. N \in Nat /\ lo + m <= N
  BY TracksType
<1>2. \A k \in 1 .. m : lo + k \in 1 .. N /\ lo + k \in lo + 1 .. lo + m
  BY <1>1
<1>3. \A f \in some : f.number \in lo + 1 .. lo + m /\ f = File(i, f.number)
  <2> TAKE f \in some
  <2>1. f.number \in 1 .. N /\ f = File(i, f.number) /\ f.kind = kind
    BY FilesHaveNumbers DEF Kind
  <2>2. AllTracks(i)[f.number].kind = kind
    BY <2>1, FilesAreNumbered
  <2> QED BY <2>1, <2>2 DEF Block
<1>4. \A k \in 1 .. m : num[k] \in some /\ num[k].number = lo + k
  <2> TAKE k \in 1 .. m
  <2>1. /\ File(i, lo + k) \in FilesOf(i) /\ File(i, lo + k).number = lo + k
        /\ File(i, lo + k).kind = AllTracks(i)[lo + k].kind
    BY <1>2, FilesAreNumbered
  <2>2. AllTracks(i)[lo + k].kind = kind
    BY <1>2 DEF Block
  <2> QED BY <2>1, <2>2 DEF Kind
<1>5. num \in Bijection(1 .. m, some)
  <2>1. num \in [1 .. m -> some]
    BY <1>4
  <2>2. \A j, k \in 1 .. m : num[j] = num[k] => j = k
    <3> SUFFICES ASSUME NEW j \in 1 .. m, NEW k \in 1 .. m, num[j] = num[k]
                 PROVE  j = k
      OBVIOUS
    <3>1. lo + j = lo + k
      BY <1>4
    <3> QED BY <3>1
  <2>3. \A f \in some : \E k \in 1 .. m : num[k] = f
    <3> TAKE f \in some
    <3>1. f.number - lo \in 1 .. m /\ lo + (f.number - lo) = f.number
      BY <1>3
    <3>2. num[f.number - lo] = f
      BY <1>3, <3>1
    <3> QED BY <3>1, <3>2
  <2> HIDE DEF num, some
  <2> QED BY <2>1, <2>2, <2>3 DEF Bijection, Injection, Surjection, IsInjective
<1>6. Cardinality(some) = m
  BY <1>5, FS_CountingElements DEF ExistsBijection
<1>7. s \in Seq(some) /\ Len(s) = m /\ Rising(s)
  BY <1>6, ListedFiles
<1> HIDE DEF s, some
<1> DEFINE e == [k \in 1 .. m |-> s[k].number]
<1>8. \A k \in 1 .. m : s[k] \in some /\ s[k].number \in lo + 1 .. lo + m
  BY <1>3, <1>7
<1>9. DOMAIN s = 1 .. m
  BY <1>7
<1>10. \A j, k \in 1 .. m : j < k => e[j] < e[k]
  BY <1>7, <1>9 DEF Rising
<1>11. \A k \in 1 .. m : e[k] \in lo + 1 .. lo + m
  BY <1>8
<1>12. e \in [1 .. m -> Nat]
  BY <1>8
<1> HIDE DEF e
<1>13. \A k \in 1 .. m : e[k] = lo + k
  BY <1>10, <1>11, <1>12, NoGaps
<1>14. \A k \in 1 .. m : s[k] = File(i, lo + k)
  BY <1>3, <1>8, <1>13 DEF e
<1> QED BY <1>7, <1>9, <1>14 DEF s, FilesFrom

-----------------------------------------------------------------------------
(* Layouts: the files of an image in two sessions                          *)

\* What DetectLayout makes of the files of an image: all of them, each once,
\* something to write in each session, and the sessions of the image where
\* its layout is one of those supported.
LayoutOf(i, a) ==
  /\ a \in Layouts
  /\ TotalSize(a.first) > 0 /\ TotalSize(a.second) > 0
  /\ LET all == a.first \o a.second
     IN  /\ {all[n] : n \in DOMAIN all} = FilesOf(i)
         /\ Len(all) = Len(AllTracks(i))
  /\ Supported(i) =>
       LET first == Len(Sessions[i][1])
       IN  /\ a.first = [n \in 1 .. first |-> File(i, n)]
           /\ a.second = [n \in DOMAIN Sessions[i][2] |-> File(i, first + n)]

\* Where the recorder is in the session it writes
HeadOK ==
  /\ head.tracks <= Len(Current)
  /\ head.tracks < Len(Current) => head.units <= SizeOf(Current[head.tracks + 1])
  /\ head.tracks = Len(Current) => head.units = 0

\* How far the bar is
BarOK ==
  /\ bar < 2 * Total
  /\ session = 1 => bar <= 2 * TotalSize(layout.first)
  /\ BarIsHonest

\* What a job has written
WrittenOK ==
  LET n == Len(disc.sessions)
  IN  /\ pc = "write" => session \in 1 .. 2
      /\ pc = "write" /\ session = 2 =>
           /\ n >= 1 /\ disc.sessions[n] = layout.first
           /\ before >= 1
      /\ pc = "done" =>
           n >= 2 /\ disc.sessions[n - 1] = layout.first /\ disc.sessions[n] = layout.second

\* The types of the variables of a job
JobTyped ==
  /\ request \in [image : Images, check : BOOLEAN]
  /\ layout \in Layouts
  /\ head \in [tracks : Nat, units : Nat] /\ before \in Nat
  /\ disc \in [sessions : Seq(Seq(AllFiles)), open : BOOLEAN]
  /\ session \in 0 .. 2 /\ bar \in Nat

\* The job: its layout is one of the image, and the recorder, the disc and the
\* bar are where the layout says.
JobInv ==
  /\ JobTyped
  /\ pc \in {"write", "done"} => LayoutOf(request.image, layout)
  /\ pc \notin {"write", "done"} => head = AtStart /\ bar = 0
  /\ pc = "write" => HeadOK /\ BarOK
  /\ WrittenOK

-----------------------------------------------------------------------------

\* The tracks of an image of two sessions, one session behind the other
LEMMA TwoSessions ==
  ASSUME NEW i \in Images, Len(Sessions[i]) = 2
  PROVE  LET A == Sessions[i][1]
             B == Sessions[i][2]
             s == AllTracks(i)
         IN  /\ A \in Seq(Tracks) /\ B \in Seq(Tracks)
             /\ Len(A) \in Nat /\ Len(B) \in Nat /\ Len(s) = Len(A) + Len(B)
             /\ \A n \in 1 .. Len(A) : s[n] = A[n]
             /\ \A n \in 1 .. Len(B) : s[Len(A) + n] = B[n]
<1> DEFINE A == Sessions[i][1]
           B == Sessions[i][2]
           T == Seq(Tracks)
<1>1. Sessions[i] \in Seq(T)
  BY ImagesAssumption
<1> HIDE DEF T
<1>2. A \in T /\ B \in T /\ Sessions[i] = <<A, B>>
  BY <1>1, TwoElements
<1>3. A \in Seq(Tracks) /\ B \in Seq(Tracks)
  BY <1>2 DEF T
<1> HIDE DEF A, B
<1>4. AllTracks(i) = A \o B
  BY <1>2, <1>3, FlattenPair DEF AllTracks
<1>5. Len(A) \in Nat /\ Len(B) \in Nat
  BY <1>3
<1>6. Len(A \o B) = Len(A) + Len(B)
      /\ \A n \in 1 .. Len(A) + Len(B) :
           (A \o B)[n] = IF n <= Len(A) THEN A[n] ELSE B[n - Len(A)]
  BY <1>3, ConcatProperties, Zenon
<1> DEFINE C == A \o B
<1> HIDE DEF C
<1>7. \A n \in 1 .. Len(A) : C[n] = A[n]
  <2> TAKE n \in 1 .. Len(A)
  <2>1. n \in 1 .. Len(A) + Len(B) /\ n <= Len(A)
    BY <1>5
  <2> QED BY <2>1, <1>6 DEF C
<1>8. \A n \in 1 .. Len(B) : C[Len(A) + n] = B[n]
  <2> TAKE n \in 1 .. Len(B)
  <2> DEFINE k == Len(A) + n
  <2>1. k \in 1 .. Len(A) + Len(B) /\ ~ (k <= Len(A)) /\ k - Len(A) = n
    BY <1>5
  <2> HIDE DEF k
  <2>2. C[k] = B[n]
    BY <2>1, <1>6 DEF C
  <2> QED BY <2>2 DEF k
<1> QED BY <1>3, <1>4, <1>5, <1>6, <1>7, <1>8 DEF A, B, C

\* Nothing is left out and nothing comes twice.
LEMMA AllArranged ==
  ASSUME NEW i \in Images, Arrange(FilesOf(i)) # NoLayout
  PROVE  LET a   == Arrange(FilesOf(i))
             all == a.first \o a.second
         IN  /\ a \in Layouts
             /\ {all[n] : n \in DOMAIN all} = FilesOf(i)
             /\ Len(all) = Len(AllTracks(i))
<1> DEFINE F     == FilesOf(i)
           N     == Len(AllTracks(i))
           audio == Listed(F, "audio")
           data  == Listed(F, "data")
           ka    == Kind(i, "audio")
           kd    == Kind(i, "data")
           a     == Arrange(F)
           all   == a.first \o a.second
<1>1. /\ Cardinality(ka) \in Nat /\ audio \in Seq(ka) /\ Len(audio) = Cardinality(ka)
      /\ \A f \in ka : \E k \in 1 .. Cardinality(ka) : audio[k] = f
  BY ListedFiles
<1>2. /\ Cardinality(kd) \in Nat /\ data \in Seq(kd) /\ Len(data) = Cardinality(kd)
      /\ \A f \in kd : \E k \in 1 .. Cardinality(kd) : data[k] = f
  BY ListedFiles
<1>3. F = ka \union kd /\ Cardinality(ka) + Cardinality(kd) = N
  BY TwoKinds
<1>4. F \subseteq AllFiles
  BY DEF AllFiles
<1>5. a = IF audio # <<>> /\ data # <<>> THEN [first |-> audio, second |-> data]
          ELSE IF audio = <<>> /\ Len(data) >= 2
               THEN [first |-> <<data[1]>>, second |-> Tail(data)]
          ELSE NoLayout
  BY DEF Arrange
<1> HIDE DEF F, ka, kd, audio, data, a, N
<1>6. audio \in Seq(F) /\ data \in Seq(F)
  BY <1>1, <1>2, <1>3
<1>7. a # NoLayout
  BY DEF a, F
<1>8. CASE audio # <<>> /\ data # <<>>
  <2>1. a.first = audio /\ a.second = data /\ a = [first |-> audio, second |-> data]
    BY <1>5, <1>8
  <2>2. a \in Layouts
    BY <2>1, <1>4, <1>6 DEF Layouts
  <2> DEFINE c == audio \o data
  <2>3. c \in Seq(F) /\ Len(c) = Len(audio) + Len(data)
        /\ \A k \in 1 .. Len(audio) + Len(data) :
             c[k] = IF k <= Len(audio) THEN audio[k] ELSE data[k - Len(audio)]
    BY <1>6, ConcatProperties, Zenon
  <2> HIDE DEF c
  <2>4. Len(c) = N
    BY <2>3, <1>1, <1>2, <1>3
  <2>5. \A f \in F : \E k \in DOMAIN c : c[k] = f
    <3> TAKE f \in F
    <3>1. CASE f \in ka
      <4>1. PICK k \in 1 .. Len(audio) : audio[k] = f
        BY <1>1, <3>1
      <4>2. k \in 1 .. Len(audio) + Len(data) /\ k <= Len(audio)
        BY <1>1, <1>2
      <4>3. c[k] = f /\ k \in DOMAIN c
        BY <4>1, <4>2, <2>3
      <4> QED BY <4>3
    <3>2. CASE f \in kd
      <4>1. PICK k \in 1 .. Len(data) : data[k] = f
        BY <1>2, <3>2
      <4> DEFINE j == Len(audio) + k
      <4>2. j \in 1 .. Len(audio) + Len(data) /\ ~ (j <= Len(audio)) /\ j - Len(audio) = k
        BY <1>1, <1>2
      <4> HIDE DEF j
      <4>3. c[j] = f /\ j \in DOMAIN c
        BY <4>1, <4>2, <2>3
      <4> QED BY <4>3
    <3> QED BY <3>1, <3>2, <1>3
  <2>6. \A k \in DOMAIN c : c[k] \in F
    BY <2>3
  <2>7. {c[n] : n \in DOMAIN c} = F
    BY <2>5, <2>6
  <2> QED BY <2>1, <2>2, <2>4, <2>7 DEF c, a, F, N
<1>9. CASE ~ (audio # <<>> /\ data # <<>>)
  <2>1. audio = <<>> /\ Len(data) >= 2 /\ a = [first |-> <<data[1]>>, second |-> Tail(data)]
    BY <1>5, <1>7, <1>9
  <2>2. data # <<>> /\ Len(audio) = 0
    BY <2>1, <1>6
  <2>3. /\ data[1] \in F /\ <<data[1]>> \in Seq(F) /\ Tail(data) \in Seq(F)
        /\ data = <<data[1]>> \o Tail(data)
    BY <2>2, <1>6, FirstAndTail
  <2>4. a.first = <<data[1]>> /\ a.second = Tail(data)
    BY <2>1
  <2>5. a \in Layouts
    <3> DEFINE p == <<data[1]>>
               q == Tail(data)
    <3>1. p \in Seq(F) /\ q \in Seq(F) /\ a = [first |-> p, second |-> q]
      BY <2>1, <2>3
    <3> HIDE DEF p, q
    <3>2. p \in Seq(AllFiles) /\ q \in Seq(AllFiles)
      BY <3>1, <1>4
    <3> QED BY <3>1, <3>2 DEF Layouts
  <2>6. Len(data) = N
    BY <2>2, <1>1, <1>2, <1>3
  <2>7. \A f \in F : f \in kd
    <3>1. ka = {}
      BY <1>1, <2>2
    <3> QED BY <3>1, <1>3
  <2>8. \A f \in F : \E k \in DOMAIN data : data[k] = f
    BY <1>2, <2>7
  <2>9. \A k \in DOMAIN data : data[k] \in F
    BY <1>6
  <2>10. {data[n] : n \in DOMAIN data} = F
    BY <2>8, <2>9
  <2>11. all = data
    BY <2>3, <2>4
  <2> QED BY <2>5, <2>6, <2>10, <2>11 DEF a, F, N
<1> QED BY <1>8, <1>9

\* A supported image is arranged as it was.
LEMMA SupportedArranged ==
  ASSUME NEW i \in Images, Arrange(FilesOf(i)) # NoLayout, Supported(i)
  PROVE  LET a     == Arrange(FilesOf(i))
             first == Len(Sessions[i][1])
         IN  /\ a.first = [n \in 1 .. first |-> File(i, n)]
             /\ a.second = [n \in DOMAIN Sessions[i][2] |-> File(i, first + n)]
<1> DEFINE F     == FilesOf(i)
           s     == AllTracks(i)
           N     == Len(AllTracks(i))
           A     == Sessions[i][1]
           B     == Sessions[i][2]
           l     == Len(Sessions[i][1])
           m     == Len(Sessions[i][2])
           audio == Listed(F, "audio")
           data  == Listed(F, "data")
           a     == Arrange(F)
<1>1. /\ A \in Seq(Tracks) /\ B \in Seq(Tracks)
      /\ l \in Nat /\ m \in Nat /\ N = l + m
      /\ \A n \in 1 .. l : s[n] = A[n]
      /\ \A n \in 1 .. m : s[l + n] = B[n]
  BY TwoSessions DEF Supported
<1>2. DOMAIN A = 1 .. l /\ DOMAIN B = 1 .. m /\ l # 0
  BY <1>1 DEF Supported
<1>3. \A n \in 1 .. m : B[n].kind = "data"
  BY <1>2 DEF Supported
<1>4. \/ \A n \in 1 .. l : A[n].kind = "audio"
      \/ l = 1
  BY <1>2 DEF Supported
<1>5. a = IF audio # <<>> /\ data # <<>> THEN [first |-> audio, second |-> data]
          ELSE IF audio = <<>> /\ Len(data) >= 2
               THEN [first |-> <<data[1]>>, second |-> Tail(data)]
          ELSE NoLayout
  BY DEF Arrange
<1>6. a # NoLayout
  OBVIOUS
<1>7. \A n \in l + 1 .. l + m : s[n].kind = "data"
  <2> TAKE n \in l + 1 .. l + m
  <2> DEFINE k == n - l
  <2>1. k \in 1 .. m /\ n = l + k
    <3> HIDE DEF l, m
    <3> QED BY <1>1
  <2> HIDE DEF k
  <2> QED BY <2>1, <1>1, <1>3
<1> HIDE DEF F, A, B, s, l, m, audio, data, a, N
<1>8. \A n \in 1 .. N : n \in 1 .. l \/ n \in l + 1 .. l + m
  BY <1>1
<1>0. N = Len(AllTracks(i)) /\ s = AllTracks(i) /\ audio = Listed(FilesOf(i), "audio")
      /\ data = Listed(FilesOf(i), "data")
  BY DEF N, s, audio, data, F
<1>9. CASE \A n \in 1 .. l : A[n].kind = "audio"
  <2>1. \A n \in 1 .. N : s[n].kind = "audio" <=> n \in 0 + 1 .. 0 + l
    <3> TAKE n \in 1 .. N
    <3>1. CASE n \in 1 .. l
      BY <3>1, <1>1, <1>9
    <3>2. CASE n \in l + 1 .. l + m
      BY <3>2, <1>1, <1>7
    <3> QED BY <3>1, <3>2, <1>8
  <2>2. \A n \in 1 .. N : s[n].kind = "data" <=> n \in l + 1 .. l + m
    <3> TAKE n \in 1 .. N
    <3>1. CASE n \in 1 .. l
      BY <3>1, <1>1, <1>9
    <3>2. CASE n \in l + 1 .. l + m
      BY <3>2, <1>1, <1>7
    <3> QED BY <3>1, <3>2, <1>8
  <2>3. audio = [k \in 1 .. l |-> File(i, 0 + k)]
    <3>1. 0 \in Nat /\ l \in Nat /\ 0 + l <= N
      BY <1>1
    <3>2. Block(i, "audio", 0, l)
      BY <2>1, <1>0 DEF Block
    <3>3. audio = FilesFrom(i, 0, l)
      BY <3>1, <3>2, <1>0, ListedBlock
    <3> QED BY <3>3 DEF FilesFrom
  <2>4. data = [k \in 1 .. m |-> File(i, l + k)]
    <3>1. l \in Nat /\ m \in Nat /\ l + m <= N
      BY <1>1
    <3>2. Block(i, "data", l, m)
      BY <2>2, <1>0 DEF Block
    <3>3. data = FilesFrom(i, l, m)
      BY <3>1, <3>2, <1>0, ListedBlock
    <3> QED BY <3>3 DEF FilesFrom
  <2>5. audio = [k \in 1 .. l |-> File(i, k)]
    <3>1. \A k \in 1 .. l : 0 + k = k
      BY <1>1
    <3> QED BY <2>3, <3>1
  <2>6. audio # <<>>
    <3>1. DOMAIN audio = 1 .. l /\ 1 \in 1 .. l
      BY <2>5, <1>1, <1>2
    <3>2. DOMAIN <<>> = {}
      OBVIOUS
    <3> QED BY <3>1, <3>2, Zenon
  <2>7. a = [first |-> audio, second |-> data]
    BY <2>6, <1>5, <1>6
  <2>8. a.first = audio /\ a.second = data
    BY <2>7
  <2> QED BY <2>4, <2>5, <2>8, <1>2 DEF a, F, A, B, l, m
<1>10. CASE ~ \A n \in 1 .. l : A[n].kind = "audio"
  <2>1. l = 1 /\ 1 \in 1 .. l
    BY <1>4, <1>10
  <2>2. s[1].kind = "data"
    <3>1. A[1].kind # "audio"
      BY <1>10, <2>1
    <3>2. A[1] \in Tracks /\ s[1] = A[1]
      BY <1>1, <2>1 DEF l, A
    <3> QED BY <3>1, <3>2 DEF Tracks
  <2>3. \A n \in 1 .. N : s[n].kind = "data"
    <3> TAKE n \in 1 .. N
    <3>1. CASE n \in 1 .. l
      <4>1. n = 1
        BY <3>1, <2>1
      <4> QED BY <4>1, <2>2
    <3>2. CASE n \in l + 1 .. l + m
      BY <3>2, <1>7
    <3> QED BY <3>1, <3>2, <1>8
  <2>4. audio = [k \in 1 .. 0 |-> File(i, 0 + k)]
    <3>1. 0 \in Nat /\ 0 + 0 <= N
      BY <1>1
    <3>2. \A n \in 1 .. N : s[n].kind = "audio" <=> n \in 0 + 1 .. 0 + 0
      BY <2>3
    <3>3. Block(i, "audio", 0, 0)
      BY <3>2, <1>0 DEF Block
    <3>4. audio = FilesFrom(i, 0, 0)
      BY <3>1, <3>3, <1>0, ListedBlock
    <3> QED BY <3>4 DEF FilesFrom
  <2>5. data = [k \in 1 .. N |-> File(i, 0 + k)]
    <3>1. 0 \in Nat /\ N \in Nat /\ 0 + N <= N
      BY <1>1
    <3>2. \A n \in 1 .. N : s[n].kind = "data" <=> n \in 0 + 1 .. 0 + N
      <4> TAKE n \in 1 .. N
      <4>1. n \in 0 + 1 .. 0 + N
        BY <3>1
      <4> QED BY <4>1, <2>3
    <3>3. Block(i, "data", 0, N)
      BY <3>2, <1>0 DEF Block
    <3>4. data = FilesFrom(i, 0, N)
      BY <3>1, <3>3, <1>0, ListedBlock
    <3> QED BY <3>4 DEF FilesFrom
  <2>6. data = [k \in 1 .. N |-> File(i, k)]
    <3>1. \A k \in 1 .. N : 0 + k = k
      BY <1>1
    <3> QED BY <2>5, <3>1
  <2>7. audio = <<>>
    <3>1. 1 .. 0 = {}
      OBVIOUS
    <3> QED BY <2>4, <3>1
  <2>8. a = [first |-> <<data[1]>>, second |-> Tail(data)]
    BY <2>7, <1>5, <1>6
  <2>9. N = m + 1 /\ N \in Nat
    BY <1>1, <2>1
  <2>10. data \in Seq(AllFiles) /\ Len(data) = N /\ \A k \in 1 .. N : data[k] = File(i, k)
    <3>1. \A k \in 1 .. N : File(i, k) \in AllFiles
      <4> TAKE k \in 1 .. N
      <4>1. File(i, k) \in FilesOf(i)
        BY FilesAreNumbered DEF N
      <4> QED BY <4>1 DEF AllFiles
    <3>2. DOMAIN data = 1 .. N /\ \A k \in 1 .. N : data[k] = File(i, k)
      BY <2>6
    <3>3. data \in [1 .. N -> AllFiles]
      BY <3>1, <2>6
    <3> QED BY <3>2, <3>3, <2>9
  <2>11. /\ Tail(data) \in Seq(AllFiles) /\ Len(Tail(data)) = m
         /\ \A k \in 1 .. m : Tail(data)[k] = data[k + 1]
    <3>1. data # <<>> /\ Len(data) - 1 = m
      BY <2>9, <2>10, <1>1
    <3> QED BY <3>1, <2>10, FirstAndTail
  <2> DEFINE t == Tail(data)
             h == <<data[1]>>
             u == [n \in 1 .. m |-> File(i, l + n)]
  <2>12. t = u
    <3>1. DOMAIN t = 1 .. m
      BY <2>11
    <3> HIDE DEF t
    <3>2. \A k \in 1 .. m : t[k] = File(i, l + k)
      <4> TAKE k \in 1 .. m
      <4>1. k + 1 \in 1 .. N /\ k + 1 = l + k
        BY <2>1, <2>9, <1>1
      <4> QED BY <4>1, <2>10, <2>11 DEF t
    <3>3. t = [k \in 1 .. m |-> t[k]]
      <4>1. t \in Seq(AllFiles)
        BY <2>11 DEF t
      <4> QED BY <3>1, <4>1
    <3> QED BY <3>2, <3>3
  <2>13. h = [n \in 1 .. l |-> File(i, n)]
    <3> DEFINE v == [n \in 1 .. l |-> File(i, n)]
    <3>1. data[1] = File(i, 1)
      BY <2>9, <2>10, <1>1
    <3>2. DOMAIN h = 1 .. 1 /\ h[1] = File(i, 1) /\ h = [n \in 1 .. 1 |-> h[n]]
      BY <3>1
    <3>3. \A n \in 1 .. 1 : h[n] = File(i, n)
      BY <3>2
    <3> HIDE DEF h
    <3> QED BY <3>2, <3>3, <2>1
  <2>14. a.first = h /\ a.second = t
    BY <2>8
  <2> QED BY <2>12, <2>13, <2>14, <1>2 DEF a, F, A, B, l, m
<1> QED BY <1>9, <1>10

\* DetectLayout refuses a layout or makes it one of the image.
LEMMA Detected ==
  ASSUME NEW i \in Images, DetectLayout(FilesOf(i)) # NoLayout
  PROVE  LayoutOf(i, DetectLayout(FilesOf(i)))
<1> DEFINE a == Arrange(FilesOf(i))
<1>1. /\ DetectLayout(FilesOf(i)) = a
      /\ TotalSize(a.first) # 0 /\ TotalSize(a.second) # 0
  BY DEF DetectLayout
<1>2. a # NoLayout
  BY <1>1
<1>3. a \in Layouts
  BY <1>2, AllArranged
<1>4. TotalSize(a.first) \in Nat /\ TotalSize(a.second) \in Nat
  <2>1. a.first \in Seq(AllFiles) /\ a.second \in Seq(AllFiles)
    BY <1>3 DEF Layouts
  <2> QED BY <2>1, TotalType
<1>5. TotalSize(a.first) > 0 /\ TotalSize(a.second) > 0
  BY <1>1, <1>4
<1>6. LET all == a.first \o a.second
      IN  /\ {all[n] : n \in DOMAIN all} = FilesOf(i)
          /\ Len(all) = Len(AllTracks(i))
  BY <1>2, AllArranged, Zenon
<1>7. Supported(i) =>
        LET first == Len(Sessions[i][1])
        IN  /\ a.first = [n \in 1 .. first |-> File(i, n)]
            /\ a.second = [n \in DOMAIN Sessions[i][2] |-> File(i, first + n)]
  BY <1>2, SupportedArranged, Zenon
<1> HIDE DEF a
<1>8. LayoutOf(i, a)
  BY <1>3, <1>5, <1>6, <1>7, Zenon DEF LayoutOf
<1> QED BY <1>1, <1>8

-----------------------------------------------------------------------------
(* The bar                                                                 *)

\* The smaller of two numbers is one of them.
LEMMA SmallerOfTwo ==
  ASSUME NEW a \in Int, NEW b \in Int
  PROVE  /\ Min({a, b}) \in {a, b} /\ Min({a, b}) <= a /\ Min({a, b}) <= b
<1> DEFINE T == {a, b}
<1>1. \E x \in T : \A y \in T : x <= y
  <2>1. CASE a <= b
    BY <2>1
  <2>2. CASE ~ (a <= b)
    BY <2>2
  <2> QED BY <2>1, <2>2
<1> QED BY <1>1 DEF Min

\* So is the larger.
LEMMA LargerOfTwo ==
  ASSUME NEW a \in Int, NEW b \in Int
  PROVE  /\ Max({a, b}) \in {a, b} /\ a <= Max({a, b}) /\ b <= Max({a, b})
<1> DEFINE T == {a, b}
<1>1. \E x \in T : \A y \in T : x >= y
  <2>1. CASE a >= b
    BY <2>1
  <2>2. CASE ~ (a >= b)
    BY <2>2
  <2> QED BY <2>1, <2>2
<1> QED BY <1>1 DEF Max

\* Products grow with their factors.
LEMMA ProductGrows ==
  ASSUME NEW w \in Nat, NEW u \in Nat, NEW z \in Nat, u <= z
  PROVE  w * u \in Nat /\ w * u <= w * z
OBVIOUS

\* A share of something is not more than all of it, and the share of a track
\* is what has been written of it.
LEMMA FractionBound ==
  ASSUME NEW w \in Nat, NEW u \in Nat, NEW z \in Nat, u <= z
  PROVE  /\ Fraction(w, u, z) \in Nat /\ Fraction(w, u, z) <= w
         /\ Fraction(2 * z, u, z) <= 2 * u
<1>1. CASE z = 0
  BY <1>1 DEF Fraction
<1>2. CASE z # 0
  <2>1. w * u \in Nat /\ w * u <= w * z
    BY ProductGrows
  <2>2. (w * u) \div z \in Nat
    BY <1>2, <2>1
  <2>3. (w * u) \div z <= w
    BY <1>2, <2>1
  <2>4. ((2 * z) * u) \div z <= 2 * u
    BY <1>2
  <2> QED BY <1>2, <2>2, <2>3, <2>4 DEF Fraction
<1> QED BY <1>1, <1>2

\* What there is to write while a session is written
LEMMA CurrentType ==
  ASSUME JobTyped, LayoutOf(request.image, layout), session \in 1 .. 2
  PROVE  /\ Current \in Seq(AllFiles) /\ Len(Current) \in Nat \ {0}
         /\ TotalSize(Current) \in Nat \ {0} /\ PriorBytes \in Nat
         /\ PriorBytes + TotalSize(Current) <= Total
         /\ session = 1 => PriorBytes = 0 /\ Current = layout.first
         /\ TotalSize(layout.first) \in Nat \ {0}
         /\ TotalSize(layout.second) \in Nat \ {0} /\ Total \in Nat \ {0}
<1>1. layout.first \in Seq(AllFiles) /\ layout.second \in Seq(AllFiles)
  BY DEF JobTyped, Layouts
<1>2. TotalSize(layout.first) \in Nat \ {0} /\ TotalSize(layout.second) \in Nat \ {0}
  BY <1>1, TotalType DEF LayoutOf
<1>3. Current \in Seq(AllFiles) /\ TotalSize(Current) \in Nat \ {0}
  BY <1>1, <1>2 DEF Current
<1>4. Current # <<>>
  <2>1. TotalSize(<<>>) = 0
    BY TotalEmpty
  <2> QED BY <1>3, <2>1
<1>5. Len(Current) \in Nat \ {0}
  BY <1>3, <1>4
<1>6. PriorBytes \in Nat /\ PriorBytes + TotalSize(Current) <= Total /\ Total \in Nat \ {0}
  BY <1>2 DEF PriorBytes, Current, Total
<1> QED BY <1>2, <1>3, <1>5, <1>6 DEF PriorBytes, Current

\* What a line of RetroBeam is taken for
LEMMA ReportedBounds ==
  ASSUME JobTyped, LayoutOf(request.image, layout), session \in 1 .. 2, HeadOK,
         head.tracks < Len(Current)
  PROVE  /\ Reported \in Nat
         /\ Reported <= 2 * (PriorBytes + TotalSize(Current))
         /\ before = 0 \/ Len(Current) = 1 =>
              Reported <= 2 * (PriorBytes + TotalSize(SubSeq(Current, 1, head.tracks))
                                 + head.units)
<1> DEFINE C == Current
           P == PriorBytes
           n == Len(C)
           T(k) == TotalSize(SubSeq(C, 1, k))
           t == head.tracks
           u == head.units
           x == TrackIndex
<1>1. C \in Seq(AllFiles) /\ n \in Nat \ {0} /\ P \in Nat /\ TotalSize(C) \in Nat
  BY CurrentType
<1>2. t \in Nat /\ u \in Nat /\ before \in Nat /\ t < n /\ u <= SizeOf(C[t + 1])
  BY DEF JobTyped, HeadOK
<1>3. x \in {before + t + 1, n} /\ x <= before + t + 1 /\ x <= n
  <2>1. before + t + 1 \in Int /\ n \in Int
    BY <1>1, <1>2
  <2> HIDE DEF n, t, C
  <2>2. x = Min({before + t + 1, n})
    BY DEF TrackIndex, n, t, C
  <2> HIDE DEF x
  <2> QED BY <2>1, <2>2, SmallerOfTwo
<1>4. Reported = 2 * P + 2 * T(x - 1) + Fraction(2 * SizeOf(C[x]), u, SizeOf(C[t + 1]))
  BY DEF Reported
<1>5. /\ \A k \in 0 .. n : T(k) \in Nat
      /\ \A k \in 1 .. n : T(k) = T(k - 1) + SizeOf(C[k])
      /\ \A k \in 0 .. n : T(k) <= TotalSize(C)
  BY <1>1, TotalPrefix
<1>6. \A k \in 1 .. n : SizeOf(C[k]) \in Nat
  <2>1. \A k \in 1 .. n : C[k] \in AllFiles
    BY <1>1
  <2> QED BY <2>1, FileType
<1> HIDE DEF C, P, n, T, t, u, x
<1>7. x \in 1 .. n /\ t + 1 \in 1 .. n /\ x - 1 \in 0 .. n /\ t \in 0 .. n
  BY <1>1, <1>2, <1>3
<1> DEFINE w == SizeOf(C[x])
           z == SizeOf(C[t + 1])
           f == Fraction(2 * w, u, z)
<1>8. w \in Nat /\ z \in Nat /\ 2 * w \in Nat /\ u \in Nat /\ u <= z
  BY <1>2, <1>6, <1>7
<1> HIDE DEF w, z
<1>9. f \in Nat /\ f <= 2 * w /\ Fraction(2 * z, u, z) <= 2 * u
  BY <1>8, FractionBound
<1>10. Reported = 2 * P + 2 * T(x - 1) + f
  BY <1>4 DEF w, z
<1> HIDE DEF f
<1>11. T(x - 1) \in Nat /\ T(x) = T(x - 1) + w /\ T(x) <= TotalSize(C) /\ T(x) \in Nat
  <2>1. x \in 0 .. n
    BY <1>7
  <2> QED BY <2>1, <1>5, <1>7 DEF w
<1> DEFINE g == T(x - 1)
           c == TotalSize(C)
           R == Reported
<1>b. R = 2 * P + 2 * g + f /\ g + w <= c /\ g \in Nat /\ c \in Nat
  BY <1>1, <1>10, <1>11
<1> HIDE DEF g, c, R
<1>12. R \in Nat /\ R <= 2 * (P + c)
  BY <1>1, <1>8, <1>9, <1>b
<1>13. ASSUME before = 0 \/ n = 1 PROVE R <= 2 * (P + T(t) + u)
  <2>1. x = t + 1 /\ x - 1 = t
    BY <1>1, <1>2, <1>3, <1>13
  <2>2. w = z
    BY <2>1 DEF w, z
  <2>3. f <= 2 * u
    BY <2>2, <1>9 DEF f
  <2>4. T(t) = g
    BY <2>1 DEF g
  <2>5. R <= 2 * (P + g + u)
    BY <2>3, <1>1, <1>8, <1>9, <1>b
  <2> QED BY <2>4, <2>5
<1> QED BY <1>12, <1>13 DEF C, P, n, T, t, u, c, R

\* The bar follows the line, never back and never to the end.
LEMMA ParseKeeps ==
  ASSUME JobInv, ParseLine
  PROVE  JobInv'
<1>1. /\ pc = "write" /\ bar' = Parsed(Reported) /\ head.tracks < Len(Current)
      /\ UNCHANGED <<pc, request, layout, head, before, session, disc>>
  BY DEF ParseLine
<1>2. /\ JobTyped /\ LayoutOf(request.image, layout) /\ session \in 1 .. 2
      /\ HeadOK /\ BarOK
  BY <1>1 DEF JobInv, WrittenOK
<1>3. /\ TotalSize(Current) \in Nat \ {0} /\ PriorBytes \in Nat /\ Total \in Nat \ {0}
      /\ PriorBytes + TotalSize(Current) <= Total
      /\ session = 1 => PriorBytes = 0 /\ Current = layout.first
  BY <1>2, CurrentType
<1> DEFINE R == Reported
           e == 2 * Total - 1
           m == Min({R, e})
           h == 2 * (PriorBytes + TotalSize(SubSeq(Current, 1, head.tracks)) + head.units)
<1>4. /\ R \in Nat /\ R <= 2 * (PriorBytes + TotalSize(Current))
      /\ before = 0 \/ Len(Current) = 1 => R <= h
  BY <1>1, <1>2, ReportedBounds
<1>5. bar' = Max({bar, m})
  BY <1>1 DEF Parsed
<1>6. e \in Nat /\ bar \in Nat /\ e < 2 * Total
  BY <1>2, <1>3 DEF JobTyped
<1> HIDE DEF R, e, h
<1>7. m \in {R, e} /\ m <= R /\ m <= e
  BY <1>4, <1>6, SmallerOfTwo
<1> HIDE DEF m
<1>8. bar' \in {bar, m}
  BY <1>4, <1>5, <1>6, <1>7, LargerOfTwo
<1>9. bar' \in Nat /\ bar' < 2 * Total
  BY <1>2, <1>3, <1>4, <1>6, <1>7, <1>8 DEF BarOK
<1>10. session = 1 => bar' <= 2 * TotalSize(layout.first)
  <2> SUFFICES ASSUME session = 1 PROVE bar' <= 2 * TotalSize(layout.first)
    OBVIOUS
  <2>1. PriorBytes = 0 /\ Current = layout.first /\ TotalSize(layout.first) \in Nat
    BY <1>3
  <2>2. R <= 2 * TotalSize(layout.first)
    BY <2>1, <1>4
  <2>3. bar <= 2 * TotalSize(layout.first)
    BY <1>2 DEF BarOK
  <2> QED BY <2>1, <2>2, <2>3, <1>4, <1>6, <1>7, <1>8
<1>11. before = 0 \/ Len(Current) = 1 => bar' <= h
  <2> SUFFICES ASSUME before = 0 \/ Len(Current) = 1 PROVE bar' <= h
    OBVIOUS
  <2>1. R <= h /\ bar <= h
    BY <1>1, <1>2, <1>4 DEF BarOK, BarIsHonest, h
  <2>2. h \in Int
    <3>1. TotalSize(SubSeq(Current, 1, head.tracks)) \in Nat
      <4>1. head.tracks \in 0 .. Len(Current) /\ Current \in Seq(AllFiles)
        BY <1>1, <1>2, CurrentType DEF JobTyped
      <4> QED BY <4>1, TotalPrefix
    <3>2. head.units \in Nat
      BY <1>2 DEF JobTyped
    <3> QED BY <3>1, <3>2, <1>3 DEF h
  <2> QED BY <2>1, <2>2, <1>4, <1>6, <1>7, <1>8
<1>12. UNCHANGED <<Current, PriorBytes, Total>>
  BY <1>1 DEF Current, PriorBytes, Total
<1>13. BarIsHonest'
  BY <1>1, <1>11, <1>12 DEF BarIsHonest, h
<1>14. BarOK'
  BY <1>1, <1>9, <1>10, <1>12, <1>13 DEF BarOK
<1>15. HeadOK'
  BY <1>1, <1>2, <1>12 DEF HeadOK
<1>16. JobTyped' /\ WrittenOK'
  BY <1>1, <1>2, <1>9 DEF JobInv, JobTyped, WrittenOK
<1> QED BY <1>1, <1>2, <1>14, <1>15, <1>16 DEF JobInv

\* The head goes on; what is written grows.
LEMMA WriteKeeps ==
  ASSUME JobInv, WriteUnit
  PROVE  JobInv'
<1>1. /\ pc = "write" /\ head.tracks < Len(Current)
      /\ head' = IF head.units < SizeOf(Current[head.tracks + 1])
                 THEN [head EXCEPT !.units = @ + 1]
                 ELSE [tracks |-> head.tracks + 1, units |-> 0]
      /\ UNCHANGED <<pc, request, layout, before, session, bar, disc>>
  BY DEF WriteUnit
<1>2. /\ JobTyped /\ LayoutOf(request.image, layout) /\ session \in 1 .. 2
      /\ HeadOK /\ BarOK
  BY <1>1 DEF JobInv, WrittenOK
<1> DEFINE C == Current
           n == Len(C)
           P == PriorBytes
           T(k) == TotalSize(SubSeq(C, 1, k))
           t == head.tracks
           u == head.units
           z == SizeOf(C[t + 1])
<1>3. C \in Seq(AllFiles) /\ n \in Nat \ {0} /\ P \in Nat
  BY <1>2, CurrentType
<1>4. head \in [tracks : Nat, units : Nat] /\ t \in Nat /\ u \in Nat /\ t < n /\ u <= z
  BY <1>1, <1>2 DEF JobTyped, HeadOK
<1>5. t \in 0 .. n /\ t + 1 \in 1 .. n /\ t + 1 \in 0 .. n /\ (t + 1) - 1 = t
  <2> HIDE DEF n, t
  <2> QED BY <1>3, <1>4
<1>6. \A k \in 1 .. n : SizeOf(C[k]) \in Nat
  <2>1. \A k \in 1 .. n : C[k] \in AllFiles
    BY <1>3
  <2> QED BY <2>1, FileType
<1>7. z \in Nat
  BY <1>5, <1>6
<1>8. T(t) \in Nat /\ T(t + 1) \in Nat /\ T(t + 1) = T(t) + z
  <2>1. /\ \A k \in 0 .. n : T(k) \in Nat
        /\ \A k \in 1 .. n : T(k) = T(k - 1) + SizeOf(C[k])
    BY <1>3, TotalPrefix
  <2> HIDE DEF n, T, t, C
  <2>2. T(t + 1) = T((t + 1) - 1) + SizeOf(C[t + 1])
    BY <2>1, <1>5
  <2> QED BY <2>1, <2>2, <1>5
<1>9. UNCHANGED <<Current, PriorBytes, Total>>
  BY <1>1 DEF Current, PriorBytes, Total
<1>10. before = 0 \/ n = 1 => bar <= 2 * (P + T(t) + u)
  BY <1>1, <1>2 DEF BarOK, BarIsHonest
<1>11. bar \in Nat
  BY <1>2 DEF JobTyped
<1>12. \/ u < z /\ head' = [tracks |-> t, units |-> u + 1]
       \/ u = z /\ head' = [tracks |-> t + 1, units |-> 0]
  <2>1. [head EXCEPT !.units = @ + 1] = [tracks |-> t, units |-> u + 1]
    BY <1>4
  <2>2. CASE u < z
    BY <2>1, <2>2, <1>1
  <2>3. CASE ~ (u < z)
    <3>1. u = z
      <4> HIDE DEF u, z
      <4> QED BY <2>3, <1>4, <1>7
    <3> QED BY <2>3, <3>1, <1>1
  <2> QED BY <2>2, <2>3
<1> HIDE DEF C, n, P, T, t, u, z
<1>13. /\ head' \in [tracks : Nat, units : Nat]
       /\ head'.tracks <= n
       /\ head'.tracks < n => head'.units <= SizeOf(C[head'.tracks + 1])
       /\ head'.tracks = n => head'.units = 0
  <2>1. CASE u < z /\ head' = [tracks |-> t, units |-> u + 1]
    <3>1. head'.tracks = t /\ head'.units = u + 1
      BY <2>1
    <3>2. u + 1 <= z
      BY <2>1, <1>4, <1>7
    <3> QED BY <2>1, <3>1, <3>2, <1>3, <1>4 DEF z
  <2>2. CASE u = z /\ head' = [tracks |-> t + 1, units |-> 0]
    <3>1. head'.tracks = t + 1 /\ head'.units = 0
      BY <2>2
    <3>2. t + 1 < n => SizeOf(C[(t + 1) + 1]) \in Nat
      <4> SUFFICES ASSUME t + 1 < n PROVE (t + 1) + 1 \in 1 .. n
        BY <1>6
      <4> QED BY <1>3, <1>4
    <3> QED BY <2>2, <3>1, <3>2, <1>3, <1>4
  <2> QED BY <2>1, <2>2, <1>12
<1>14. before = 0 \/ n = 1 => bar <= 2 * (P + T(head'.tracks) + head'.units)
  <2> SUFFICES ASSUME before = 0 \/ n = 1
               PROVE  bar <= 2 * (P + T(head'.tracks) + head'.units)
    OBVIOUS
  <2>1. CASE u < z /\ head' = [tracks |-> t, units |-> u + 1]
    <3>1. head'.tracks = t /\ head'.units = u + 1
      BY <2>1
    <3> DEFINE g == T(t)
    <3>2. g \in Nat /\ bar <= 2 * (P + g + u)
      BY <1>8, <1>10
    <3> HIDE DEF g
    <3>3. bar <= 2 * (P + g + (u + 1))
      BY <3>2, <1>3, <1>4, <1>11
    <3> QED BY <3>1, <3>3 DEF g
  <2>2. CASE u = z /\ head' = [tracks |-> t + 1, units |-> 0]
    <3>1. head'.tracks = t + 1 /\ head'.units = 0
      BY <2>2
    <3> DEFINE g == T(t)
               e == T(t + 1)
    <3>2. g \in Nat /\ bar <= 2 * (P + g + u) /\ e = g + z
      BY <1>8, <1>10
    <3> HIDE DEF g, e
    <3>3. bar <= 2 * (P + e + 0)
      BY <3>2, <2>2, <1>3, <1>4, <1>11
    <3> QED BY <3>1, <3>3 DEF e
  <2> QED BY <2>1, <2>2, <1>12
<1>15. HeadOK'
  BY <1>9, <1>13 DEF HeadOK, C, n
<1>16. BarIsHonest'
  BY <1>1, <1>9, <1>14 DEF BarIsHonest, C, n, P, T
<1>17. BarOK'
  BY <1>1, <1>2, <1>9, <1>16 DEF BarOK
<1>18. JobTyped' /\ WrittenOK'
  BY <1>1, <1>2, <1>13 DEF JobInv, JobTyped, WrittenOK
<1> QED BY <1>1, <1>2, <1>15, <1>17, <1>18 DEF JobInv

\* A session of the job on the disc
LEMMA DiscGrows ==
  ASSUME NEW d \in Seq(Seq(AllFiles)), NEW s \in Seq(AllFiles)
  PROVE  /\ Append(d, s) \in Seq(Seq(AllFiles))
         /\ Len(d) \in Nat /\ Len(Append(d, s)) = Len(d) + 1
         /\ Append(d, s)[Len(d) + 1] = s
         /\ \A k \in 1 .. Len(d) : Append(d, s)[k] = d[k]
         /\ Len(FlattenSeq(Append(d, s))) \in Nat
         /\ Len(FlattenSeq(Append(d, s))) >= Len(s)
<1> DEFINE A == Seq(AllFiles)
<1>1. d \in Seq(A) /\ s \in A
  OBVIOUS
<1> HIDE DEF A
<1>2. /\ Append(d, s) \in Seq(A)
      /\ Len(d) \in Nat /\ Len(Append(d, s)) = Len(d) + 1
      /\ Append(d, s)[Len(d) + 1] = s
      /\ \A k \in 1 .. Len(d) : Append(d, s)[k] = d[k]
  BY <1>1, AppendProperties
<1> DEFINE f == FlattenSeq(d)
<1>3. FlattenSeq(Append(d, s)) = f \o s
  BY FlattenAppend
<1>4. f \in Seq(AllFiles)
  BY FlattenType
<1> HIDE DEF f
<1>5. Len(f \o s) = Len(f) + Len(s) /\ Len(f) \in Nat /\ Len(s) \in Nat
  BY <1>4, ConcatProperties
<1> QED BY <1>2, <1>3, <1>5 DEF A

\* The first session is closed and the second begins, or the job is done.
LEMMA EndKeeps ==
  ASSUME JobInv, SessionEnds
  PROVE  JobInv'
<1>1. /\ pc = "write" /\ head' = AtStart
      /\ disc' = [sessions |-> Append(disc.sessions, Current), open |-> session = 1]
      /\ UNCHANGED <<request, layout, bar>>
  BY DEF SessionEnds
<1>2. /\ JobTyped /\ LayoutOf(request.image, layout) /\ session \in 1 .. 2
      /\ HeadOK /\ BarOK
  BY <1>1 DEF JobInv, WrittenOK
<1>3. /\ Current \in Seq(AllFiles) /\ Len(Current) \in Nat \ {0}
      /\ session = 1 => Current = layout.first
      /\ TotalSize(layout.first) \in Nat \ {0}
      /\ TotalSize(layout.second) \in Nat \ {0} /\ Total \in Nat \ {0}
  BY <1>2, CurrentType
<1> DEFINE d == disc.sessions
           n == Len(d)
           e == Append(d, Current)
<1>4. d \in Seq(Seq(AllFiles))
  BY <1>2 DEF JobTyped
<1>5. /\ e \in Seq(Seq(AllFiles)) /\ n \in Nat /\ Len(e) = n + 1 /\ e[n + 1] = Current
      /\ \A k \in 1 .. n : e[k] = d[k]
      /\ Len(FlattenSeq(e)) \in Nat /\ Len(FlattenSeq(e)) >= Len(Current)
  BY <1>3, <1>4, DiscGrows
<1>6. disc' = [sessions |-> e, open |-> session = 1] /\ disc'.sessions = e
  BY <1>1
<1> HIDE DEF d, n, e
<1>7. disc' \in [sessions : Seq(Seq(AllFiles)), open : BOOLEAN]
  <2> DEFINE o == session = 1
  <2>1. o \in BOOLEAN
    OBVIOUS
  <2>2. disc' = [sessions |-> e, open |-> o]
    BY <1>6
  <2> HIDE DEF o
  <2> QED BY <1>5, <2>1, <2>2
<1>8. head' \in [tracks : Nat, units : Nat] /\ head'.tracks = 0 /\ head'.units = 0
  BY <1>1 DEF AtStart
<1>9. CASE session = 1
  <2>1. pc' = "write" /\ session' = 2 /\ before' = TracksOn(disc')
    BY <1>1, <1>9 DEF SessionEnds
  <2>2. before' \in Nat /\ before' >= 1
    BY <2>1, <1>3, <1>5, <1>6 DEF TracksOn
  <2>3. JobTyped'
    BY <1>1, <1>2, <1>7, <1>8, <2>1, <2>2 DEF JobTyped
  <2>4. WrittenOK'
    <3>1. Len(disc'.sessions) >= 1 /\ disc'.sessions[Len(disc'.sessions)] = layout'.first
      BY <1>1, <1>3, <1>5, <1>6, <1>9
    <3> QED BY <2>1, <2>2, <3>1 DEF WrittenOK
  <2>5. Current' = layout.second /\ PriorBytes' = TotalSize(layout.first) /\ Total' = Total
    BY <1>1, <2>1 DEF Current, PriorBytes, Total
  <2>6. layout.second \in Seq(AllFiles) /\ Len(layout.second) \in Nat \ {0}
    <3>1. layout.second \in Seq(AllFiles)
      BY <1>2 DEF JobTyped, Layouts
    <3>2. layout.second # <<>>
      BY <1>3, TotalEmpty
    <3> QED BY <3>1, <3>2
  <2>7. HeadOK'
    <3> DEFINE s == layout.second
    <3>1. SizeOf(s[1]) \in Nat
      <4>1. s[1] \in AllFiles
        BY <2>6
      <4> QED BY <4>1, FileType
    <3>2. 0 <= SizeOf(s[0 + 1])
      BY <3>1
    <3> QED BY <2>5, <2>6, <3>2, <1>8 DEF HeadOK
  <2>8. BarOK'
    <3>1. TotalSize(SubSeq(layout.second, 1, 0)) = 0
      BY <2>6, TotalPrefix
    <3>2. bar <= 2 * TotalSize(layout.first) /\ bar \in Nat
      BY <1>2, <1>9 DEF BarOK, JobTyped
    <3>3. bar <= 2 * (TotalSize(layout.first) + 0 + 0)
      BY <3>2, <1>3
    <3>4. BarIsHonest'
      BY <1>1, <1>8, <2>5, <3>1, <3>3 DEF BarIsHonest
    <3> QED BY <1>1, <1>2, <2>1, <2>5, <3>4 DEF BarOK
  <2> QED BY <1>1, <1>2, <2>1, <2>3, <2>4, <2>7, <2>8 DEF JobInv
<1>10. CASE session # 1
  <2>1. pc' = "done" /\ UNCHANGED <<session, before>> /\ session = 2
    BY <1>2, <1>10 DEF SessionEnds
  <2>2. JobTyped'
    BY <1>1, <1>2, <1>7, <1>8, <2>1 DEF JobTyped
  <2>3. n >= 1 /\ d[n] = layout.first
    BY <1>1, <2>1 DEF JobInv, WrittenOK, d, n
  <2>4. Current = layout.second
    BY <2>1 DEF Current
  <2>5. WrittenOK'
    <3>1. e[n] = layout.first /\ e[n + 1] = layout.second /\ n + 1 >= 2 /\ (n + 1) - 1 = n
      BY <2>3, <2>4, <1>5
    <3> DEFINE m == n + 1
    <3>2. Len(e) = m /\ e[m - 1] = layout.first /\ e[m] = layout.second /\ m >= 2
      BY <3>1, <1>5
    <3> HIDE DEF m
    <3> QED BY <3>2, <1>1, <1>6, <2>1 DEF WrittenOK
  <2> QED BY <1>1, <1>2, <2>1, <2>2, <2>5 DEF JobInv
<1> QED BY <1>9, <1>10

\* The recorder starts on the layout of the image: what is in the directory of
\* the job is all of its tracks and nothing else.
LEMMA ExtractedKeeps ==
  ASSUME JobInv, IInv, Extracted, ~Settle
  PROVE  JobInv'
<1> DEFINE found == DetectLayout(files[place])
<1>1. /\ pc = "extract" /\ FilesOf(request.image) \subseteq files[place]
      /\ found # NoLayout /\ layout' = found
      /\ pc' = "write" /\ session' = 1 /\ before' = TracksOn(disc)
      /\ UNCHANGED <<request, place, head, bar, disc>>
  BY DEF Extracted
<1>2. files[place] = FilesOf(request.image) /\ request.image \in Images
  BY <1>1 DEF IInv, PlaceKnown
<1>3. LayoutOf(request.image, found)
  BY <1>1, <1>2, Detected
<1> HIDE DEF found
<1>4. JobTyped /\ head = AtStart /\ bar = 0
  BY <1>1 DEF JobInv
<1>5. before' \in Nat
  <2>1. disc.sessions \in Seq(Seq(AllFiles))
    BY <1>4 DEF JobTyped
  <2> DEFINE f == FlattenSeq(disc.sessions)
  <2>2. f \in Seq(AllFiles)
    BY <2>1, FlattenType
  <2> HIDE DEF f
  <2>3. Len(f) \in Nat
    BY <2>2
  <2> QED BY <2>3, <1>1 DEF TracksOn, f
<1>6. found \in Layouts
  BY <1>3 DEF LayoutOf
<1>7. JobTyped'
  BY <1>1, <1>4, <1>5, <1>6 DEF JobTyped
<1>8. /\ found.first \in Seq(AllFiles) /\ found.second \in Seq(AllFiles)
      /\ TotalSize(found.first) \in Nat \ {0} /\ TotalSize(found.second) \in Nat \ {0}
  <2>1. found.first \in Seq(AllFiles) /\ found.second \in Seq(AllFiles)
    BY <1>6 DEF Layouts
  <2> QED BY <2>1, <1>3, TotalType DEF LayoutOf
<1>9. Current' = found.first /\ PriorBytes' = 0
      /\ Total' = TotalSize(found.first) + TotalSize(found.second)
  BY <1>1 DEF Current, PriorBytes, Total
<1>10. Len(found.first) \in Nat \ {0}
  <2>1. found.first # <<>>
    BY <1>8, TotalEmpty
  <2> QED BY <2>1, <1>8
<1>11. head'.tracks = 0 /\ head'.units = 0 /\ bar' = 0
  BY <1>1, <1>4 DEF AtStart
<1>12. HeadOK'
  <2> DEFINE s == found.first
  <2>1. SizeOf(s[1]) \in Nat
    <3>1. s[1] \in AllFiles
      BY <1>8, <1>10
    <3> QED BY <3>1, FileType
  <2>2. 0 <= SizeOf(s[0 + 1])
    BY <2>1
  <2> QED BY <2>2, <1>9, <1>10, <1>11 DEF HeadOK
<1>13. BarOK'
  <2>1. TotalSize(SubSeq(found.first, 1, 0)) = 0
    BY <1>8, TotalPrefix
  <2>2. BarIsHonest'
    BY <2>1, <1>9, <1>11 DEF BarIsHonest
  <2>3. 0 < 2 * (TotalSize(found.first) + TotalSize(found.second))
        /\ 0 <= 2 * TotalSize(found.first)
    BY <1>8
  <2> QED BY <2>2, <2>3, <1>1, <1>9, <1>11 DEF BarOK
<1>14. WrittenOK'
  BY <1>1 DEF WrittenOK
<1> QED BY <1>1, <1>3, <1>7, <1>12, <1>13, <1>14 DEF JobInv

\* Steps after which nothing is being recorded
LEMMA IdleKeeps ==
  ASSUME JobInv, pc' \notin {"write", "done"},
         head' = AtStart, bar' = 0,
         request' \in [image : Images, check : BOOLEAN],
         layout' \in {layout, NoLayout}, before' \in {before, 0},
         session' \in {session, 0},
         disc' \in [sessions : Seq(Seq(AllFiles)), open : BOOLEAN]
  PROVE  JobInv'
<1>1. JobTyped
  BY DEF JobInv
<1>2. NoLayout \in Layouts
  BY DEF NoLayout, Layouts
<1>3. AtStart \in [tracks : Nat, units : Nat]
  BY DEF AtStart
<1>4. JobTyped'
  BY <1>1, <1>2, <1>3 DEF JobTyped
<1> QED BY <1>4 DEF JobInv, WrittenOK

\* Discs before anything is written and after it failed
LEMMA DiscTypes ==
  /\ Blank \in [sessions : Seq(Seq(AllFiles)), open : BOOLEAN]
  /\ Ruin \in [sessions : Seq(Seq(AllFiles)), open : BOOLEAN]
  /\ NoRequest \in [image : Images, check : BOOLEAN]
<1>1. <<>> \in Seq(Seq(AllFiles))
  OBVIOUS
<1>2. (CHOOSE i \in Images : TRUE) \in Images
  BY ImagesAssumption
<1> QED BY <1>1, <1>2 DEF Blank, Ruin, NoRequest

\* The end of a job
LEMMA SettleEnds ==
  ASSUME JobInv, Settle,
         disc' \in [sessions : Seq(Seq(AllFiles)), open : BOOLEAN]
  PROVE  JobInv'
<1>1. /\ pc' = "off" /\ request' = NoRequest /\ layout' = NoLayout
      /\ head' = AtStart /\ before' = 0 /\ session' = 0 /\ bar' = 0
  BY DEF Settle
<1> QED BY <1>1, IdleKeeps, DiscTypes

\* The program is killed: the recorder may finish its session without it.
LEMMA KillEnds ==
  ASSUME JobInv, Kill
  PROVE  JobInv'
<1>1. JobTyped
  BY DEF JobInv
<1>2. /\ pc' = "off" /\ request' = NoRequest /\ layout' = NoLayout
      /\ head' = AtStart /\ before' = 0 /\ session' = 0 /\ bar' = 0
  BY DEF Kill
<1> DEFINE e == Append(disc.sessions, Current)
           o == session = 1
<1>3. e \in Seq(Seq(AllFiles))
  <2>1. disc.sessions \in Seq(Seq(AllFiles)) /\ Current \in Seq(AllFiles)
    BY <1>1 DEF JobTyped, Layouts, Current
  <2> QED BY <2>1, DiscGrows
<1>4. o \in BOOLEAN
  OBVIOUS
<1>5. disc' \in {disc, Ruin, [sessions |-> e, open |-> o]}
  BY DEF Kill
<1> HIDE DEF e, o
<1>6. [sessions |-> e, open |-> o] \in [sessions : Seq(Seq(AllFiles)), open : BOOLEAN]
  BY <1>3, <1>4
<1>7. disc' \in [sessions : Seq(Seq(AllFiles)), open : BOOLEAN]
  BY <1>1, <1>5, <1>6, DiscTypes DEF JobTyped
<1> QED BY <1>2, <1>7, IdleKeeps, DiscTypes

\* Every step keeps the invariant of the job.
LEMMA JobKeeps ==
  ASSUME JobInv, IInv, [Next]_vars
  PROVE  JobInv'
<1> DEFINE Requests == [image : Images, check : BOOLEAN]
           Discs    == [sessions : Seq(Seq(AllFiles)), open : BOOLEAN]
<1>1. JobTyped /\ disc \in Discs /\ request \in Requests
  BY DEF JobInv, JobTyped
<1> HIDE DEF Requests, Discs
<1>2. CASE UNCHANGED <<jobVars, disc>>
  BY <1>2
     DEF JobInv, JobTyped, WrittenOK, HeadOK, BarOK, BarIsHonest, Current,
         PriorBytes, Total, jobVars
<1>3. CASE Start \/ AskTools \/ MakeTemporaryDirectory \/ StepFails \/ CheckAtip
  <2>1. CASE Settle
    <3>1. disc' = disc
      BY <1>3 DEF Start, AskTools, MakeTemporaryDirectory, StepFails, CheckAtip
    <3> QED BY <2>1, <3>1, <1>1, SettleEnds DEF Discs
  <2>2. CASE ~Settle
    <3>1. /\ pc \notin {"write", "done"} /\ pc' \notin {"write", "done"}
          /\ UNCHANGED <<layout, head, before, session, bar, disc>>
          /\ request' = request \/ request' \in Requests
      BY <1>3, <2>2
         DEF Start, AskTools, MakeTemporaryDirectory, StepFails, CheckAtip, Requests
    <3>2. head = AtStart /\ bar = 0
      BY <3>1 DEF JobInv
    <3> QED BY <3>1, <3>2, <1>1, IdleKeeps DEF Requests, Discs
  <2> QED BY <2>1, <2>2
<1>4. CASE Extracted
  <2>1. CASE Settle
    <3>1. disc' = disc
      BY <1>4 DEF Extracted
    <3> QED BY <2>1, <3>1, <1>1, SettleEnds DEF Discs
  <2> QED BY <2>1, <1>4, ExtractedKeeps
<1>5. CASE SessionFails \/ Complete
  <2>1. Settle /\ disc' \in {disc, Ruin}
    BY <1>5 DEF SessionFails, Complete
  <2>2. disc' \in [sessions : Seq(Seq(AllFiles)), open : BOOLEAN]
    BY <2>1, <1>1, DiscTypes DEF Discs
  <2> QED BY <2>1, <2>2, SettleEnds
<1>6. CASE InsertDisc
  <2>1. pc = "off" /\ disc' = Blank /\ UNCHANGED jobVars
    BY <1>6 DEF InsertDisc
  <2>2. head = AtStart /\ bar = 0
    BY <2>1 DEF JobInv
  <2> QED BY <2>1, <2>2, <1>1, IdleKeeps, DiscTypes DEF jobVars, Requests
<1>7. ASSUME Next PROVE JobInv'
  <2>1. CASE BuildStore \/ Close \/ Restart \/ ExtractTrack \/ RemoveDirectory
    <3>1. UNCHANGED <<jobVars, disc>>
      BY <2>1 DEF BuildStore, Close, Restart, ExtractTrack, RemoveDirectory
    <3> QED BY <3>1, <1>2
  <2>2. CASE Kill
    BY <2>2, KillEnds
  <2>3. CASE WriteUnit \/ ParseLine \/ SessionEnds
    BY <2>3, WriteKeeps, ParseKeeps, EndKeeps
  <2> QED BY <2>1, <2>2, <2>3, <1>3, <1>4, <1>5, <1>6, <1>7 DEF Next, Worker
<1>8. CASE UNCHANGED vars
  BY <1>8, <1>2 DEF vars
<1> QED BY <1>7, <1>8

\* No job has begun.
LEMMA JobInit == Init => JobInv
<1> SUFFICES ASSUME Init PROVE JobInv
  OBVIOUS
<1>1. /\ pc = "off" /\ request = NoRequest /\ layout = NoLayout
      /\ head = AtStart /\ before = 0 /\ disc = Blank /\ session = 0 /\ bar = 0
  BY DEF Init
<1>2. NoLayout \in Layouts
  BY DEF NoLayout, Layouts
<1>3. AtStart \in [tracks : Nat, units : Nat]
  BY DEF AtStart
<1>4. JobTyped
  BY <1>1, <1>2, <1>3, DiscTypes DEF JobTyped
<1> QED BY <1>1, <1>4 DEF JobInv, WrittenOK

\* The second inductive invariant: what DetectLayout found is a layout of all
\* the tracks of the image, and recorder, disc and bar follow it.
THEOREM JobInvariance == Spec => []JobInv
<1>1. JobInv /\ IInv /\ [Next]_vars => JobInv'
  BY JobKeeps
<1> QED BY <1>1, JobInit, DreamcastInvariance, PTL DEF Spec

\* For any images, tools and names, every variable has its type; the bar is
\* not full while RetroBeam writes.
THEOREM DreamcastTypes == Spec => []TypeOK
<1>1. IInv /\ JobInv => TypeOK
  <2> SUFFICES ASSUME IInv, JobInv PROVE TypeOK
    OBVIOUS
  <2>1. ToolsOK
    BY DEF IInv, StoreOK
  <2>2. place \in Places \union {NoPlace}
    BY DEF IInv, PlaceKnown, DirectoriesOK
  <2>3. pc = "write" => bar < 2 * Total
    BY DEF JobInv, BarOK
  <2> QED BY <2>1, <2>2, <2>3 DEF IInv, PlaceKnown, DirectoriesOK, JobInv, JobTyped, TypeOK
<1> QED BY <1>1, DreamcastInvariance, JobInvariance, PTL

\* For tracks of any number and size, the bar shows no more than RetroBeam has
\* written, in a first session on a blank disc and in sessions of one track
\* (runSession, parseLine).
THEOREM HonestBar == Spec => []BarIsHonest
<1>1. JobInv => BarIsHonest
  BY DEF JobInv, BarOK, BarIsHonest
<1> QED BY <1>1, JobInvariance, PTL

\* For any images, a job that ends well has recorded all their tracks, each
\* once, and the sessions of the image where README.md:61 promises them
\* (DetectLayout, runSession).
THEOREM AllTracksRecorded == Spec => []TracksInTheirSessions
<1>1. JobInv => TracksInTheirSessions
  <2> SUFFICES ASSUME JobInv, pc = "done" PROVE TracksInTheirSessions
    BY DEF TracksInTheirSessions
  <2> DEFINE d == disc.sessions
             n == Len(d)
             A == Seq(AllFiles)
             a == layout.first
             b == layout.second
  <2>1. d \in Seq(A) /\ a \in A /\ b \in A
    BY DEF JobInv, JobTyped, Layouts
  <2>2. n >= 2 /\ d[n - 1] = a /\ d[n] = b
    BY DEF JobInv, WrittenOK
  <2>3. LayoutOf(request.image, layout)
    BY DEF JobInv
  <2> HIDE DEF d, A, a, b
  <2>4. Recorded = <<a, b>>
    <3> DEFINE r == SubSeq(d, n - 1, n)
               p == <<a, b>>
    <3>1. n \in Nat
      BY <2>1
    <3> HIDE DEF n
    <3>2. r \in Seq(A) /\ Len(r) = 2 /\ \A k \in 1 .. 2 : r[k] = d[n - 1 + k - 1]
      <4>1. \A k \in n - 1 .. n : d[k] \in A
        <5>1. \A k \in 1 .. n : d[k] \in A
          BY <2>1 DEF n
        <5> QED BY <5>1, <2>2, <3>1
      <4>2. n - 1 \in Int /\ n \in Int /\ n - 1 <= n /\ n - (n - 1) + 1 = 2
        BY <3>1
      <4> QED BY <4>1, <4>2, <2>1, SubSeqProperties
    <3>3. r[1] = a /\ r[2] = b
      <4>1. n - 1 + 1 - 1 = n - 1 /\ n - 1 + 2 - 1 = n /\ 1 \in 1 .. 2 /\ 2 \in 1 .. 2
        BY <3>1
      <4>2. r[1] = d[n - 1 + 1 - 1] /\ r[2] = d[n - 1 + 2 - 1]
        BY <3>2, <4>1
      <4> QED BY <4>1, <4>2, <2>2
    <3> HIDE DEF r
    <3>4. r = <<r[1], r[2]>>
      BY <3>2, TwoElements
    <3> QED BY <3>3, <3>4 DEF Recorded, r, n, d
  <2>5. FlattenSeq(Recorded) = a \o b
    BY <2>1, <2>4, FlattenPair DEF A
  <2> DEFINE i == request.image
             all == a \o b
             first == Len(Sessions[i][1])
  <2>6. {all[k] : k \in DOMAIN all} = FilesOf(i) /\ Len(all) = Len(AllTracks(i))
    BY <2>3, Zenon DEF LayoutOf, a, b
  <2>7. Supported(i) =>
          Recorded = <<[k \in 1 .. first |-> File(i, k)],
                       [k \in DOMAIN Sessions[i][2] |-> File(i, first + k)]>>
    BY <2>3, <2>4, Zenon DEF LayoutOf, a, b
  <2> QED BY <2>5, <2>6, <2>7, Zenon DEF TracksInTheirSessions
<1> QED BY <1>1, JobInvariance, PTL

=============================================================================
