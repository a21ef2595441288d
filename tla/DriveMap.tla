------------------------------ MODULE DriveMap ------------------------------
(***************************************************************************)
(* Which drive is which: the list of optical drives the window keeps       *)
(* (src/src/main.cpp), how it is rebuilt when a device comes or goes, and  *)
(* how each drive letter is mapped to the address RetroBeam knows the same *)
(* drive by (src/src/drive_manager.cpp).                                   *)
(*                                                                         *)
(* A job inspects the disc through the letter (dvd+rw-mediainfo, BurnerMAX)*)
(* and records through the address (RetroBeam), so a wrong or stale pair   *)
(* inspects one drive and writes on another.  Letters and addresses are    *)
(* numbers, in the order in which Windows and `-scanbus` list them.  The   *)
(* message loop is one thread: its steps follow loop; devices come and go, *)
(* and the engine's job ends, between any two of them.                     *)
(*                                                                         *)
(* X_<mistake> is X with a mistake somebody could make in that code, to be *)
(* put in the place of X when the property it breaks must be found         *)
(* violated.                                                               *)
(***************************************************************************)
EXTENDS Naturals

CONSTANTS
  Drives,     \* the drives the user owns
  Letters,    \* drive letters
  Addresses,  \* bus, target and LUN, as -scanbus prints them
  Model,      \* vendor and product of a drive
  WinRev,     \* its revision, as Windows knows it
  ScanRev,    \* its revision, as -scanbus prints it
  Unknown     \* a vendor or revision Windows could not be asked for

ASSUME NumbersAssumption ==
  Letters \subseteq Nat \ {0} /\ Addresses \subseteq Nat \ {0}
ASSUME UnknownAssumption == \A d \in Drives : Model[d] # Unknown

VARIABLES
  letter, address,  \* of each drive, 0 while it is not attached
  listed,           \* did Windows answer GetLogicalDriveStringsW last time?
  notified,         \* WM_DEVICECHANGE is in the message queue
  requested,        \* g_driveRefreshRequested
  jobInProgress,    \* g_jobInProgress
  loop,             \* where the message loop is
  resume,           \* where it goes on after the next RefreshDrives
  drives,           \* state.drives, by letter
  selected,         \* state.selectedDrive, 0 when there is none
  todo, unused,     \* AssignCdrecordAddresses: drives left, entries not used
  popup,            \* is "Confirm burn" open?
  busy, request     \* BurnEngine: is there a job, and for which drive?

world == <<letter, address, listed>>
list  == <<drives, selected, todo, unused>>
job   == <<busy, request>>
vars  == <<world, notified, requested, jobInProgress, loop, resume, list,
           popup, job>>

NoRequest == [root |-> 0, device |-> 0]

IsFirst(n, S) == n \in S /\ \A m \in S : n <= m

Attached == {d \in Drives : letter[d] # 0}

\* What -scanbus prints of an attached drive
ScanEntry(d) ==
  [address |-> address[d], model |-> Model[d], rev |-> ScanRev[d]]

Init ==
  /\ letter = [d \in Drives |-> 0] /\ address = [d \in Drives |-> 0]
  /\ listed = TRUE
  /\ notified = FALSE /\ requested = FALSE /\ jobInProgress = FALSE
  /\ loop = "enumerate" /\ resume = "top"
  /\ drives = [l \in {} |-> NoRequest] /\ selected = 0
  /\ todo = {} /\ unused = {}
  /\ popup = FALSE /\ busy = FALSE /\ request = NoRequest

-----------------------------------------------------------------------------
(* RefreshDrives                                                           *)

\* GetLogicalDriveStringsW, and what Windows says of each drive; a drive that
\* cannot be opened is listed without an identity.
ListLetters ==
  /\ \E opened \in SUBSET Attached :
       drives' = [l \in {letter[d] : d \in Attached} |->
                    LET d == CHOOSE x \in Attached : letter[x] = l
                    IN  [model  |-> IF d \in opened THEN Model[d] ELSE Unknown,
                         rev    |-> IF d \in opened THEN WinRev[d] ELSE Unknown,
                         device |-> 0]]
  /\ todo' = DOMAIN drives'
  /\ listed' = TRUE
  /\ loop' = "scan" /\ UNCHANGED unused

\* It fails: the list stays empty, and there is nothing to assign.
ListNothing ==
  /\ drives' = [l \in {} |-> NoRequest]
  /\ todo' = {} /\ unused' = {}
  /\ listed' = FALSE
  /\ loop' = "assign"

Enumerate ==
  /\ loop = "enumerate"
  /\ ListLetters \/ ListNothing
  /\ UNCHANGED <<letter, address, notified, requested, jobInProgress, resume,
                 selected, popup, job>>

\* ScanCdrecordDevices, which may fail
Scan ==
  /\ loop = "scan" /\ loop' = "assign"
  /\ unused' \in {{}, {ScanEntry(d) : d \in Attached}}
  /\ UNCHANGED <<world, notified, requested, jobInProgress, resume, drives,
                 selected, todo, popup, job>>

\* The entries a drive may take: exact matches before the fallback
Matching_AnyProduct(entry) ==
  LET exact == {e \in unused : e.model = entry.model /\ e.rev = entry.rev}
  IN  IF exact # {} THEN exact ELSE unused

Matching(entry) ==
  LET same  == {e \in unused : e.model = entry.model}
      exact == {e \in same : e.rev = entry.rev}
  IN  IF exact # {} THEN exact ELSE same

Takes_WithoutMark(l, e) ==
  /\ drives' = [drives EXCEPT ![l].device = e.address]
  /\ UNCHANGED unused

\* cdrecordDevice = address, used[index] = true
Takes(l, e) ==
  /\ drives' = [drives EXCEPT ![l].device = e.address]
  /\ unused' = unused \ {e}

\* One round of the loop in AssignCdrecordAddresses: the drives in the order
\* of their letters, each given the first entry that fits and is not used.
Assign ==
  /\ loop = "assign"
  /\ \E l \in todo :
       /\ IsFirst(l, todo)
       /\ todo' = todo \ {l}
       /\ LET fits == Matching(drives[l])
          IN  \/ fits = {} /\ UNCHANGED <<drives, unused>>
              \/ \E e \in fits :
                   /\ IsFirst(e.address, {f.address : f \in fits})
                   /\ Takes(l, e)
  /\ UNCHANGED <<world, notified, requested, jobInProgress, loop, resume,
                 selected, popup, job>>

\* The selection stays with its letter, or falls back on the first drive.
EndRefresh_KeepsSelection ==
  /\ loop = "assign" /\ todo = {}
  /\ loop' = resume /\ resume' = "top" /\ unused' = {}
  /\ UNCHANGED <<world, notified, requested, jobInProgress, drives, selected,
                 todo, popup, job>>

EndRefresh ==
  /\ loop = "assign" /\ todo = {}
  /\ loop' = resume /\ resume' = "top" /\ unused' = {}
  /\ \/ selected \in DOMAIN drives /\ UNCHANGED selected
     \/ selected \notin DOMAIN drives /\ IsFirst(selected', DOMAIN drives)
     \/ DOMAIN drives = {} /\ selected' = 0
  /\ UNCHANGED <<world, notified, requested, jobInProgress, drives, todo,
                 popup, job>>

-----------------------------------------------------------------------------
(* The message loop                                                        *)

SampleBusy_Once ==
  /\ loop = "top" /\ loop' = "pump"
  /\ UNCHANGED <<world, notified, requested, jobInProgress, resume, list,
                 popup, job>>

SampleBusy ==
  /\ loop = "top" /\ loop' = "pump"
  /\ jobInProgress' = busy
  /\ UNCHANGED <<world, notified, requested, resume, list, popup, job>>

\* PeekMessageW and DispatchMessageW until the queue is empty; WM_CLOSE is
\* refused while a job is in progress.
Pump ==
  /\ loop = "pump"
  /\ \/ loop' = "refresh"
     \/ ~jobInProgress /\ loop' = "closed"
  /\ requested' = (requested \/ notified) /\ notified' = FALSE
  /\ UNCHANGED <<world, jobInProgress, resume, list, popup, job>>

\* A requested refresh waits for the end of the job.
ServeRefresh_Forgets ==
  /\ loop = "refresh"
  /\ IF requested /\ ~busy
     THEN loop' = "enumerate" /\ resume' = "draw"
     ELSE loop' = "draw" /\ UNCHANGED resume
  /\ requested' = FALSE
  /\ UNCHANGED <<world, notified, jobInProgress, list, popup, job>>

ServeRefresh_IgnoresJob ==
  /\ loop = "refresh"
  /\ IF requested
     THEN loop' = "enumerate" /\ resume' = "draw"
     ELSE loop' = "draw" /\ UNCHANGED resume
  /\ requested' = FALSE
  /\ UNCHANGED <<world, notified, jobInProgress, list, popup, job>>

ServeRefresh ==
  /\ loop = "refresh"
  /\ IF requested /\ ~busy
     THEN loop' = "enumerate" /\ resume' = "draw" /\ requested' = FALSE
     ELSE loop' = "draw" /\ UNCHANGED <<resume, requested>>
  /\ UNCHANGED <<world, notified, jobInProgress, list, popup, job>>

-----------------------------------------------------------------------------
(* DrawApp: in one frame the user does at most one thing.                  *)

Idle == loop' = "top" /\ UNCHANGED <<resume, selected, popup, job>>

SelectDrive ==
  /\ ~popup /\ ~busy
  /\ selected' \in DOMAIN drives
  /\ loop' = "top"
  /\ UNCHANGED <<resume, popup, job>>

RefreshButton ==
  /\ ~popup /\ ~busy
  /\ loop' = "enumerate"
  /\ UNCHANGED <<resume, selected, popup, job>>

\* BurnEngine::Start, for the drive that is selected now
Start(r) == busy' = TRUE /\ request' = r

SelectedDrive == [root |-> selected, device |-> drives[selected].device]

\* canBurn.  What it asks of the image, the disc and the recorder is not
\* modelled (growisofs does without an address), so the user may also find the
\* button disabled.
CanBurn == ~busy /\ DOMAIN drives # {}

OpenPopup ==
  /\ ~popup /\ CanBurn
  /\ popup' = TRUE /\ loop' = "top"
  /\ UNCHANGED <<resume, selected, job>>

DryRun ==
  /\ ~popup /\ CanBurn
  /\ Start(SelectedDrive)
  /\ loop' = "top"
  /\ UNCHANGED <<resume, selected, popup>>

\* "Check Image" and "TEST / ENABLE BURNERMAX" have no use for an address.
OtherJob ==
  /\ ~popup /\ ~busy
  /\ Start(NoRequest)
  /\ loop' = "top"
  /\ UNCHANGED <<resume, selected, popup>>

\* The popup asks only whether there is a drive at all.
ConfirmBurn ==
  /\ popup /\ DOMAIN drives # {} /\ ~busy
  /\ Start(SelectedDrive)
  /\ popup' = FALSE /\ loop' = "top"
  /\ UNCHANGED <<resume, selected>>

Cancel ==
  /\ popup /\ popup' = FALSE /\ loop' = "top"
  /\ UNCHANGED <<resume, selected, job>>

Draw ==
  /\ loop = "draw"
  /\ \/ Idle \/ SelectDrive \/ RefreshButton
     \/ OpenPopup \/ DryRun \/ OtherJob \/ ConfirmBurn \/ Cancel
  /\ UNCHANGED <<world, notified, requested, jobInProgress, drives, todo,
                 unused>>

Loop == \/ Enumerate \/ Scan \/ Assign \/ EndRefresh
        \/ SampleBusy \/ Pump \/ ServeRefresh \/ Draw

-----------------------------------------------------------------------------
(* The rest of the world                                                   *)

\* A job ends: BurnEngine's JobTerminates.
JobEnds ==
  /\ busy /\ busy' = FALSE /\ request' = NoRequest
  /\ UNCHANGED <<world, notified, requested, jobInProgress, loop, resume,
                 list, popup>>

\* Windows broadcasts WM_DEVICECHANGE when a drive comes or goes.
Attach(d) ==
  /\ letter[d] = 0
  /\ \E l \in Letters, a \in Addresses :
       /\ \A e \in Drives : letter[e] # l /\ address[e] # a
       /\ letter' = [letter EXCEPT ![d] = l]
       /\ address' = [address EXCEPT ![d] = a]

Detach(d) ==
  /\ letter[d] # 0
  /\ letter' = [letter EXCEPT ![d] = 0]
  /\ address' = [address EXCEPT ![d] = 0]

DeviceChange ==
  /\ loop # "closed"
  /\ \E d \in Drives : Attach(d) \/ Detach(d)
  /\ notified' = TRUE
  /\ UNCHANGED <<listed, requested, jobInProgress, loop, resume, list, popup,
                 job>>

Closed == loop = "closed" /\ UNCHANGED vars

Next == Loop \/ JobEnds \/ DeviceChange \/ Closed

\* The message loop never waits for the user, and a job ends.
Spec == Init /\ [][Next]_vars /\ WF_vars(Loop) /\ WF_vars(JobEnds)

-----------------------------------------------------------------------------
(* Properties                                                              *)

Entries == [model : {Model[d] : d \in Drives} \union {Unknown},
            rev : {WinRev[d] : d \in Drives} \union {Unknown},
            device : Addresses \union {0}]

Refreshing == loop \in {"enumerate", "scan", "assign"}

\* The type of every variable.  Outside a refresh the selection is a drive of
\* the list, so the index state.drives[selectedDrive] is never out of range.
TypeOK ==
  /\ letter \in [Drives -> Letters \union {0}]
  /\ address \in [Drives -> Addresses \union {0}]
  /\ notified \in BOOLEAN /\ requested \in BOOLEAN /\ jobInProgress \in BOOLEAN
  /\ listed \in BOOLEAN
  /\ loop \in {"top", "pump", "refresh", "enumerate", "scan", "assign", "draw",
               "closed"}
  /\ resume \in {"top", "draw"}
  /\ DOMAIN drives \subseteq Letters
  /\ drives \in [DOMAIN drives -> Entries]
  /\ IF Refreshing THEN selected \in Letters \union {0}
     ELSE IF DOMAIN drives = {} THEN selected = 0 ELSE selected \in DOMAIN drives
  /\ todo \subseteq DOMAIN drives
  /\ \A e \in unused : e.address \in Addresses
  /\ popup \in BOOLEAN /\ busy \in BOOLEAN
  /\ request \in [root : Letters \union {0}, device : Addresses \union {0}]

\* No two letters of the list share a RetroBeam address, however many drives
\* of one model there are.
AddressesDistinct ==
  \A k, l \in DOMAIN drives :
    drives[k].device = drives[l].device /\ drives[k].device # 0 => k = l

\* No device change is lost: unless one is still to be served, the list has
\* the letters there are (or none, if Windows would not tell them), and an
\* address in it is that of an attached drive of the same model - of the very
\* drive when it is the only one of its model.
Only(d) == \A e \in Attached : Model[e] = Model[d] => e = d

Names(l, a) ==
  \E d, e \in Attached :
    /\ letter[d] = l /\ address[e] = a
    /\ Model[d] = Model[e] /\ (Only(d) => d = e)

Pending == notified \/ requested

ListIsCurrent ==
  ~Pending /\ ~Refreshing =>
    /\ DOMAIN drives = IF listed THEN {letter[d] : d \in Attached} ELSE {}
    /\ \A l \in DOMAIN drives :
         drives[l].device # 0 => Names(l, drives[l].device)

\* The disc a job inspects is in the drive it records with: as long as no
\* device came or went, letter and address of a running job name one drive,
\* or at worst two of one model.
InspectedIsWritten ==
  busy /\ request.device # 0 /\ ~Pending => Names(request.root, request.device)

\* The window closes only on an idle engine, although WM_CLOSE looks at a copy
\* of busy sampled at the top of the loop.
ClosesIdle == loop = "closed" => ~busy

\* A device change that comes during a job is not forgotten: it is followed by
\* an enumeration, unless the window is closed or the user starts jobs for
\* ever, each in the very frame that follows the end of the one before.
ChangesAreServed ==
  <>[]~busy => (notified ~> loop \in {"enumerate", "closed"})

-----------------------------------------------------------------------------
(* What a document of the program says, and the code does not do           *)

\* CHANGELOG.md:100 "Reliable mapping between Windows optical drives and the
\* actual device addresses reported by `cdrecord -scanbus`": of two drives of
\* one model each may be given the address of the other, even when one of them
\* has an exact match.
MappingIsReliable ==
  ~Pending /\ ~Refreshing =>
    \A d \in Attached :
      letter[d] \in DOMAIN drives =>
        drives[letter[d]].device \in {0, address[d]}
=============================================================================
