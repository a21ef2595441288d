--------------------------- MODULE DriveMapProofs ---------------------------
(***************************************************************************)
(* Proofs about DriveMap, for any drives, letters and addresses: the list  *)
(* of drives and the request of a running job are current unless a device  *)
(* change is waiting to be served.                                         *)
(***************************************************************************)
EXTENDS DriveMap, TLAPS

-----------------------------------------------------------------------------
(* The inductive invariant                                                 *)

\* Letters and addresses name one drive each.
WorldOK ==
  /\ \A d, e \in Drives : letter[d] = letter[e] /\ letter[d] # 0 => d = e
  /\ \A d, e \in Drives : address[d] = address[e] /\ address[d] # 0 => d = e
  /\ \A d \in Drives : letter[d] = 0 <=> address[d] = 0

LettersCurrent ==
  DOMAIN drives = IF listed THEN {letter[d] : d \in Attached} ELSE {}

IdentitiesCurrent ==
  \A d \in Attached : letter[d] \in DOMAIN drives =>
    drives[letter[d]].model \in {Model[d], Unknown}

DevicesCurrent ==
  \A l \in DOMAIN drives : drives[l].device # 0 => Names(l, drives[l].device)

\* What is left of the scan: entries that differ in their address, none of
\* which a drive of the list was given.
UnusedOK ==
  /\ \A e, f \in unused : e.address = f.address => e = f
  /\ \A l \in DOMAIN drives, e \in unused : drives[l].device # e.address

\* A refresh that no device change has disturbed works on the world as it is.
RefreshOK ==
  /\ Refreshing => ~busy
  /\ loop = "scan" => \A l \in DOMAIN drives : drives[l].device = 0
  /\ loop = "assign" => UnusedOK
  /\ loop \in {"scan", "assign"} /\ ~notified =>
       LettersCurrent /\ IdentitiesCurrent
  /\ loop = "assign" /\ ~notified =>
       DevicesCurrent /\ \A e \in unused : \E d \in Attached : e = ScanEntry(d)

CloseOK == loop = "pump" /\ ~jobInProgress => ~busy

IInv ==
  /\ TypeOK /\ WorldOK /\ AddressesDistinct /\ RefreshOK
  /\ ListIsCurrent /\ InspectedIsWritten /\ ClosesIdle /\ CloseOK

-----------------------------------------------------------------------------
(* Parts of the state that a step leaves alone                             *)

\* What the invariant says of the world and the list, carried over a step
\* that changes neither.
LEMMA ListUnchanged ==
  ASSUME UNCHANGED <<world, drives, unused>>
  PROVE  /\ WorldOK' = WorldOK /\ AddressesDistinct' = AddressesDistinct
         /\ LettersCurrent' = LettersCurrent
         /\ IdentitiesCurrent' = IdentitiesCurrent
         /\ DevicesCurrent' = DevicesCurrent /\ UnusedOK' = UnusedOK
         /\ Attached' = Attached
         /\ \A l, a : Names(l, a)' = Names(l, a)
  BY DEF WorldOK, AddressesDistinct, LettersCurrent, IdentitiesCurrent,
         DevicesCurrent, UnusedOK, Attached, Names, Only, world

-----------------------------------------------------------------------------
(* Initial states                                                          *)

LEMMA InitInvariant == Init => IInv
<1> SUFFICES ASSUME Init PROVE IInv OBVIOUS
<1>1. TypeOK
  BY NumbersAssumption DEF Init, TypeOK, Entries, Refreshing, NoRequest
<1>2. WorldOK /\ AddressesDistinct
  BY DEF Init, WorldOK, AddressesDistinct
<1>3. RefreshOK
  BY DEF Init, RefreshOK, Refreshing
<1>4. ListIsCurrent /\ InspectedIsWritten /\ ClosesIdle /\ CloseOK
  BY DEF Init, ListIsCurrent, InspectedIsWritten, ClosesIdle, CloseOK, Refreshing
<1> QED BY <1>1, <1>2, <1>3, <1>4 DEF IInv

-----------------------------------------------------------------------------
(* Steps of a refresh                                                      *)

\* ListLetters lists the letters there are, and each drive under its own.
LEMMA ListLettersInvariant == IInv /\ Enumerate /\ ListLetters => IInv'
<1> SUFFICES ASSUME IInv, Enumerate, ListLetters PROVE IInv' OBVIOUS
<1> USE DEF IInv
<1> DEFINE D(l) == CHOOSE x \in Attached : letter[x] = l
           L == {letter[d] : d \in Attached}
<1>1. PICK opened \in SUBSET Attached :
        drives' = [l \in L |->
                     [model  |-> IF D(l) \in opened THEN Model[D(l)] ELSE Unknown,
                      rev    |-> IF D(l) \in opened THEN WinRev[D(l)] ELSE Unknown,
                      device |-> 0]]
  BY DEF ListLetters
<1>2. \A l \in L : D(l) \in Attached /\ letter[D(l)] = l
  OBVIOUS
<1>3. \A d \in Attached : letter[d] \in L /\ D(letter[d]) = d
  BY <1>2 DEF Attached, WorldOK
<1>4. L \subseteq Letters
  BY DEF TypeOK, Attached
<1> HIDE DEF D, L
<1>5. /\ UNCHANGED <<letter, address, notified, requested, jobInProgress, resume,
                     selected, unused, popup, busy, request>>
      /\ loop = "enumerate" /\ loop' = "scan"
      /\ todo' = DOMAIN drives' /\ listed' = TRUE
  BY DEF Enumerate, ListLetters, job
<1>6. /\ DOMAIN drives' = L
      /\ \A l \in L :
           /\ drives'[l].model = IF D(l) \in opened THEN Model[D(l)] ELSE Unknown
           /\ drives'[l].device = 0
  BY <1>1
<1>7. drives' \in [L -> Entries]
  BY <1>1, <1>2 DEF Entries, Attached
<1>8. TypeOK'
  BY <1>4, <1>6, <1>7, <1>5 DEF TypeOK, Refreshing
<1>9. WorldOK'
  BY <1>5 DEF WorldOK
<1>10. AddressesDistinct'
  BY <1>6 DEF AddressesDistinct
<1>11. LettersCurrent' /\ IdentitiesCurrent'
  <2>1. letter' = letter /\ Attached' = Attached
    BY <1>5 DEF Attached
  <2>2. LettersCurrent'
    BY <1>6, <1>5, <2>1 DEF LettersCurrent, L
  <2>3. IdentitiesCurrent'
    BY <1>3, <1>6, <2>1 DEF IdentitiesCurrent
  <2> QED BY <2>2, <2>3
<1>12. RefreshOK'
  BY <1>6, <1>11, <1>5 DEF RefreshOK, Refreshing
<1>13. (ListIsCurrent /\ InspectedIsWritten /\ ClosesIdle /\ CloseOK)'
  BY <1>5 DEF ListIsCurrent, InspectedIsWritten, ClosesIdle, CloseOK,
              Refreshing, RefreshOK
<1> QED BY <1>8, <1>9, <1>10, <1>12, <1>13

\* When Windows does not answer, the list is empty: the drives it had are
\* forgotten, and no address is given to any.
LEMMA ListNothingInvariant == IInv /\ Enumerate /\ ListNothing => IInv'
<1> SUFFICES ASSUME IInv, Enumerate, ListNothing PROVE IInv' OBVIOUS
<1> USE DEF IInv
<1>1. /\ UNCHANGED <<letter, address, notified, requested, jobInProgress, resume,
                     selected, popup, busy, request>>
      /\ loop = "enumerate" /\ loop' = "assign" /\ listed' = FALSE
      /\ DOMAIN drives' = {} /\ drives' \in [{} -> Entries]
      /\ todo' = {} /\ unused' = {}
  BY DEF Enumerate, ListNothing, job
<1>2. TypeOK'
  BY <1>1 DEF TypeOK, Refreshing
<1>3. WorldOK' /\ AddressesDistinct'
  BY <1>1 DEF WorldOK, AddressesDistinct
<1>4. LettersCurrent' /\ IdentitiesCurrent' /\ DevicesCurrent' /\ UnusedOK'
  BY <1>1 DEF LettersCurrent, IdentitiesCurrent, DevicesCurrent, UnusedOK
<1>5. RefreshOK'
  BY <1>1, <1>4 DEF RefreshOK, Refreshing
<1>6. (ListIsCurrent /\ InspectedIsWritten /\ ClosesIdle /\ CloseOK)'
  BY <1>1 DEF ListIsCurrent, InspectedIsWritten, ClosesIdle, CloseOK,
              Refreshing, RefreshOK
<1> QED BY <1>2, <1>3, <1>5, <1>6

\* However an enumeration ends
LEMMA EnumerateInvariant == IInv /\ Enumerate => IInv'
  BY ListLettersInvariant, ListNothingInvariant DEF Enumerate

\* Scan yields entries of attached drives, with addresses that differ.
LEMMA ScanInvariant == IInv /\ Scan => IInv'
<1> SUFFICES ASSUME IInv, Scan PROVE IInv' OBVIOUS
<1> USE DEF IInv
<1>1. \A e \in unused' : \E d \in Attached : e = ScanEntry(d)
  BY DEF Scan
<1>2. \A d \in Attached : address[d] \in Addresses /\ d \in Drives
  BY DEF Attached, TypeOK, WorldOK
<1>3. \A d \in Attached : ScanEntry(d).address = address[d]
  BY DEF ScanEntry
<1>4. \A e \in unused' : e.address \in Addresses
  BY <1>1, <1>2, <1>3
<1>5. TypeOK'
  BY <1>4 DEF TypeOK, Scan, Refreshing, world, job
<1>6. WorldOK' /\ AddressesDistinct'
  BY DEF WorldOK, AddressesDistinct, Scan, world
<1>7. \A l \in DOMAIN drives : drives[l].device = 0
  BY DEF RefreshOK, Scan
<1>8. UnusedOK'
  <2>1. ASSUME NEW e \in unused', NEW f \in unused', e.address = f.address
        PROVE  e = f
    <3>1. PICK d \in Attached : e = ScanEntry(d)
      BY <1>1
    <3>2. PICK c \in Attached : f = ScanEntry(c)
      BY <1>1
    <3>3. address[d] = address[c] /\ address[d] # 0
      BY <1>2, <1>3, <2>1, <3>1, <3>2, NumbersAssumption
    <3>4. d = c
      BY <1>2, <3>3 DEF WorldOK
    <3> QED BY <3>1, <3>2, <3>4
  <2>2. \A l \in DOMAIN drives', e \in unused' : drives'[l].device # e.address
    BY <1>4, <1>7, NumbersAssumption DEF Scan
  <2> QED BY <2>1, <2>2 DEF UnusedOK
<1>9. ~notified' => /\ LettersCurrent' /\ IdentitiesCurrent' /\ DevicesCurrent'
                    /\ \A e \in unused' : \E d \in Attached' : e = ScanEntry(d)'
  <2> SUFFICES ASSUME ~notified'
               PROVE /\ LettersCurrent' /\ IdentitiesCurrent' /\ DevicesCurrent'
                     /\ \A e \in unused' : \E d \in Attached' : e = ScanEntry(d)'
    OBVIOUS
  <2>1. UNCHANGED <<letter, address, listed, drives>> /\ ~notified /\ loop = "scan"
    BY DEF Scan, world
  <2>2. LettersCurrent /\ IdentitiesCurrent
    BY <2>1 DEF RefreshOK
  <2>3. LettersCurrent' /\ IdentitiesCurrent'
    BY <2>1, <2>2 DEF LettersCurrent, IdentitiesCurrent, Attached
  <2>4. DevicesCurrent'
    BY <1>7, <2>1 DEF DevicesCurrent
  <2>5. \A e \in unused' : \E d \in Attached' : e = ScanEntry(d)'
    BY <1>1, <2>1 DEF Attached, ScanEntry
  <2> QED BY <2>3, <2>4, <2>5
<1>10. RefreshOK'
  BY <1>8, <1>9 DEF RefreshOK, Scan, Refreshing, job
<1>11. (ListIsCurrent /\ InspectedIsWritten /\ ClosesIdle /\ CloseOK)'
  BY DEF ListIsCurrent, InspectedIsWritten, ClosesIdle, CloseOK, Refreshing,
         RefreshOK, Scan, job
<1> QED BY <1>5, <1>6, <1>10, <1>11

\* The entries a drive may take are unused ones of its model.
LEMMA MatchingFits ==
  ASSUME NEW entry
  PROVE  Matching(entry) \subseteq {e \in unused : e.model = entry.model}
  BY DEF Matching

\* A round of the assignment gives a drive an address nobody has, and if the
\* world is still the one that was scanned, that of a drive of its model.
LEMMA AssignInvariant == IInv /\ Assign => IInv'
<1> SUFFICES ASSUME IInv, Assign PROVE IInv' OBVIOUS
<1> USE DEF IInv
<1>1. PICK l \in todo :
        /\ todo' = todo \ {l}
        /\ \/ UNCHANGED <<drives, unused>>
           \/ \E e \in Matching(drives[l]) : Takes(l, e)
  BY DEF Assign
<1>2. /\ UNCHANGED <<letter, address, listed, notified, requested, jobInProgress, loop,
                     resume, selected, popup, busy, request>>
      /\ loop = "assign" /\ ~busy
  BY DEF Assign, world, job, RefreshOK, Refreshing
<1>3. (ListIsCurrent /\ InspectedIsWritten /\ ClosesIdle /\ CloseOK /\ WorldOK)'
  BY <1>2 DEF ListIsCurrent, InspectedIsWritten, ClosesIdle, CloseOK, WorldOK,
              Refreshing
<1>4. CASE UNCHANGED <<drives, unused>>
  <2>1. TypeOK'
    BY <1>1, <1>2, <1>4 DEF TypeOK, Refreshing
  <2>2. (AddressesDistinct /\ RefreshOK)'
    BY <1>2, <1>4 DEF AddressesDistinct, RefreshOK, Refreshing, UnusedOK,
         LettersCurrent, IdentitiesCurrent, DevicesCurrent, Attached, Names,
         Only, ScanEntry
  <2> QED BY <1>3, <2>1, <2>2
<1>5. ASSUME NEW e \in Matching(drives[l]), Takes(l, e) PROVE IInv'
  <2>1. e \in unused /\ e.model = drives[l].model /\ e.address \in Addresses
    BY MatchingFits DEF TypeOK
  <2>2. /\ l \in DOMAIN drives /\ DOMAIN drives \subseteq Letters
        /\ drives \in [DOMAIN drives -> Entries]
    BY DEF TypeOK
  <2>3. /\ DOMAIN drives' = DOMAIN drives /\ unused' = unused \ {e}
        /\ \A k \in DOMAIN drives : k # l => drives'[k] = drives[k]
        /\ drives'[l].device = e.address /\ drives'[l].model = drives[l].model
        /\ drives' \in [DOMAIN drives -> Entries]
    BY <1>5, <2>1, <2>2 DEF Takes, Entries
  <2>4. UnusedOK
    BY <1>2 DEF RefreshOK
  <2>5. TypeOK'
    BY <1>1, <1>2, <2>2, <2>3 DEF TypeOK, Refreshing
  <2>6. AddressesDistinct'
    BY <2>1, <2>3, <2>4 DEF AddressesDistinct, UnusedOK
  <2>7. UnusedOK'
    <3>1. \A f \in unused' : f \in unused /\ f # e
      BY <2>3
    <3>2. \A f, g \in unused' : f.address = g.address => f = g
      BY <2>4, <3>1 DEF UnusedOK
    <3>3. \A k \in DOMAIN drives', f \in unused' : drives'[k].device # f.address
      BY <2>1, <2>3, <2>4, <3>1 DEF UnusedOK
    <3> QED BY <3>2, <3>3 DEF UnusedOK
  <2>8. ASSUME ~notified
        PROVE  /\ (LettersCurrent /\ IdentitiesCurrent /\ DevicesCurrent)'
               /\ \A f \in unused' : \E d \in Attached' : f = ScanEntry(d)'
    <3>1. /\ LettersCurrent /\ IdentitiesCurrent /\ DevicesCurrent
          /\ \A f \in unused : \E d \in Attached : f = ScanEntry(d)
      BY <1>2, <2>8 DEF RefreshOK
    <3>2. Attached' = Attached /\ letter' = letter /\ address' = address
          /\ listed' = listed
      BY <1>2 DEF Attached
    <3>3. (LettersCurrent /\ IdentitiesCurrent)'
      BY <2>3, <3>1, <3>2 DEF LettersCurrent, IdentitiesCurrent
    <3>4. \A f \in unused' : \E d \in Attached' : f = ScanEntry(d)'
      BY <2>3, <3>1, <3>2 DEF ScanEntry
    <3>5. PICK c \in Attached : e = ScanEntry(c)
      BY <2>1, <3>1
    <3>6. e.address = address[c] /\ e.model = Model[c]
      BY <3>5 DEF ScanEntry
    <3>7. PICK d \in Attached : letter[d] = l
      BY <2>2, <3>1 DEF LettersCurrent
    <3>8. Model[d] = Model[c]
      <4>1. drives[l].model \in {Model[d], Unknown}
        BY <2>2, <3>1, <3>7 DEF IdentitiesCurrent
      <4>2. Model[c] # Unknown
        BY UnknownAssumption DEF Attached
      <4> QED BY <2>1, <3>6, <4>1, <4>2
    <3>9. Names(l, e.address)
      BY <3>6, <3>7, <3>8 DEF Names, Only
    <3>10. \A k, a : Names(k, a)' = Names(k, a)
      BY <3>2 DEF Names, Only
    <3>11. DevicesCurrent'
      BY <2>3, <3>1, <3>9, <3>10 DEF DevicesCurrent
    <3> QED BY <3>3, <3>4, <3>11
  <2>9. RefreshOK'
    BY <1>2, <2>7, <2>8 DEF RefreshOK, Refreshing
  <2> QED BY <1>3, <2>5, <2>6, <2>9
<1> QED BY <1>1, <1>4, <1>5

\* At its end the selection is in the list, and the list is current.
LEMMA EndRefreshInvariant == IInv /\ EndRefresh => IInv'
<1> SUFFICES ASSUME IInv, EndRefresh PROVE IInv' OBVIOUS
<1> USE DEF IInv
<1>1. /\ UNCHANGED <<letter, address, listed, notified, requested, jobInProgress,
                     drives, todo, popup, busy, request>>
      /\ loop = "assign" /\ loop' = resume /\ ~busy
      /\ resume' = "top" /\ unused' = {}
  BY DEF EndRefresh, world, job, RefreshOK, Refreshing
<1>2. loop' \in {"top", "draw"}
  BY <1>1 DEF TypeOK
<1>3. TypeOK'
  BY <1>1, <1>2 DEF TypeOK, EndRefresh, IsFirst, Refreshing
<1>4. (WorldOK /\ AddressesDistinct)'
  BY <1>1 DEF WorldOK, AddressesDistinct
<1>5. RefreshOK' /\ ClosesIdle' /\ CloseOK' /\ InspectedIsWritten'
  BY <1>1, <1>2 DEF RefreshOK, Refreshing, ClosesIdle, CloseOK, InspectedIsWritten
<1>6. ListIsCurrent'
  <2>1. ~notified => LettersCurrent /\ DevicesCurrent
    BY <1>1 DEF RefreshOK
  <2> QED BY <1>1, <2>1 DEF ListIsCurrent, LettersCurrent, DevicesCurrent,
            Pending, Attached, Names, Only
<1> QED BY <1>3, <1>4, <1>5, <1>6

-----------------------------------------------------------------------------
(* The other steps of the message loop                                     *)

\* The pump turns a message into a request and so keeps it pending.
LEMMA PumpInvariant == IInv /\ (SampleBusy \/ Pump) => IInv'
<1> SUFFICES ASSUME IInv, SampleBusy \/ Pump PROVE IInv' OBVIOUS
<1> USE DEF IInv
<1>1. /\ UNCHANGED <<letter, address, listed, drives, selected, todo, unused, popup,
                     busy, request, resume>>
      /\ ~Refreshing /\ ~Refreshing' /\ Pending' = Pending
  BY DEF SampleBusy, Pump, world, list, job, Refreshing, Pending, TypeOK
<1>2. TypeOK'
  BY <1>1 DEF TypeOK, SampleBusy, Pump, Refreshing
<1>3. (WorldOK /\ AddressesDistinct)'
  BY <1>1, ListUnchanged DEF world
<1>4. RefreshOK'
  BY <1>1 DEF RefreshOK, Refreshing
<1>5. ListIsCurrent' /\ InspectedIsWritten'
  BY <1>1 DEF ListIsCurrent, InspectedIsWritten, Attached, Names, Only
<1>6. ClosesIdle' /\ CloseOK'
  BY <1>1 DEF ClosesIdle, CloseOK, SampleBusy, Pump
<1> QED BY <1>2, <1>3, <1>4, <1>5, <1>6

\* A request is given up only for a refresh, and that only without a job.
LEMMA ServeRefreshInvariant == IInv /\ ServeRefresh => IInv'
<1> SUFFICES ASSUME IInv, ServeRefresh PROVE IInv' OBVIOUS
<1> USE DEF IInv
<1>1. /\ UNCHANGED <<letter, address, listed, drives, selected, todo, unused, popup,
                     busy, request, notified, jobInProgress>>
      /\ loop = "refresh" /\ resume' \in {"top", "draw"}
      /\ \/ loop' = "enumerate" /\ ~busy /\ requested' = FALSE
         \/ loop' = "draw" /\ UNCHANGED requested
  BY DEF ServeRefresh, world, list, job, TypeOK
<1>2. TypeOK'
  BY <1>1 DEF TypeOK, Refreshing
<1>3. (WorldOK /\ AddressesDistinct)'
  BY <1>1, ListUnchanged DEF world
<1>4. RefreshOK' /\ ClosesIdle' /\ CloseOK'
  BY <1>1 DEF RefreshOK, Refreshing, ClosesIdle, CloseOK
<1>5. ListIsCurrent' /\ InspectedIsWritten'
  BY <1>1 DEF ListIsCurrent, InspectedIsWritten, Attached, Names, Only,
              Refreshing, Pending
<1> QED BY <1>2, <1>3, <1>4, <1>5

\* A job is started for a drive of the list, and so for a current pair.
LEMMA DrawInvariant == IInv /\ Draw => IInv'
<1> SUFFICES ASSUME IInv, Draw PROVE IInv' OBVIOUS
<1> USE DEF IInv
<1>1. /\ UNCHANGED <<letter, address, listed, drives, todo, unused, notified,
                     requested, jobInProgress>>
      /\ loop = "draw" /\ loop' \in {"top", "enumerate"}
      /\ ~Refreshing /\ (loop' = "enumerate" => ~busy /\ UNCHANGED job)
      /\ resume' \in {"top", "draw"} /\ popup' \in BOOLEAN
      /\ selected' = selected \/ selected' \in DOMAIN drives
  BY DEF Draw, Idle, SelectDrive, RefreshButton, OpenPopup, DryRun, OtherJob,
         ConfirmBurn, Cancel, world, Refreshing, TypeOK
<1>2. \/ UNCHANGED job
      \/ busy' = TRUE /\ request' = NoRequest
      \/ busy' = TRUE /\ request' = SelectedDrive /\ DOMAIN drives # {}
  BY DEF Draw, Idle, SelectDrive, RefreshButton, OpenPopup, DryRun, OtherJob,
         ConfirmBurn, Cancel, Start, CanBurn, job
<1>3. IF DOMAIN drives = {} THEN selected = 0 ELSE selected \in DOMAIN drives
  BY <1>1 DEF TypeOK
<1>4. /\ busy' \in BOOLEAN
      /\ request' \in [root : Letters \union {0}, device : Addresses \union {0}]
  <2>1. CASE UNCHANGED job
    BY <2>1 DEF TypeOK, job
  <2>2. CASE busy' = TRUE /\ request' = NoRequest
    BY <2>2 DEF NoRequest
  <2>3. CASE busy' = TRUE /\ request' = SelectedDrive /\ DOMAIN drives # {}
    <3>1. selected \in DOMAIN drives /\ selected \in Letters
      BY <1>3, <2>3 DEF TypeOK
    <3>2. drives[selected].device \in Addresses \union {0}
      <4>1. drives[selected] \in Entries
        BY <3>1 DEF TypeOK
      <4> QED BY <4>1 DEF Entries
    <3> QED BY <2>3, <3>1, <3>2 DEF SelectedDrive
  <2> QED BY <1>2, <2>1, <2>2, <2>3
<1>5. TypeOK'
  <2>1. IF DOMAIN drives = {} THEN selected' = 0 ELSE selected' \in DOMAIN drives
    BY <1>1, <1>3
  <2>2. selected' \in Letters \union {0}
    BY <2>1 DEF TypeOK
  <2> QED BY <1>1, <1>4, <2>1, <2>2 DEF TypeOK, Refreshing
<1>6. (WorldOK /\ AddressesDistinct)'
  BY <1>1, ListUnchanged DEF world
<1>7. RefreshOK' /\ ClosesIdle' /\ CloseOK'
  BY <1>1 DEF RefreshOK, Refreshing, ClosesIdle, CloseOK, job
<1>8. Pending' = Pending /\ (\A l, a : Names(l, a)' = Names(l, a)) /\ Attached' = Attached
  BY <1>1 DEF Pending, Names, Only, Attached
<1>9. ListIsCurrent'
  BY <1>1, <1>8 DEF ListIsCurrent
<1>10. InspectedIsWritten'
  <2>1. CASE UNCHANGED job
    BY <1>8, <2>1 DEF InspectedIsWritten, job
  <2>2. CASE request' = NoRequest
    BY <2>2 DEF InspectedIsWritten, NoRequest
  <2>3. CASE request' = SelectedDrive /\ DOMAIN drives # {}
    <3>1. /\ request'.root = selected /\ selected \in DOMAIN drives
          /\ request'.device = drives[selected].device
      BY <1>3, <2>3 DEF SelectedDrive
    <3> QED BY <1>1, <1>8, <3>1 DEF ListIsCurrent, InspectedIsWritten
  <2> QED BY <1>2, <2>1, <2>2, <2>3
<1> QED BY <1>5, <1>6, <1>7, <1>9, <1>10

-----------------------------------------------------------------------------
(* Steps of the rest of the world                                          *)

LEMMA JobEndsInvariant == IInv /\ JobEnds => IInv'
<1> SUFFICES ASSUME IInv, JobEnds PROVE IInv' OBVIOUS
<1> USE DEF IInv
<1>1. /\ UNCHANGED <<letter, address, listed, drives, selected, todo, unused, popup,
                     notified, requested, jobInProgress, loop, resume>>
      /\ busy' = FALSE /\ request' = NoRequest
  BY DEF JobEnds, world, list
<1>2. TypeOK'
  BY <1>1 DEF TypeOK, Refreshing, NoRequest
<1>3. (WorldOK /\ AddressesDistinct)'
  BY <1>1, ListUnchanged DEF world
<1>4. RefreshOK'
  BY <1>1 DEF RefreshOK, Refreshing, UnusedOK, LettersCurrent, IdentitiesCurrent,
         DevicesCurrent, Attached, Names, Only, ScanEntry
<1>5. (ListIsCurrent /\ InspectedIsWritten /\ ClosesIdle /\ CloseOK)'
  BY <1>1 DEF ListIsCurrent, InspectedIsWritten, ClosesIdle, CloseOK, Refreshing,
         Pending, Attached, Names, Only
<1> QED BY <1>2, <1>3, <1>4, <1>5

\* A device change is pending from the moment it happens.
LEMMA DeviceChangeInvariant == IInv /\ DeviceChange => IInv'
<1> SUFFICES ASSUME IInv, DeviceChange PROVE IInv' OBVIOUS
<1> USE DEF IInv
<1>1. /\ UNCHANGED <<listed, drives, selected, todo, unused, popup, busy, request,
                     requested, jobInProgress, loop, resume>>
      /\ notified' = TRUE
  BY DEF DeviceChange, list, job
<1>2. PICK d \in Drives : Attach(d) \/ Detach(d)
  BY DEF DeviceChange
<1>3. /\ letter' \in [Drives -> Letters \union {0}]
      /\ address' \in [Drives -> Addresses \union {0}]
      /\ WorldOK'
  <2>1. CASE Detach(d)
    BY <2>1 DEF Detach, WorldOK, TypeOK
  <2>2. CASE Attach(d)
    <3>1. PICK l \in Letters, a \in Addresses :
            /\ \A e \in Drives : letter[e] # l /\ address[e] # a
            /\ letter' = [letter EXCEPT ![d] = l]
            /\ address' = [address EXCEPT ![d] = a]
      BY <2>2 DEF Attach
    <3>2. l # 0 /\ a # 0
      BY NumbersAssumption
    <3> QED BY <3>1, <3>2 DEF WorldOK, TypeOK
  <2> QED BY <1>2, <2>1, <2>2
<1>4. TypeOK'
  BY <1>1, <1>3 DEF TypeOK, Refreshing
<1>5. AddressesDistinct'
  BY <1>1 DEF AddressesDistinct
<1>6. RefreshOK'
  BY <1>1 DEF RefreshOK, Refreshing, UnusedOK
<1>7. (ListIsCurrent /\ InspectedIsWritten /\ ClosesIdle /\ CloseOK)'
  BY <1>1 DEF ListIsCurrent, InspectedIsWritten, ClosesIdle, CloseOK, Pending
<1> QED BY <1>3, <1>4, <1>5, <1>6, <1>7

LEMMA StutterInvariant == IInv /\ UNCHANGED vars => IInv'
<1> SUFFICES ASSUME IInv, UNCHANGED vars PROVE IInv' OBVIOUS
<1>1. UNCHANGED <<letter, address, listed, drives, selected, todo, unused, popup,
                  notified, requested, jobInProgress, loop, resume, busy, request>>
  BY DEF vars, world, list, job
<1> QED BY <1>1 DEF IInv, TypeOK, WorldOK, AddressesDistinct, RefreshOK,
       ListIsCurrent, InspectedIsWritten, ClosesIdle, CloseOK, Refreshing,
       UnusedOK, LettersCurrent, IdentitiesCurrent, DevicesCurrent, Attached,
       Names, Only, ScanEntry, Pending

-----------------------------------------------------------------------------
(* Theorems                                                                *)

LEMMA StepInvariant == IInv /\ [Next]_vars => IInv'
<1>1. IInv /\ Loop => IInv'
  BY EnumerateInvariant, ScanInvariant, AssignInvariant, EndRefreshInvariant,
     PumpInvariant, ServeRefreshInvariant, DrawInvariant DEF Loop
<1>2. IInv /\ Next => IInv'
  BY <1>1, JobEndsInvariant, DeviceChangeInvariant, StutterInvariant DEF Next, Closed
<1> QED BY <1>2, StutterInvariant

\* The inductive invariant holds in every reachable state of the window, its
\* list of drives and the devices.
THEOREM DriveMapInvariance == Spec => []IInv
<1>1. Init => IInv BY InitInvariant
<1>2. IInv /\ [Next]_vars => IInv' BY StepInvariant
<1> QED BY <1>1, <1>2, PTL DEF Spec

\* Every variable keeps its type and the selection stays within the list
\* (RefreshDrives, main.cpp).
THEOREM SelectionInList == Spec => []TypeOK
<1>1. IInv => TypeOK BY DEF IInv
<1> QED BY <1>1, DriveMapInvariance, PTL

\* However many drives of one model there are, no address is given to two of
\* them (AssignCdrecordAddresses, drive_manager.cpp).
THEOREM DistinctAddresses == Spec => []AddressesDistinct
<1>1. IInv => AddressesDistinct BY DEF IInv
<1> QED BY <1>1, DriveMapInvariance, PTL

\* The list of drives is that of the devices unless a change is pending
\* (WM_DEVICECHANGE and the refresh in wWinMain).
THEOREM CurrentList == Spec => []ListIsCurrent
<1>1. IInv => ListIsCurrent BY DEF IInv
<1> QED BY <1>1, DriveMapInvariance, PTL

\* A job inspects and records the same drive, or at worst another one of the
\* same model (the requests built in DrawApp).
THEOREM OneDrivePerJob == Spec => []InspectedIsWritten
<1>1. IInv => InspectedIsWritten BY DEF IInv
<1> QED BY <1>1, DriveMapInvariance, PTL

\* The window closes only on an idle engine (WM_CLOSE).
THEOREM IdleClose == Spec => []ClosesIdle
<1>1. IInv => ClosesIdle BY DEF IInv
<1> QED BY <1>1, DriveMapInvariance, PTL
=============================================================================
