----------------------------- MODULE BurnerMax ------------------------------
(***************************************************************************)
(* EnableBurnerMax (src/src/burnermax.cpp): finds the capacity constants   *)
(* of layer 0 and layer 1 in the register memory of a MediaTek drive,      *)
(* overwrites them byte by byte through one of two vendor command          *)
(* families, and accepts the drive only after reading everything back.     *)
(*                                                                         *)
(* The memory is abstracted to its sites: the places where, on the stock   *)
(* drive, a signature stands.  No byte of a signature or of a replacement  *)
(* occurs in another place of these patterns, so occurrences never overlap *)
(* and a site is described by the set of its bytes that are replaced.      *)
(* Calls follow one another (BurnEngine allows one job at a time); any     *)
(* command may fail, a failed or even a successful write may have had its  *)
(* effect or not, and the registers live until the disc is ejected.        *)
(*                                                                         *)
(* X_<mistake> is X with a mistake somebody could make in that code, to be *)
(* put in the place of X when the property it breaks must be found         *)
(* violated.                                                               *)
(***************************************************************************)
EXTENDS Integers, FiniteSets

CONSTANTS
  L0, L1,      \* addresses of the layer 0 and the layer 1 signatures
  Seeing,      \* families whose reads show the register memory
  Answering,   \* families whose reads succeed at all
  MaxMatches   \* kMaximumSignatureMatches

Sites    == L0 \union L1
Families == {"F1", "DF"}

ASSUME SitesAssumption == Sites \subseteq Nat /\ L0 \intersect L1 = {}

ASSUME FamiliesAssumption ==
  Seeing \subseteq Answering /\ Answering \subseteq Families

VARIABLES
  regs,      \* the drive: the replaced bytes of each site
  boundary,  \* the drive: the layer boundary it reports
  pc,        \* where EnableBurnerMax is
  family,    \* the VendorFamily in use
  found,     \* the sites layer0 and layer1 of TryPayloadFamily
  left,      \* bytes PatchPatternSet has still to write
  wrote,     \* families through which this call has written
  result,    \* BurnerMaxResult of the last call: status and message
  start      \* history: the registers when the call began

drive == <<regs, boundary>>
vars  == <<regs, boundary, pc, family, found, left, wrote, result, start>>

-----------------------------------------------------------------------------
Bytes    == 1 .. 3
Stock    == {}
Replaced == Bytes

Boundaries == {"nominal", "xgd3"}

\* A scan shows the memory, or for a drive that answers the command with
\* something else, neither pattern anywhere.
Nothing == [s \in Sites |-> {1}]

View(f) == IF f \in Seeing THEN regs ELSE Nothing

\* FindPattern
Matches(view, sites, pattern) == {s \in sites : view[s] = pattern}

Results == [status : {"none", "AlreadyEnabled", "Enabled", "Unsupported", "IoError"},
            message : {"none", "active", "enabled", "cannotOpen", "noBoundary",
                       "notVerified", "noPayload", "writeFailed",
                       "readBackFailed", "wrongBoundary"}]

Success == result.status \in {"AlreadyEnabled", "Enabled"}

Init ==
  /\ regs = [s \in Sites |-> Stock]
  /\ boundary \in Boundaries
  /\ pc = "idle" /\ family = "F1"
  /\ found = {} /\ left = {} /\ wrote = {}
  /\ result = [status |-> "none", message |-> "none"]
  /\ start = regs

Return(status, message) ==
  /\ pc' = "idle"
  /\ result' = [status |-> status, message |-> message]

-----------------------------------------------------------------------------
(* The call                                                                *)

Begin ==
  /\ pc = "idle"
  /\ pc' = "open" /\ family' = "F1"
  /\ found' = {} /\ left' = {} /\ wrote' = {}
  /\ result' = [status |-> "none", message |-> "none"]
  /\ start' = regs
  /\ UNCHANGED drive

\* CreateFileW, and the first ReadLayerBoundary
Open ==
  /\ pc = "open"
  /\ \/ Return("IoError", "cannotOpen")
     \/ Return("Unsupported", "noBoundary")
     \/ /\ pc' = IF boundary = "xgd3" THEN "verifyActive" ELSE "scan"
        /\ UNCHANGED result
  /\ UNCHANGED <<drive, family, found, left, wrote, start>>

\* VerifyActivePayloadFamily, with F1 and, if that fails, with DF
ActivePayload(view) ==
  /\ Matches(view, L0, Replaced) # {} /\ Matches(view, L1, Replaced) # {}
  /\ Matches(view, L0, Stock) = {} /\ Matches(view, L1, Stock) = {}

VerifyActive ==
  /\ pc = "verifyActive"
  /\ \/ /\ family \in Answering /\ ActivePayload(View(family))
        /\ Return("AlreadyEnabled", "active")
        /\ UNCHANGED family
     \/ \* the scan fails, or does not show an active payload
        /\ IF family = "F1"
           THEN family' = "DF" /\ UNCHANGED <<pc, result>>
           ELSE Return("IoError", "notVerified") /\ UNCHANGED family
  /\ UNCHANGED <<drive, found, left, wrote, start>>

\* What TryPayloadFamily requires of the scan before it writes
Recognised(view) ==
  LET l0 == Matches(view, L0, Stock)
      l1 == Matches(view, L1, Stock)
  IN  /\ l0 # {} /\ l1 # {}
      /\ Cardinality(l0) <= MaxMatches /\ Cardinality(l1) <= MaxMatches

\* The other family is tried only while nothing has been written.
GiveUpFamily ==
  IF family = "F1"
  THEN /\ family' = "DF" /\ pc' = "scan" /\ UNCHANGED result
  ELSE /\ Return("Unsupported", "noPayload") /\ UNCHANGED family

Scan ==
  /\ pc = "scan"
  /\ \/ /\ family \in Answering /\ Recognised(View(family))
        /\ found' = Matches(View(family), Sites, Stock)
        /\ left' = found' \X Bytes
        /\ pc' = "patch"
        /\ UNCHANGED <<family, result>>
     \/ \* the scan fails, or shows no signatures or too many
        /\ GiveUpFamily
        /\ UNCHANGED <<found, left>>
  /\ UNCHANGED <<drive, wrote, start>>

\* PatchPatternSet writes layer 0 first, and each set in the order found.
Before(v, w) ==
  \/ v[1] \in L0 /\ w[1] \in L1
  \/ (v[1] \in L0 <=> w[1] \in L0) /\ v[1] < w[1]
  \/ v[1] = w[1] /\ v[2] < w[2]

\* A write that has its effect may change what the drive reports.
Land(w) ==
  /\ regs' = [regs EXCEPT ![w[1]] = @ \union {w[2]}]
  /\ boundary' \in Boundaries

\* A write fails: the call ends, and no other family is tried.
FailWrite_FallsBack == GiveUpFamily /\ UNCHANGED <<found, left>>

FailWrite == /\ Return("IoError", "writeFailed")
             /\ UNCHANGED <<family, found, left>>

Patch ==
  /\ pc = "patch"
  /\ \E w \in left :
       /\ \A v \in left \ {w} : Before(w, v)
       /\ wrote' = wrote \union {family}
       /\ Land(w) \/ UNCHANGED drive
       /\ \/ /\ left' = left \ {w}
             /\ pc' = IF left' = {} THEN "rescan" ELSE "patch"
             /\ UNCHANGED <<family, found, result>>
          \/ FailWrite
  /\ UNCHANGED start

\* The read-back: each patched site replaced, no signature left anywhere
ReadBack_LayerZero(view) ==
  /\ \A s \in found \intersect L0 : view[s] = Replaced
  /\ Matches(view, L0, Stock) = {}

ReadBack(view) ==
  /\ \A s \in found : view[s] = Replaced
  /\ Matches(view, Sites, Stock) = {}

Rescan ==
  /\ pc = "rescan"
  /\ \/ /\ family \in Answering /\ ReadBack(View(family))
        /\ pc' = "reread"
        /\ UNCHANGED result
     \/ Return("IoError", "writeFailed")
  /\ UNCHANGED <<drive, family, found, left, wrote, start>>

\* The last word is the layer boundary the drive reports.
ReadBoundary ==
  /\ pc = "reread"
  /\ \/ Return("IoError", "readBackFailed")
     \/ boundary = "xgd3" /\ Return("Enabled", "enabled")
     \/ boundary # "xgd3" /\ Return("Unsupported", "wrongBoundary")
  /\ UNCHANGED <<drive, family, found, left, wrote, start>>

\* Between calls the disc is ejected, which resets the drive, or a plain
\* SEND DVD STRUCTURE moves the boundary.
Reinsert ==
  /\ pc = "idle"
  /\ regs' = [s \in Sites |-> Stock]
  /\ boundary' \in Boundaries
  /\ result' = [status |-> "none", message |-> "none"]
  /\ start' = regs'
  /\ UNCHANGED <<pc, family, found, left, wrote>>

Step == Open \/ VerifyActive \/ Scan \/ Patch \/ Rescan \/ ReadBoundary

Next == Begin \/ Step \/ Reinsert

Spec == Init /\ [][Next]_vars

-----------------------------------------------------------------------------
(* Properties                                                              *)

\* The type of every variable; there are bytes to write only while patching,
\* and only bytes of sites that were found.
TypeOK ==
  /\ regs \in [Sites -> SUBSET Bytes] /\ boundary \in Boundaries
  /\ pc \in {"idle", "open", "verifyActive", "scan", "patch", "rescan", "reread"}
  /\ family \in Families
  /\ found \subseteq Sites /\ left \subseteq found \X Bytes
  /\ wrote \subseteq Families
  /\ result \in Results
  /\ start \in [Sites -> SUBSET Bytes]

\* One call never writes through both command families: the memory is never
\* left with a payload half in one dialect and half in the other.
OneFamilyWrites == wrote # {} => wrote = {family}

\* A call that returns Enabled has left no signature anywhere, has replaced
\* every site it found, has disturbed nothing else, and the drive reports the
\* XGD3 boundary, whatever commands were ignored or applied on the way.
EnabledIsComplete ==
  result.status = "Enabled" =>
    /\ boundary = "xgd3"
    /\ \A s \in Sites : regs[s] = IF start[s] = Stock THEN Replaced ELSE start[s]

\* A call that ends without success, but may have left its mark on the
\* registers, says so: its message is one of those that speak of a write.
ChangesAreReported ==
  (pc = "idle" /\ ~Success /\ regs # start)
  => result.message \in {"writeFailed", "readBackFailed", "wrongBoundary"}
=============================================================================
