---------------------------- MODULE DiscGeometry ----------------------------
(***************************************************************************)
(* From the size of a DVD image to the layer break on the disc.            *)
(*                                                                         *)
(* RunStandardImage (src/src/burn_engine.cpp) checks the size of an image, *)
(* the profile of the medium and the capacity the drive reports, chooses a *)
(* layer break and hands it to RetroBeam (external/schilytools/cdrecord)   *)
(* or to growisofs (external/dvd-rw-tools-windows), each of which has      *)
(* conditions of its own.  BurnEngine abstracts sizes to classes and has   *)
(* the threads, files and failures; here the sizes are exact and there is  *)
(* one job.  A size is a number of 2048-byte sectors; an image that is not *)
(* a whole number of them is "ragged", and its size is rounded up.         *)
(*                                                                         *)
(* X_<mistake> is X with a mistake somebody could make in that code, to be *)
(* put in the place of X when the property it breaks must be found         *)
(* violated.                                                               *)
(***************************************************************************)
EXTENDS Naturals

CONSTANTS
  Sizes,     \* sizes an image may have
  DiscKinds  \* the blank discs the user owns

\* kDvdRSingleLayerBytes, kDvdPlusRDualLayerNominalBytes, kXgd3FullImageBytes
SingleLayer == 2298496
DualLayer   == 4173824
FullXgd3    == 4267040

\* The two fixed layer breaks
Xgd2Break == 1913760
Xgd3Break == 2133520

Targets  == {"ps2dvd", "xgd2", "xgd3"}
Profiles == {"plus", "minus", "plusDL", "minusDL", "other"}

\* A disc: its profile, its free sectors, whether mediainfo reports them, the
\* capacity of layer 0, and whether the drive offers layer jump recording.
Discs == [profile : Profiles, free : Nat, reported : BOOLEAN, layer0 : Nat,
          jump : BOOLEAN]

ASSUME SizesAssumption == Sizes \subseteq Nat

IsSingleLayer(d) == d.profile \in {"minus", "plus"}
IsDualLayer(d)   == d.profile \in {"minusDL", "plusDL"}

\* A blank dual-layer disc: two equal layers of whole ECC blocks, no smaller
\* than XGD2 asks and no larger than the boundary BurnerMAX leaves behind.
TwoLayers(d) ==
  /\ d.layer0 % 16 = 0
  /\ Xgd2Break <= d.layer0 /\ d.layer0 <= Xgd3Break
  /\ d.free = 2 * d.layer0

ASSUME DiscsAssumption ==
  /\ DiscKinds \subseteq Discs
  /\ \A d \in DiscKinds : IsDualLayer(d) => TwoLayers(d)

VARIABLES
  image,       \* the selected image: target, sectors, ragged
  growisofs,   \* request.useGrowisofsForDvd
  payload,     \* sectors of the file that is recorded (burnImagePath)
  disc,        \* the disc in the drive
  stage,       \* how far the job has got
  layerBreak   \* selectedLayerBreak, 0 for none

vars == <<image, growisofs, payload, disc, stage, layerBreak>>

Stages == {"selected", "validated", "inspected", "expanded", "fits", "planned",
           "recorded", "refused", "failed"}

-----------------------------------------------------------------------------
(* Arithmetic of layer breaks                                              *)

RoundUp16(n) == ((n + 15) \div 16) * 16

\* The break of a PS2 DVD9: half the image, rounded up twice.  Both backends
\* have this code.
Ps2Break_AlwaysUp(n) == (((n + 1) \div 2) \div 16 + 1) * 16

Ps2Break_Truncates(n) == (((n + 1) \div 2) \div 16) * 16

Ps2Break(n) == RoundUp16((n + 1) \div 2)

\* growisofs pads the track to twice the layer break it is given.
PaddedTrack(n, break) == IF break = 0 THEN n ELSE 2 * break

\* growisofs tells the drive to split after this many sectors.
GrowisofsSplit(track) == ((RoundUp16(track) \div 16 + 1) \div 2) * 16

-----------------------------------------------------------------------------
Init ==
  /\ image \in [target : Targets, sectors : Sizes, ragged : BOOLEAN]
  /\ growisofs \in BOOLEAN
  /\ disc \in DiscKinds
  /\ payload = 0 /\ stage = "selected" /\ layerBreak = 0

Limit(target) == IF target = "xgd3" THEN FullXgd3 ELSE DualLayer

Fail == /\ stage' = "failed"
        /\ UNCHANGED <<image, growisofs, payload, disc, layerBreak>>

\* The size limits of ValidateStandardImage
ValidImage ==
  /\ image.sectors > 0 /\ ~image.ragged
  /\ image.sectors <= Limit(image.target)

\* An XGD3 image is burnt from the copy abgx360 prepared, which it may have
\* truncated; any other image as it is.
Validate ==
  /\ stage = "selected"
  /\ \/ /\ ValidImage
        /\ payload' \in IF image.target = "xgd3"
                        THEN {n \in Sizes : 0 < n /\ n <= image.sectors}
                        ELSE {image.sectors}
        /\ stage' = "validated"
        /\ UNCHANGED <<image, growisofs, disc, layerBreak>>
     \/ ~ValidImage /\ Fail

MediaAccepted_AnyDvd ==
  IF image.target = "ps2dvd" THEN IsDualLayer(disc) \/ IsSingleLayer(disc)
                             ELSE IsDualLayer(disc)

MediaAccepted ==
  IF image.target = "ps2dvd"
  THEN IsDualLayer(disc) \/ (IsSingleLayer(disc) /\ payload <= SingleLayer)
  ELSE disc.profile = "plusDL"

InspectMedia ==
  /\ stage = "validated"
  /\ \/ /\ MediaAccepted
        /\ stage' = IF image.target = "xgd3" THEN "inspected" ELSE "expanded"
        /\ UNCHANGED <<image, growisofs, payload, disc, layerBreak>>
     \/ ~MediaAccepted /\ Fail

\* EnableBurnerMax leaves the XGD3 layer boundary behind or fails; mediainfo
\* is read again, and what the drive then says of its capacity is up to it.
EnableBurnerMax ==
  /\ stage = "inspected"
  /\ \/ /\ \E free \in {disc.free, FullXgd3}, reported \in BOOLEAN :
             disc' = [disc EXCEPT !.layer0 = Xgd3Break, !.free = free,
                                  !.reported = reported]
        /\ stage' = "expanded"
        /\ UNCHANGED <<image, growisofs, payload, layerBreak>>
     \/ Fail

\* The verdict on the reported capacity; a capacity that is not reported
\* stops only an XGD3 burn.
CapacityOK ==
  /\ image.target = "xgd3" => disc.reported /\ disc.free >= FullXgd3
  /\ disc.reported => payload <= disc.free

CheckCapacity ==
  /\ stage = "expanded"
  /\ \/ /\ CapacityOK
        /\ stage' = "fits"
        /\ UNCHANGED <<image, growisofs, payload, disc, layerBreak>>
     \/ ~CapacityOK /\ Fail

\* selectedLayerBreak: a dual-layer image is told by its size, not by the
\* medium, and a break that is not inside the image is an error.
XboxBreak == IF image.target = "xgd3" THEN Xgd3Break ELSE Xgd2Break

Break == IF image.target # "ps2dvd" THEN XboxBreak
         ELSE IF payload > SingleLayer THEN Ps2Break(payload) ELSE 0

BreakInside ==
  image.target = "ps2dvd" /\ Break # 0 => Break < payload

PlanBreak ==
  /\ stage = "fits"
  /\ stage' = IF BreakInside THEN "planned" ELSE "failed"
  /\ layerBreak' = IF BreakInside THEN Break ELSE 0
  /\ UNCHANGED <<image, growisofs, payload, disc>>

\* RetroBeam: the checks of the layerbreak option, of set_p_layerbreak for
\* DVD+R DL and of the disc capacity.
RetroBeamRefuses ==
  \/ payload > disc.free
  \/ layerBreak # RoundUp16(layerBreak)
  \/ layerBreak # 0 /\ disc.profile # "plusDL" /\ ~disc.jump
  \/ /\ disc.profile = "plusDL"
     /\ \/ layerBreak > disc.layer0
        \/ layerBreak = 0 /\ RoundUp16(payload) <= disc.layer0
        \/ /\ layerBreak # 0
           /\ layerBreak < RoundUp16(RoundUp16(payload) \div 2)

\* growisofs: the checks of the break option, of the track and of
\* plus_r_dl_split for DVD+R DL.
GrowisofsRefuses ==
  LET track == PaddedTrack(payload, layerBreak)
  IN  \/ payload > disc.free
      \/ layerBreak % 16 # 0
      \/ layerBreak # 0 /\ payload > 2 * layerBreak
      \/ disc.profile = "plusDL" /\ RoundUp16(track) <= disc.layer0

Refuses == IF growisofs THEN GrowisofsRefuses ELSE RetroBeamRefuses

StartRecorder ==
  /\ stage = "planned"
  /\ stage' = IF Refuses THEN "refused" ELSE "recorded"
  /\ UNCHANGED <<image, growisofs, payload, disc, layerBreak>>

\* The job is over.
Done == stage \in {"recorded", "refused", "failed"} /\ UNCHANGED vars

Next == \/ Validate \/ InspectMedia \/ EnableBurnerMax \/ CheckCapacity
        \/ PlanBreak \/ StartRecorder \/ Done

Spec == Init /\ [][Next]_vars

-----------------------------------------------------------------------------
(* Properties                                                              *)

\* The type of every variable.  A file that got past validation is not empty
\* and within the limit of its target, a copy truncated by abgx360 included; a
\* break is there once it is planned.
TypeOK ==
  /\ image \in [target : Targets, sectors : Nat, ragged : BOOLEAN]
  /\ growisofs \in BOOLEAN
  /\ payload \in Nat
  /\ stage \notin {"selected", "failed"} => payload \in 1 .. Limit(image.target)
  /\ layerBreak \in Nat
  /\ stage \notin {"planned", "recorded", "refused"} => layerBreak = 0
  /\ disc \in Discs
  /\ stage \in Stages

\* What a layer break must be for the backends and the drive: a whole number
\* of ECC blocks, with no more data behind it than before it, and within what
\* a nominal (or, for XGD3, an expanded) layer 0 holds.
GoodBreak(break, n) ==
  /\ break % 16 = 0
  /\ RoundUp16(n) <= 2 * break
  /\ break <= Xgd3Break

\* The break computed for a PS2 DVD9, and the XGD3 break on whatever abgx360
\* left of the image, are good; so is the place where growisofs, which derives
\* it anew from the padded track, will tell the drive to split.
BreaksAreGood ==
  stage \in {"planned", "recorded", "refused"} /\ layerBreak # 0
    /\ image.target # "xgd2"
  => /\ GoodBreak(layerBreak, payload)
     /\ GrowisofsSplit(PaddedTrack(payload, layerBreak)) = layerBreak

\* A PS2 DVD9 break never leaves layer 0 of nominal media, so it is only the
\* pairing of break and medium that can go wrong, never the arithmetic: the
\* branch "Could not calculate a valid PS2 DVD9 layer break" is dead code.
Ps2BreakInside ==
  image.target = "ps2dvd" =>
    /\ stage = "fits" => BreakInside
    /\ 2 * layerBreak <= DualLayer

\* What growisofs adds to reach twice the break still fits the disc whose
\* capacity was checked against the bare image.
PaddingFits ==
  stage = "recorded" /\ growisofs /\ IsDualLayer(disc) /\ disc.reported
  => PaddedTrack(payload, layerBreak) <= disc.free

\* A recorder refuses a job that passed every check for one of four reasons
\* only: an XGD2 image with more data behind the fixed break than before it, a
\* single-layer PS2 image on DVD+R DL, a DVD9 on a drive without layer jump,
\* or a capacity nobody could check.
OnlyKnownRefusals ==
  stage = "refused" =>
    \/ image.target = "xgd2" /\ payload > 2 * Xgd2Break
    \/ image.target = "ps2dvd" /\ layerBreak = 0 /\ disc.profile = "plusDL"
    \/ image.target = "ps2dvd" /\ layerBreak # 0 /\ ~growisofs
         /\ disc.profile = "minusDL" /\ ~disc.jump
    \/ ~disc.reported /\ payload > disc.free
=============================================================================
