------------------------- MODULE DiscGeometryProofs -------------------------
(***************************************************************************)
(* The layer breaks are right for every image size and every blank disc:   *)
(* the arithmetic as lemmas over the naturals, then the invariants of      *)
(* DiscGeometry, which add who pairs which break with which disc.          *)
(***************************************************************************)
EXTENDS DiscGeometry, TLAPS

-----------------------------------------------------------------------------
(* Arithmetic                                                              *)

\* RoundUp16 is the least multiple of 16 that is not below its argument.
LEMMA RoundUp16Least ==
  ASSUME NEW n \in Nat
  PROVE  /\ RoundUp16(n) \in Nat /\ RoundUp16(n) % 16 = 0
         /\ n <= RoundUp16(n) /\ RoundUp16(n) <= n + 15
         /\ \A m \in Nat : m % 16 = 0 /\ n <= m => RoundUp16(n) <= m
BY DEF RoundUp16

\* The break computed for a PS2 DVD9 is aligned, has no more data behind it
\* than before it, and is the least such break: the one the recorder would
\* compute.
LEMMA Ps2BreakLeast ==
  ASSUME NEW n \in Nat
  PROVE  /\ Ps2Break(n) \in Nat /\ Ps2Break(n) % 16 = 0
         /\ n <= 2 * Ps2Break(n)
         /\ RoundUp16(n) <= 2 * Ps2Break(n)
         /\ 2 * Ps2Break(n) <= n + 31
         /\ \A m \in Nat : m % 16 = 0 /\ n <= 2 * m => Ps2Break(n) <= m
         /\ Ps2Break(n) = RoundUp16(RoundUp16(n) \div 2)
<1> DEFINE h == (n + 1) \div 2
<1>1. h \in Nat /\ n <= 2 * h /\ 2 * h <= n + 1
  OBVIOUS
<1>2. /\ Ps2Break(n) \in Nat /\ Ps2Break(n) % 16 = 0
      /\ h <= Ps2Break(n) /\ Ps2Break(n) <= h + 15
      /\ \A m \in Nat : m % 16 = 0 /\ h <= m => Ps2Break(n) <= m
  BY <1>1, RoundUp16Least DEF Ps2Break
<1>3. n <= 2 * Ps2Break(n) /\ 2 * Ps2Break(n) <= n + 31
  BY <1>1, <1>2
<1>4. \A m \in Nat : m % 16 = 0 /\ n <= 2 * m => Ps2Break(n) <= m
  BY <1>1, <1>2
<1>5. RoundUp16(n) <= 2 * Ps2Break(n)
  <2>1. (2 * Ps2Break(n)) \in Nat /\ (2 * Ps2Break(n)) % 16 = 0
    BY <1>2
  <2> QED BY <2>1, <1>3, RoundUp16Least
<1>6. Ps2Break(n) = RoundUp16(RoundUp16(n) \div 2)
  BY DEF Ps2Break, RoundUp16
<1> QED BY <1>2, <1>3, <1>4, <1>5, <1>6

\* growisofs, given twice an aligned break as the size of the track, splits
\* the layers at that break.
LEMMA SplitIsBreak ==
  ASSUME NEW b \in Nat, b % 16 = 0, b # 0, NEW n \in Nat
  PROVE  GrowisofsSplit(PaddedTrack(n, b)) = b
<1>1. PaddedTrack(n, b) = 2 * b
  BY DEF PaddedTrack
<1>2. RoundUp16(2 * b) = 2 * b
  BY DEF RoundUp16
<1>3. (2 * b) \div 16 = 2 * (b \div 16) /\ b = 16 * (b \div 16)
  OBVIOUS
<1>4. (2 * (b \div 16) + 1) \div 2 = b \div 16
  OBVIOUS
<1> QED BY <1>1, <1>2, <1>3, <1>4 DEF GrowisofsSplit

\* An image that does not fit on one layer has its break inside, far enough.
LEMMA Ps2BreakFits ==
  ASSUME NEW n \in Nat, SingleLayer < n, n <= DualLayer
  PROVE  Ps2Break(n) # 0 /\ Ps2Break(n) < n /\ 2 * Ps2Break(n) <= DualLayer
<1>1. Ps2Break(n) \in Nat /\ n <= 2 * Ps2Break(n) /\ 2 * Ps2Break(n) <= n + 31
  BY Ps2BreakLeast
<1>2. 2086912 % 16 = 0 /\ n <= 2 * 2086912
  BY DEF DualLayer
<1>3. Ps2Break(n) <= 2086912
  BY <1>2, Ps2BreakLeast
<1> QED BY <1>1, <1>3 DEF SingleLayer, DualLayer

-----------------------------------------------------------------------------
(* The inductive invariant: what each stage has established is not undone  *)

MediaChecked ==
  {"inspected", "expanded", "fits", "planned", "recorded", "refused"}
CapacityChecked == {"fits", "planned", "recorded", "refused"}
BreakPlanned    == {"planned", "recorded", "refused"}

\* A dual-layer disc keeps two aligned layers; once BurnerMAX has been at it,
\* the first ends at the XGD3 boundary.
DiscInv ==
  /\ IsDualLayer(disc) =>
       /\ disc.layer0 % 16 = 0
       /\ Xgd2Break <= disc.layer0 /\ disc.layer0 <= Xgd3Break
       /\ image.target # "xgd3" => disc.free = 2 * disc.layer0
  /\ image.target = "xgd3" /\ stage \in MediaChecked \ {"inspected"}
       => disc.layer0 = Xgd3Break

\* Each check still holds at every later stage.
StageInv ==
  /\ stage = "inspected" => image.target = "xgd3"
  /\ stage \in MediaChecked => MediaAccepted
  /\ stage \in CapacityChecked => CapacityOK
  /\ stage \in BreakPlanned => layerBreak = Break /\ BreakInside
  /\ stage = "recorded" => ~Refuses
  /\ stage = "refused" => Refuses

IInv == TypeOK /\ DiscInv /\ StageInv

\* A selected image and a blank disc satisfy the invariant.
LEMMA InitInvariant == Init => IInv
<1> SUFFICES ASSUME Init PROVE IInv
  OBVIOUS
<1>1. disc \in Discs /\ (IsDualLayer(disc) => TwoLayers(disc))
  BY DiscsAssumption DEF Init
<1>2. image \in [target : Targets, sectors : Nat, ragged : BOOLEAN]
  BY SizesAssumption DEF Init
<1>3. TypeOK
  BY <1>1, <1>2 DEF Init, TypeOK, Stages
<1>4. DiscInv
  BY <1>1 DEF Init, DiscInv, TwoLayers, MediaChecked
<1>5. StageInv
  BY DEF Init, StageInv, MediaChecked, CapacityChecked, BreakPlanned
<1> QED BY <1>3, <1>4, <1>5 DEF IInv

\* A failed check ends the job and disturbs nothing.
LEMMA FailInvariant == IInv /\ Fail /\ layerBreak = 0 => IInv'
<1> SUFFICES ASSUME IInv, Fail, layerBreak = 0 PROVE IInv'
  OBVIOUS
<1>1. TypeOK'
  BY DEF IInv, TypeOK, Fail, Stages
<1>2. DiscInv'
  BY DEF IInv, DiscInv, Fail, MediaChecked, IsDualLayer
<1>3. StageInv'
  BY DEF Fail, StageInv, MediaChecked, CapacityChecked, BreakPlanned
<1> QED BY <1>1, <1>2, <1>3 DEF IInv

\* Every step of the job keeps what the earlier ones established.
LEMMA NextInvariant == IInv /\ [Next]_vars => IInv'
<1> SUFFICES ASSUME IInv, [Next]_vars PROVE IInv'
  OBVIOUS
<1> USE DEF IInv
<1>1. CASE Validate
  <2>1. CASE Fail
    BY <1>1, <2>1, FailInvariant DEF Validate, TypeOK
  <2>2. CASE ~Fail
    <3>1. /\ ValidImage /\ stage = "selected" /\ stage' = "validated"
          /\ UNCHANGED <<image, growisofs, disc, layerBreak>>
          /\ payload' \in Nat /\ 0 < payload' /\ payload' <= image.sectors
      <4>1. /\ ValidImage /\ stage = "selected" /\ stage' = "validated"
            /\ UNCHANGED <<image, growisofs, disc, layerBreak>>
            /\ payload' \in IF image.target = "xgd3"
                            THEN {n \in Sizes : 0 < n /\ n <= image.sectors}
                            ELSE {image.sectors}
        BY <1>1, <2>2 DEF Validate
      <4>2. image.sectors \in Nat /\ image.sectors > 0
        BY <4>1 DEF ValidImage, TypeOK
      <4> QED BY <4>1, <4>2, SizesAssumption
    <3>2. payload' \in 1 .. Limit(image.target)
      BY <3>1 DEF ValidImage, TypeOK, Limit, FullXgd3, DualLayer
    <3>3. TypeOK'
      BY <3>1, <3>2 DEF TypeOK, Stages, Limit
    <3>4. DiscInv'
      BY <3>1 DEF DiscInv, MediaChecked, IsDualLayer
    <3>5. StageInv'
      BY <3>1 DEF StageInv, MediaChecked, CapacityChecked, BreakPlanned
    <3> QED BY <3>3, <3>4, <3>5
  <2> QED BY <2>1, <2>2
<1>2. CASE InspectMedia
  <2>1. CASE Fail
    BY <1>2, <2>1, FailInvariant DEF InspectMedia, TypeOK
  <2>2. CASE ~Fail
    <3>1. /\ MediaAccepted /\ stage = "validated"
          /\ stage' = IF image.target = "xgd3" THEN "inspected" ELSE "expanded"
          /\ UNCHANGED <<image, growisofs, payload, disc, layerBreak>>
      BY <1>2, <2>2 DEF InspectMedia
    <3>2. TypeOK'
      BY <3>1 DEF TypeOK, Stages, Limit
    <3>3. DiscInv'
      BY <3>1 DEF DiscInv, MediaChecked, IsDualLayer
    <3>4. MediaAccepted'
      BY <3>1 DEF MediaAccepted, IsDualLayer, IsSingleLayer
    <3>5. StageInv'
      BY <3>1, <3>4 DEF StageInv, CapacityChecked, BreakPlanned
    <3> QED BY <3>2, <3>3, <3>5
  <2> QED BY <2>1, <2>2
<1>3. CASE EnableBurnerMax
  <2>1. CASE Fail
    BY <1>3, <2>1, FailInvariant DEF EnableBurnerMax, TypeOK
  <2>2. CASE ~Fail
    <3>1. /\ stage = "inspected" /\ stage' = "expanded"
          /\ UNCHANGED <<image, growisofs, payload, layerBreak>>
      BY <1>3, <2>2 DEF EnableBurnerMax
    <3>2. PICK free \in {disc.free, FullXgd3}, reported \in BOOLEAN :
            disc' = [disc EXCEPT !.layer0 = Xgd3Break, !.free = free,
                                 !.reported = reported]
      BY <1>3, <2>2 DEF EnableBurnerMax
    <3>3. free \in Nat /\ Xgd3Break \in Nat
      BY DEF TypeOK, Discs, FullXgd3, Xgd3Break
    <3>4. disc' \in Discs /\ disc'.profile = disc.profile
            /\ disc'.layer0 = Xgd3Break
      BY <3>2, <3>3 DEF TypeOK, Discs
    <3>5. TypeOK'
      BY <3>1, <3>4 DEF TypeOK, Stages, Limit
    <3>6. image.target = "xgd3"
      BY <3>1 DEF StageInv
    <3>7. DiscInv'
      BY <3>1, <3>4, <3>6 DEF DiscInv, Xgd2Break, Xgd3Break
    <3>8. MediaAccepted'
      <4>1. disc.profile = "plusDL"
        BY <3>1, <3>6 DEF StageInv, MediaChecked, MediaAccepted
      <4>2. image'.target # "ps2dvd" /\ disc'.profile = "plusDL"
        BY <3>1, <3>4, <3>6, <4>1
      <4> QED BY <4>2 DEF MediaAccepted
    <3>9. StageInv'
      BY <3>1, <3>8 DEF StageInv, CapacityChecked, BreakPlanned
    <3> QED BY <3>5, <3>7, <3>9
  <2> QED BY <2>1, <2>2
<1>4. CASE CheckCapacity
  <2>1. CASE Fail
    BY <1>4, <2>1, FailInvariant DEF CheckCapacity, TypeOK
  <2>2. CASE ~Fail
    <3>1. /\ CapacityOK /\ stage = "expanded" /\ stage' = "fits"
          /\ UNCHANGED <<image, growisofs, payload, disc, layerBreak>>
      BY <1>4, <2>2 DEF CheckCapacity
    <3>2. TypeOK'
      BY <3>1 DEF TypeOK, Stages, Limit
    <3>3. DiscInv'
      BY <3>1 DEF DiscInv, MediaChecked, IsDualLayer
    <3>4. MediaAccepted' /\ CapacityOK'
      BY <3>1 DEF StageInv, MediaChecked, MediaAccepted, CapacityOK,
                  IsDualLayer, IsSingleLayer
    <3>5. StageInv'
      BY <3>1, <3>4 DEF StageInv, BreakPlanned
    <3> QED BY <3>2, <3>3, <3>5
  <2> QED BY <2>1, <2>2
<1>5. CASE PlanBreak
  <2>1. /\ stage = "fits"
        /\ stage' = IF BreakInside THEN "planned" ELSE "failed"
        /\ layerBreak' = IF BreakInside THEN Break ELSE 0
        /\ UNCHANGED <<image, growisofs, payload, disc>>
    BY <1>5 DEF PlanBreak
  <2>2. Break \in Nat
    BY Ps2BreakLeast DEF TypeOK, Break, XboxBreak, Xgd2Break, Xgd3Break
  <2>3. TypeOK'
    BY <2>1, <2>2 DEF TypeOK, Stages, Limit
  <2>4. DiscInv'
    BY <2>1 DEF DiscInv, MediaChecked, IsDualLayer
  <2>5. MediaAccepted' /\ CapacityOK'
    BY <2>1 DEF StageInv, MediaChecked, CapacityChecked, MediaAccepted,
                CapacityOK, IsDualLayer, IsSingleLayer
  <2>6. Break' = Break /\ BreakInside' = BreakInside
    BY <2>1 DEF Break, XboxBreak, BreakInside
  <2>7. StageInv'
    BY <2>1, <2>5, <2>6
    DEF StageInv, MediaChecked, CapacityChecked, BreakPlanned
  <2> QED BY <2>3, <2>4, <2>7
<1>6. CASE StartRecorder
  <2>1. /\ stage = "planned"
        /\ stage' = IF Refuses THEN "refused" ELSE "recorded"
        /\ UNCHANGED <<image, growisofs, payload, disc, layerBreak>>
    BY <1>6 DEF StartRecorder
  <2>2. TypeOK'
    BY <2>1 DEF TypeOK, Stages, Limit
  <2>3. DiscInv'
    BY <2>1 DEF DiscInv, MediaChecked, IsDualLayer
  <2>4. MediaAccepted' /\ CapacityOK'
    BY <2>1 DEF StageInv, MediaChecked, CapacityChecked, MediaAccepted,
                CapacityOK, IsDualLayer, IsSingleLayer
  <2>5. Break' = Break /\ BreakInside' = BreakInside
    BY <2>1 DEF Break, XboxBreak, BreakInside
  <2>6. Refuses' = Refuses
    BY <2>1 DEF Refuses, GrowisofsRefuses, RetroBeamRefuses
  <2>7. StageInv'
    BY <2>1, <2>4, <2>5, <2>6 DEF StageInv, BreakPlanned
  <2> QED BY <2>2, <2>3, <2>7
<1>7. CASE UNCHANGED vars
  <2>1. TypeOK' /\ DiscInv'
    BY <1>7 DEF vars, TypeOK, DiscInv, IsDualLayer, Limit
  <2>2. StageInv'
    BY <1>7 DEF vars, StageInv, MediaAccepted, CapacityOK, Break, XboxBreak, BreakInside,
       Refuses, GrowisofsRefuses, RetroBeamRefuses, IsDualLayer, IsSingleLayer
  <2> QED BY <2>1, <2>2
<1> QED BY <1>1, <1>2, <1>3, <1>4, <1>5, <1>6, <1>7 DEF Next, Done

\* Every job keeps what its earlier stages have established.
THEOREM GeometryInvariance == Spec => []IInv
<1>1. Init => IInv
  BY InitInvariant
<1>2. IInv /\ [Next]_vars => IInv'
  BY NextInvariant
<1> QED BY <1>1, <1>2, PTL DEF Spec

\* A file that is past validation is within the limit of its target, for any
\* images and any discs.
THEOREM GeometryTypes == Spec => []TypeOK
<1>1. IInv => TypeOK
  BY DEF IInv
<1> QED BY <1>1, GeometryInvariance, PTL

-----------------------------------------------------------------------------
(* The properties                                                          *)

\* What is known of a job whose break is planned
LEMMA PlannedFacts ==
  ASSUME IInv, stage \in BreakPlanned
  PROVE  /\ payload \in Nat /\ 0 < payload /\ payload <= Limit(image.target)
         /\ layerBreak \in Nat /\ layerBreak = Break /\ BreakInside
         /\ disc \in Discs /\ disc.layer0 \in Nat /\ disc.free \in Nat
         /\ MediaAccepted /\ CapacityOK /\ image.target \in Targets
<1>1. stage \notin {"selected", "failed"}
  BY DEF BreakPlanned
<1>2. Limit(image.target) \in Nat
  BY DEF Limit, DualLayer, FullXgd3
<1>3. /\ payload \in Nat /\ 0 < payload /\ payload <= Limit(image.target)
      /\ layerBreak \in Nat /\ disc \in Discs /\ image.target \in Targets
  BY <1>1, <1>2 DEF IInv, TypeOK
<1>4. disc.layer0 \in Nat /\ disc.free \in Nat
  BY <1>3 DEF Discs
<1>5. MediaAccepted /\ CapacityOK /\ layerBreak = Break /\ BreakInside
  BY DEF IInv, StageInv, BreakPlanned, CapacityChecked, MediaChecked
<1> QED BY <1>3, <1>4, <1>5

\* A PS2 job has no break, and an image that fits on one layer, or the
\* computed one.
LEMMA Ps2Facts ==
  ASSUME IInv, stage \in BreakPlanned, image.target = "ps2dvd"
  PROVE  \/ payload <= SingleLayer /\ layerBreak = 0
         \/ /\ SingleLayer < payload /\ payload <= DualLayer
            /\ layerBreak = Ps2Break(payload) /\ layerBreak # 0
<1>1. payload \in Nat /\ payload <= DualLayer /\ layerBreak = Break
  BY PlannedFacts DEF Limit
<1>2. CASE payload <= SingleLayer
  BY <1>1, <1>2 DEF Break, SingleLayer
<1>3. CASE SingleLayer < payload
  <2>1. layerBreak = Ps2Break(payload)
    BY <1>1, <1>3 DEF Break
  <2> QED BY <1>1, <1>3, <2>1, Ps2BreakFits
<1> QED BY <1>1, <1>2, <1>3 DEF SingleLayer

\* The XGD3 break is right for every image up to the full size.
LEMMA Xgd3BreakGood ==
  ASSUME NEW n \in Nat, n <= FullXgd3
  PROVE  GoodBreak(Xgd3Break, n)
<1>1. FullXgd3 % 16 = 0 /\ FullXgd3 = 2 * Xgd3Break /\ Xgd3Break % 16 = 0
  BY DEF FullXgd3, Xgd3Break
<1>2. RoundUp16(n) <= FullXgd3
  BY <1>1, RoundUp16Least DEF FullXgd3
<1> QED BY <1>1, <1>2 DEF GoodBreak, Xgd3Break

\* The invariant implies that the planned breaks are good.
LEMMA BreaksAreGoodInv == IInv => BreaksAreGood
<1> SUFFICES ASSUME IInv, stage \in BreakPlanned, layerBreak # 0,
                    image.target # "xgd2"
             PROVE  /\ GoodBreak(layerBreak, payload)
                    /\ GrowisofsSplit(PaddedTrack(payload, layerBreak)) = layerBreak
  BY DEF BreaksAreGood, BreakPlanned
<1>1. payload \in Nat /\ layerBreak \in Nat
  BY PlannedFacts
<1>2. GoodBreak(layerBreak, payload)
  <2>1. CASE image.target = "xgd3"
    <3>1. layerBreak = Xgd3Break /\ payload <= FullXgd3
      BY <2>1, PlannedFacts DEF Break, XboxBreak, Limit
    <3> QED BY <1>1, <3>1, Xgd3BreakGood
  <2>2. CASE image.target = "ps2dvd"
    <3>1. layerBreak = Ps2Break(payload) /\ SingleLayer < payload
            /\ payload <= DualLayer
      BY <2>2, Ps2Facts
    <3>2. 2 * layerBreak <= DualLayer
      BY <1>1, <3>1, Ps2BreakFits
    <3>3. layerBreak <= Xgd3Break
      BY <1>1, <3>2 DEF DualLayer, Xgd3Break
    <3> QED BY <1>1, <3>1, <3>3, Ps2BreakLeast DEF GoodBreak
  <2> QED BY <2>1, <2>2, PlannedFacts DEF Targets
<1>3. layerBreak % 16 = 0
  BY <1>2 DEF GoodBreak
<1> QED BY <1>1, <1>2, <1>3, SplitIsBreak

\* The invariant implies that a PS2 break lies inside the image.
LEMMA Ps2BreakInsideInv == IInv => Ps2BreakInside
<1> SUFFICES ASSUME IInv, image.target = "ps2dvd"
             PROVE  /\ stage = "fits" => BreakInside
                    /\ 2 * layerBreak <= DualLayer
  BY DEF Ps2BreakInside
<1>0. image.target = "ps2dvd"
  OBVIOUS
<1>1. stage = "fits" => BreakInside
  <2> HAVE stage = "fits"
  <2>1. payload \in Nat /\ payload <= DualLayer
    <3>1. Limit(image.target) = DualLayer /\ DualLayer \in Nat
      BY <1>0 DEF Limit, DualLayer
    <3>2. payload \in Nat /\ payload \in 1 .. Limit(image.target)
      BY DEF IInv, TypeOK
    <3> QED BY <3>1, <3>2
  <2>2. CASE payload <= SingleLayer
    BY <1>0, <2>1, <2>2 DEF Break, BreakInside, SingleLayer
  <2>3. CASE SingleLayer < payload
    <3>1. Break = Ps2Break(payload)
      BY <1>0, <2>1, <2>3 DEF Break, SingleLayer
    <3>2. Break < payload
      BY <2>1, <2>3, <3>1, Ps2BreakFits
    <3> QED BY <3>2 DEF BreakInside
  <2> QED BY <2>1, <2>2, <2>3 DEF SingleLayer
<1>2. 2 * layerBreak <= DualLayer
  <2>1. CASE stage \in BreakPlanned
    <3>1. payload \in Nat
      BY <2>1, PlannedFacts
    <3> QED BY <2>1, <3>1, Ps2Facts, Ps2BreakFits DEF DualLayer
  <2>2. CASE stage \notin BreakPlanned
    BY <2>2 DEF IInv, TypeOK, BreakPlanned, DualLayer
  <2> QED BY <2>1, <2>2
<1> QED BY <1>1, <1>2

\* On a dual-layer disc as large as its data, twice the break still fits.
LEMMA Ps2PaddingFits ==
  ASSUME NEW n \in Nat, NEW l \in Nat, l % 16 = 0, n <= 2 * l
  PROVE  Ps2Break(n) <= l
BY Ps2BreakLeast

\* The invariant implies that the padded track fits.
LEMMA PaddingFitsInv == IInv => PaddingFits
<1> SUFFICES ASSUME IInv, stage = "recorded", growisofs, IsDualLayer(disc),
                    disc.reported
             PROVE  PaddedTrack(payload, layerBreak) <= disc.free
  BY DEF PaddingFits
<1>0. stage \in BreakPlanned /\ stage \in MediaChecked \ {"inspected"}
  BY DEF BreakPlanned, MediaChecked
<1>1. /\ payload \in Nat /\ layerBreak \in Nat
      /\ disc.layer0 \in Nat /\ disc.free \in Nat /\ CapacityOK
      /\ layerBreak = Break /\ image.target \in Targets
  BY <1>0, PlannedFacts
<1>2. payload <= disc.free
  BY <1>1 DEF CapacityOK
<1>3. /\ disc.layer0 % 16 = 0 /\ Xgd2Break <= disc.layer0
      /\ image.target # "xgd3" => disc.free = 2 * disc.layer0
  BY DEF IInv, DiscInv
<1>4. CASE image.target = "xgd3"
  <2>1. layerBreak = Xgd3Break /\ disc.free >= FullXgd3
    BY <1>1, <1>4 DEF Break, XboxBreak, CapacityOK
  <2> QED BY <1>1, <2>1 DEF PaddedTrack, Xgd3Break, FullXgd3
<1>5. CASE image.target = "xgd2"
  <2>1. layerBreak = Xgd2Break /\ disc.free = 2 * disc.layer0
    BY <1>1, <1>3, <1>5 DEF Break, XboxBreak
  <2> QED BY <1>1, <1>3, <2>1 DEF PaddedTrack, Xgd2Break
<1>6. CASE image.target = "ps2dvd"
  <2>1. disc.free = 2 * disc.layer0
    BY <1>3, <1>6
  <2>2. CASE layerBreak = 0
    BY <1>2, <2>2 DEF PaddedTrack
  <2>3. CASE layerBreak # 0
    <3>1. layerBreak = Ps2Break(payload)
      BY <1>0, <1>6, <2>3, Ps2Facts
    <3>2. layerBreak <= disc.layer0
      BY <1>1, <1>2, <1>3, <2>1, <3>1, Ps2PaddingFits
    <3> QED BY <1>1, <2>1, <2>3, <3>2 DEF PaddedTrack
  <2> QED BY <2>2, <2>3
<1> QED BY <1>1, <1>4, <1>5, <1>6 DEF Targets

\* For any image and any blank disc, the break of a PS2 DVD9 or an XGD3 burn
\* is aligned and covers half the data, and growisofs splits exactly there.
THEOREM GoodBreaks == Spec => []BreaksAreGood
<1>1. IInv => BreaksAreGood
  BY BreaksAreGoodInv
<1> QED BY <1>1, GeometryInvariance, PTL

\* For any PS2 image the computed break lies inside it and within layer 0 of
\* nominal media.
THEOREM BreakInsideImage == Spec => []Ps2BreakInside
<1>1. IInv => Ps2BreakInside
  BY Ps2BreakInsideInv
<1> QED BY <1>1, GeometryInvariance, PTL

\* For any image and any blank disc of two equal aligned layers, the track
\* growisofs pads to twice the break fits the reported capacity.
THEOREM PaddingWithinDisc == Spec => []PaddingFits
<1>1. IInv => PaddingFits
  BY PaddingFitsInv
<1> QED BY <1>1, GeometryInvariance, PTL

-----------------------------------------------------------------------------
(* Refusals                                                                *)

\* growisofs accepts an aligned break that covers half of an image that fits,
\* when twice the break reaches layer 1.
LEMMA GrowisofsAccepts ==
  ASSUME payload \in Nat, disc.free \in Nat, disc.layer0 \in Nat,
         layerBreak \in Nat, layerBreak % 16 = 0, payload <= disc.free,
         payload <= 2 * layerBreak, layerBreak # 0, disc.layer0 < 2 * layerBreak
  PROVE  ~GrowisofsRefuses
<1>1. PaddedTrack(payload, layerBreak) = 2 * layerBreak
  BY DEF PaddedTrack
<1>2. RoundUp16(2 * layerBreak) = 2 * layerBreak
  BY DEF RoundUp16
<1> QED BY <1>1, <1>2 DEF GrowisofsRefuses

\* RetroBeam accepts an aligned break in layer 0 of a DVD+R DL that covers half
\* of an image that fits.
LEMMA RetroBeamAccepts ==
  ASSUME payload \in Nat, disc.free \in Nat, disc.layer0 \in Nat,
         layerBreak \in Nat, layerBreak % 16 = 0, payload <= disc.free,
         payload <= 2 * layerBreak, layerBreak # 0,
         layerBreak <= disc.layer0, disc.profile = "plusDL"
  PROVE  ~RetroBeamRefuses
<1>1. layerBreak = RoundUp16(layerBreak)
  BY DEF RoundUp16
<1>2. RoundUp16(RoundUp16(payload) \div 2) <= layerBreak
  BY Ps2BreakLeast
<1>3. RoundUp16(RoundUp16(payload) \div 2) \in Nat
  BY Ps2BreakLeast
<1> QED BY <1>1, <1>2, <1>3 DEF RetroBeamRefuses

\* The invariant implies that only the listed jobs are refused.
LEMMA OnlyKnownRefusalsInv == IInv => OnlyKnownRefusals
<1> SUFFICES ASSUME IInv, stage = "refused", disc.reported \/ payload <= disc.free,
                    ~(image.target = "xgd2" /\ payload > 2 * Xgd2Break),
                    ~(image.target = "ps2dvd" /\ layerBreak = 0
                        /\ disc.profile = "plusDL"),
                    ~(image.target = "ps2dvd" /\ layerBreak # 0 /\ ~growisofs
                        /\ disc.profile = "minusDL" /\ ~disc.jump)
             PROVE  FALSE
  <2>1. stage = "refused" => stage \in BreakPlanned
    BY DEF BreakPlanned
  <2>2. IInv /\ stage = "refused" => payload \in Nat /\ disc.free \in Nat
    BY <2>1, PlannedFacts
  <2> QED BY <2>2 DEF OnlyKnownRefusals
<1>1. stage \in BreakPlanned /\ stage \in MediaChecked \ {"inspected"}
  BY DEF BreakPlanned, MediaChecked
<1>2. /\ payload \in Nat /\ layerBreak \in Nat /\ layerBreak = Break
      /\ disc.layer0 \in Nat /\ disc.free \in Nat
      /\ MediaAccepted /\ CapacityOK /\ image.target \in Targets
  BY <1>1, PlannedFacts
<1>3. payload <= disc.free
  BY <1>2 DEF CapacityOK
<1>4. Refuses
  BY DEF IInv, StageInv
<1>5. IsDualLayer(disc) =>
        /\ disc.layer0 % 16 = 0
        /\ Xgd2Break <= disc.layer0 /\ disc.layer0 <= Xgd3Break
        /\ image.target # "xgd3" => disc.free = 2 * disc.layer0
  BY DEF IInv, DiscInv
<1>6. CASE image.target = "xgd3"
  <2>1. layerBreak = Xgd3Break /\ payload <= FullXgd3
    BY <1>1, <1>2, <1>6, PlannedFacts DEF Break, XboxBreak, Limit
  <2>2. disc.profile = "plusDL" /\ disc.layer0 = Xgd3Break
    BY <1>1, <1>2, <1>6 DEF MediaAccepted, IInv, DiscInv
  <2>3. /\ layerBreak % 16 = 0 /\ payload <= 2 * layerBreak /\ layerBreak # 0
        /\ layerBreak <= disc.layer0 /\ disc.layer0 < 2 * layerBreak
    BY <1>2, <2>1, <2>2 DEF Xgd3Break, FullXgd3
  <2> QED BY <1>2, <1>3, <1>4, <2>2, <2>3, GrowisofsAccepts, RetroBeamAccepts
          DEF Refuses
<1>7. CASE image.target = "xgd2"
  <2>1. layerBreak = Xgd2Break /\ payload <= 2 * Xgd2Break
    BY <1>2, <1>7 DEF Break, XboxBreak, Xgd2Break
  <2>2. disc.profile = "plusDL" /\ IsDualLayer(disc)
    BY <1>2, <1>7 DEF MediaAccepted, IsDualLayer
  <2>3. /\ layerBreak % 16 = 0 /\ payload <= 2 * layerBreak /\ layerBreak # 0
        /\ layerBreak <= disc.layer0 /\ disc.layer0 < 2 * layerBreak
    BY <1>2, <1>5, <2>1, <2>2 DEF Xgd2Break, Xgd3Break
  <2> QED BY <1>2, <1>3, <1>4, <2>2, <2>3, GrowisofsAccepts, RetroBeamAccepts
          DEF Refuses
<1>8. CASE image.target = "ps2dvd" /\ layerBreak = 0
  <2>1. disc.profile # "plusDL"
    BY <1>8
  <2>2. RoundUp16(0) = 0 /\ 0 % 16 = 0
    BY DEF RoundUp16
  <2> QED BY <1>2, <1>3, <1>4, <1>8, <2>1, <2>2
          DEF Refuses, GrowisofsRefuses, RetroBeamRefuses
<1>9. CASE image.target = "ps2dvd" /\ layerBreak # 0
  <2>1. /\ SingleLayer < payload /\ payload <= DualLayer
        /\ layerBreak = Ps2Break(payload)
    BY <1>1, <1>9, Ps2Facts
  <2>2. IsDualLayer(disc)
    BY <1>2, <1>9, <2>1 DEF MediaAccepted, SingleLayer
  <2>3. /\ disc.layer0 % 16 = 0 /\ disc.layer0 <= Xgd3Break
        /\ disc.free = 2 * disc.layer0
    BY <1>5, <1>9, <2>2
  <2>4. layerBreak % 16 = 0 /\ payload <= 2 * layerBreak
    BY <1>2, <2>1, Ps2BreakLeast
  <2>5. layerBreak <= disc.layer0
    BY <1>2, <1>3, <2>1, <2>3, Ps2PaddingFits
  <2>6. disc.layer0 < 2 * layerBreak
    BY <1>2, <2>1, <2>3, <2>4 DEF SingleLayer, Xgd3Break
  <2>7. ~GrowisofsRefuses
    BY <1>2, <1>3, <1>9, <2>4, <2>6, GrowisofsAccepts
  <2>8. ~growisofs /\ RetroBeamRefuses
    BY <1>4, <2>7 DEF Refuses
  <2>9. CASE disc.profile = "plusDL"
    BY <1>2, <1>3, <1>9, <2>4, <2>5, <2>8, <2>9, RetroBeamAccepts
  <2>10. CASE disc.profile = "minusDL"
    <3>1. disc.jump
      BY <1>9, <2>8, <2>10
    <3>2. layerBreak = RoundUp16(layerBreak)
      BY <1>2, <2>4 DEF RoundUp16
    <3> QED BY <1>2, <1>3, <2>8, <2>10, <3>1, <3>2 DEF RetroBeamRefuses
  <2> QED BY <2>2, <2>9, <2>10 DEF IsDualLayer
<1> QED BY <1>2, <1>6, <1>7, <1>8, <1>9 DEF Targets

\* For any image and any blank disc, a recorder turns down a job that passed
\* every check for one of the four listed reasons only.
THEOREM RefusalsAreKnown == Spec => []OnlyKnownRefusals
<1>1. IInv => OnlyKnownRefusals
  BY OnlyKnownRefusalsInv
<1> QED BY <1>1, GeometryInvariance, PTL

=============================================================================
