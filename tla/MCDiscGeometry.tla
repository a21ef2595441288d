--------------------------- MODULE MCDiscGeometry ---------------------------
(* Instances of DiscGeometry for TLC: sizes on either side of every limit. *)
EXTENDS DiscGeometry

Around(n) == {n - 1, n, n + 1}

\* Every remainder modulo 32, the period of Ps2Break, next to the DVD5 limit.
DvdSizes ==
  {0, 1, 2086912} \union Around(2295104) \union Around(2 * Xgd2Break)
    \union (SingleLayer - 1 .. SingleLayer + 33)
    \union (DualLayer - 33 .. DualLayer + 1) \union Around(FullXgd3)

Disc(profile, free, layer0) ==
  [profile : {profile}, free : {free}, reported : BOOLEAN, layer0 : {layer0},
   jump : BOOLEAN]

\* Blank discs of the usual capacities, one whose drive was left with the
\* boundary BurnerMAX sets, and something that is no recordable DVD
BlankDiscs ==
  Disc("plus", 2295104, 2295104) \union Disc("minus", 2298496, 2298496)
    \union Disc("plusDL", DualLayer, 2086912)
    \union Disc("plusDL", FullXgd3, Xgd3Break)
    \union Disc("minusDL", 4171712, 2085856)
    \union Disc("other", 2295104, 2295104)
=============================================================================
