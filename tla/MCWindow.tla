------------------------------ MODULE MCWindow ------------------------------
(* Small instances of Window for TLC. *)
EXTENDS Window

CONSTANTS game, long, film, feature

\* A CDI, another one with too long a path, an ISO that fills a DVD-R to the last
\* sector and so exceeds a DVD+R, and one that does the same to two layers.
MCConsoles  == {"Dreamcast", "PlayStation2Dvd", "Xbox360"}
MCImages    == {game, long, film, feature}
MCExtension == [i \in MCImages |-> IF i \in {game, long} THEN "cdi" ELSE "iso"]
MCSize      == [i \in MCImages |-> IF i = feature THEN TwoLayers
                                  ELSE IF i = film THEN SingleLayer ELSE 0]
MCOverlong  == {long}

\* One drive takes DVDs, comes and goes, and can stream to the disc that is in it;
\* the other has a CD or a DVD+R in it, of which it may not tell the profile.
Blank(p, c, s) == [Bare(p) EXCEPT !.blank = TRUE, !.capacity = c, !.speeds = s]

MCLetters   == {1, 2}
MCTrays     == [l \in MCLetters |->
                  IF l = 1
                  THEN {Gone, [Blank("DVD+R DL", TwoLayers, {3324}) EXCEPT
                                 !.options = {"streaming"}]}
                  ELSE {Blank("CD-R", 0, {}), Blank("DVD+R", 2295104, {})}]
MCCdWriters == {1, 2}
MCMayFail   == [l \in MCLetters |-> IF l = 1 THEN {"address"} ELSE {"profile"}]
=============================================================================
