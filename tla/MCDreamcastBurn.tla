--------------------------- MODULE MCDreamcastBurn ---------------------------
(* Small instances of DreamcastBurn for TLC. *)
EXTENDS DreamcastBurn

A(n) == [kind |-> "audio", size |-> n]
D(n) == [kind |-> "data", size |-> n]

\* One of each layout the program knows, one with audio behind its data, one
\* with an empty session and one with a single track
MCSessions ==
  [audiodata |-> <<<<A(1), A(2)>>, <<D(1)>>>>,
   datadata  |-> <<<<D(1)>>, <<D(1), D(2)>>>>,
   cdda      |-> <<<<D(1), A(1)>>, <<D(1)>>>>,
   empty     |-> <<<<A(1)>>, <<D(0)>>>>,
   single    |-> <<<<D(1)>>>>]

MCImages == DOMAIN MCSessions
MCTools  == <<"cdirip", "retrobeam">>
MCPlaces == {"p1", "p2"}
=============================================================================
