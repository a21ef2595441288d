---------------------------- MODULE MCBurnEngine ----------------------------
(* Small instances of BurnEngine for TLC. *)
EXTENDS BurnEngine, TLC

CONSTANTS w1, w2, d1, d2, game, other

MCWorkers == {w1, w2}
MCDirs == {d1, d2}

Req(op, target, source, grow, stream) ==
  [op |-> op, target |-> target, source |-> source,
   grow |-> grow, stream |-> stream]

\* Every worker and directory starts in the same state and none is named in a
\* property.
Symmetric == Permutations(Workers) \union Permutations(Dirs)

-----------------------------------------------------------------------------
(* XGD3: two full-size images that compete for the one cache entry         *)

Xgd3Sources  == {game, other}
Xgd3Size     == [s \in Xgd3Sources |-> [v \in 1 .. MaxVersion |-> FullXgd3]]
Xgd3Media    == {"plusDL"}
Xgd3Requests == {Req("burn", "xgd3", game, FALSE, TRUE),
                 Req("dryrun", "xgd3", game, TRUE, FALSE),
                 Req("burn", "xgd3", other, TRUE, FALSE)}

-----------------------------------------------------------------------------
(* The other targets: game needs two layers, other fits on a DVD-R but not *)
(* on a DVD+R until it is replaced by a larger file; every kind of disc,   *)
(* and each operation the window offers.                                   *)

\* One name for a working directory, here and in the run on liveness: a job that
\* finds it taken fails, as it does when it cannot make a directory.
AnyDirs     == {d1}
AnySources  == {game, other}
AnySize     == [s \in AnySources |-> [v \in 1 .. MaxVersion |->
                  IF s = game \/ v > 1 THEN DualLayer ELSE SingleLayer]]
AnyMedia    == {"cd", "single", "minusDL", "plusDL"}
AnyRequests == {Req("check", "dreamcast", game, FALSE, FALSE),
                Req("burn", "dreamcast", game, FALSE, FALSE),
                Req("dryrun", "cd", other, FALSE, FALSE),
                Req("burn", "cd", other, FALSE, FALSE),
                Req("burn", "ps2dvd", other, FALSE, TRUE),
                Req("burn", "ps2dvd", game, TRUE, FALSE),
                Req("dryrun", "ps2dvd", other, FALSE, FALSE),
                Req("dryrun", "xgd2", game, TRUE, FALSE),
                Req("check", "xgd2", game, FALSE, FALSE),
                Req("burn", "xgd2", game, FALSE, TRUE),
                Req("burnermax", "xgd3", game, FALSE, FALSE)}

\* One image for a CD of two sessions
CdMedia      == {"cd"}
CdRequests   == {Req("burn", "dreamcast", game, FALSE, FALSE)}

-----------------------------------------------------------------------------
(* Liveness and refinement: an image that is edited or lost while jobs run *)

OneSource    == {game}
OneSize      == [s \in OneSource |-> [v \in 1 .. MaxVersion |-> FullXgd3]]
LiveRequests == {Req("burn", "xgd3", game, FALSE, TRUE),
                 Req("dryrun", "xgd3", game, TRUE, FALSE),
                 Req("burn", "dreamcast", game, FALSE, FALSE)}
=============================================================================
