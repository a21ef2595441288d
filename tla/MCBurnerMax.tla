---------------------------- MODULE MCBurnerMax -----------------------------
(* Instances of BurnerMax for TLC. *)
EXTENDS BurnerMax

\* Two sites per layer, interleaved in memory
MCL0 == {1, 4}
MCL1 == {2, 3}

\* Both command families show the register memory.
Both == {"F1", "DF"}
=============================================================================
