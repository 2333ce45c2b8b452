--------------------------- MODULE MCConfigApply ---------------------------
(***************************************************************************)
(* Two operations on one target for TLC: a draft that loads, one that does *)
(* not, and one foreign edit.                                              *)
(***************************************************************************)
EXTENDS ConfigApply, TLC

CONSTANTS o1, o2, old, good, bad, foreign

MCOps == {o1, o2}
MCContents == {old, good, bad, foreign}
MCDrafts == {good, bad}
MCEdits == {foreign}
MCUnloadable == {bad}

MCSymmetry == Permutations(MCOps)
=============================================================================
