-------------------------- MODULE MCServerRegistry --------------------------
(***************************************************************************)
(* Two ids, with or without a row at first, two targets and two calls for  *)
(* TLC: a duplicate of the migration, a race, a late save of an entity.    *)
(***************************************************************************)
EXTENDS ServerRegistry, TLC

CONSTANTS r1, r2, t1, t2, password, privateKey, c1, c2

MCIds == {r1, r2}
MCTargets == {t1, t2}
MCSecrets == {password, privateKey}
MCCalls == {c1, c2}

MCSymmetry == Permutations(MCIds) \cup Permutations(MCTargets)
              \cup Permutations(MCSecrets) \cup Permutations(MCCalls)
=============================================================================
