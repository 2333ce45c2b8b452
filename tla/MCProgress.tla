----------------------------- MODULE MCProgress -----------------------------
(***************************************************************************)
(* Two wrappers beside the API, two keys, two deaths, one loss; and three  *)
(* requests of the page, the loops of two operations that were followed    *)
(* before and the one that is followed now.                                *)
(***************************************************************************)
EXTENDS Progress

CONSTANTS w1, w2

MCWrappers == {w1, w2}
MCSubmissions == 1..3
=============================================================================
