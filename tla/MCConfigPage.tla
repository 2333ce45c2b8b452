---------------------------- MODULE MCConfigPage ----------------------------
(***************************************************************************)
(* Three contents, so that a version that others wrote differs from the    *)
(* one that is shown and from the one that is applied; two submissions:    *)
(* one that fails and one that is sent after it.                           *)
(***************************************************************************)
EXTENDS ConfigPage

CONSTANTS a, b, c

MCContents == {a, b, c}
MCRevisions == {a}
MCSubmissions == 1..2
=============================================================================
