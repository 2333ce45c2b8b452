------------------------------ MODULE MCSshPool ------------------------------
(***************************************************************************)
(* Callers that share a connection for TLC, with enough connections for an *)
(* old one that closes late, the one in use and its successor.             *)
(***************************************************************************)
EXTENDS SshPool, TLC

CONSTANTS u1, u2, c1, c2, c3

MCUsers == {u1, u2}
MCConns == {c1, c2, c3}
=============================================================================
