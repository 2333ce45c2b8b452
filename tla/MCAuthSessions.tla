--------------------------- MODULE MCAuthSessions ---------------------------
(***************************************************************************)
(* Two calls from one client for TLC.  The window of failures is shorter   *)
(* than the lockout, so that it can end while a client is locked.          *)
(***************************************************************************)
EXTENDS AuthSessions, TLC

CONSTANTS c1, c2, old, ip, adminName, otherName, secret

MCCalls == {c1, c2}
MCClients == {ip}
MCNames == {adminName, otherName}

\* The second name is a password that the policy allows for the first.
MCPasswords == {adminName, otherName, secret}

MCSymmetry == Permutations(MCCalls)
=============================================================================
