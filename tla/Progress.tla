------------------------------ MODULE Progress ------------------------------
(***************************************************************************)
(* Two parts that share no state and must both come to an end: the start   *)
(* of the programs, and a page that follows operations.  A behaviour is    *)
(* one of a single part.                                                   *)
(***************************************************************************)
EXTENDS Startup, ServerPage

VARIABLE part \* whose behaviour it is

vars == <<part, startupVars, pageVars>>

Init ==
    /\ StartupInit /\ PageInit
    /\ part \in {"startup", "page"}
    /\ part = "page" => deployment = "pm2" /\ settings = "good" \* for one state of the rest

Next ==
    /\ UNCHANGED part
    /\ \/ part = "startup" /\ StartupNext /\ UNCHANGED pageVars
       \/ part = "page" /\ PageNext /\ UNCHANGED startupVars

Spec == Init /\ [][Next]_vars /\ PageFairness /\ (part = "startup" => StartupFairness)

-----------------------------------------------------------------------------
\* The types of both parts, which the comments of their variables tell.
TypeOK == StartupTypeOK /\ PageTypeOK

\* The service comes up and stays up, through deaths of its processes and races
\* with wrappers, unless the settings are wrong or somebody has to put the key
\* file right: preflight says so, and it takes a process that died while the
\* files were made for the first time, or the loss of the file.
ComesUp ==
    part = "startup" =>
        <>[](\/ api = "up" /\ web = "up"
             \/ PreflightComplains /\ (settings # "good" \/ crashes > 0 \/ losses > 0))
=============================================================================
