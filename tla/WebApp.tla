------------------------------- MODULE WebApp -------------------------------
(***************************************************************************)
(* Parts that share no state, side by side: the pages of a browser that    *)
(* change something, and computations over texts, which they and the API   *)
(* make (shellWords is the API's).  A behaviour is one of a single part.   *)
(***************************************************************************)
EXTENDS ConfigPage, WebSession, AddServer, LineDiff, ShellWords,
        CaddyfileFormat

VARIABLE part \* whose behaviour it is

wizardToFormat == <<wizardVars, diffVars, wordVars, formatVars>>
webVars == <<part, configVars, sessionVars, wizardToFormat>>

WebInit ==
    /\ part \in {"config", "session", "wizard", "diff", "words", "format"}
    /\ ConfigInit /\ SessionInit /\ WizardInit
    /\ DiffInit /\ WordInit /\ FormatInit

WebNext ==
    \/ part = "config" /\ ConfigNext /\ UNCHANGED <<part, sessionVars, wizardToFormat>>
    \/ /\ UNCHANGED <<part, configVars>>
       /\ \/ part = "session" /\ SessionNext /\ UNCHANGED wizardToFormat
          \/ part = "wizard" /\ WizardNext
             /\ UNCHANGED <<sessionVars, diffVars, wordVars, formatVars>>
          \/ part = "diff" /\ DiffNext
             /\ UNCHANGED <<sessionVars, wizardVars, wordVars, formatVars>>
          \/ part = "words" /\ WordNext
             /\ UNCHANGED <<sessionVars, wizardVars, diffVars, formatVars>>
          \/ part = "format" /\ FormatNext
             /\ UNCHANGED <<sessionVars, wizardVars, diffVars, wordVars>>

WebSpec == WebInit /\ [][WebNext]_webVars

-----------------------------------------------------------------------------
\* The types of all parts, which the comments of their variables tell.
TypeOK == /\ ConfigTypeOK /\ SessionTypeOK /\ WizardTypeOK
          /\ DiffTypeOK /\ WordTypeOK /\ FormatTypeOK
=============================================================================
