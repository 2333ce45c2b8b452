------------------------------ MODULE MCWebApp ------------------------------
(***************************************************************************)
(* Small instances of all parts for TLC.  Of three hosts the first has two *)
(* candidates, the second one beside three units that are skipped, and the *)
(* third none that is supported, and no sudo.                              *)
(***************************************************************************)
EXTENDS WebApp

CONSTANTS a, b, h1, h2, h3

MCContents == {a, b}
MCRevisions == {a}
MCSubmissions == 1..2
MCLines == {a, b}
MCHosts == {h1, h2, h3}

flag(name, text) == [flag |-> name, value |-> text]
absolute == flag(None, "absolute")

ok == [argv |-> <<flag("--config", None), absolute>>, package |-> FALSE, runs |-> TRUE]

\* --config with no word of its own: it takes the next flag as its path.
noPath == <<flag("--config", None), flag("--adapter", None), flag(None, "caddyfile")>>
\* The last --config counts, and an --envfile has no path.
noEnvFile == <<flag("--config", "relative"), flag("--config", "absolute"), flag("--envfile", None)>>
resumes == <<flag("--resume", None), flag("--envfile", "absolute")>>
otherAdapter == <<flag("--config", "absolute"), flag("--adapter", "other")>>

Machine(sudo, units) == [linux |-> TRUE, systemd |-> TRUE, sudo |-> sudo, units |-> units]

MCMachines ==
    h1 :> Machine(TRUE, "caddy-b.service" :> ok @@ "caddy-a.service" :> ok)
    @@ h2 :> Machine(TRUE, ApiOnly :> ok
                           @@ Standard :> [ok EXCEPT !.argv = <<>>, !.package = TRUE]
                           @@ "caddy-a.service" :> [ok EXCEPT !.argv = resumes]
                           @@ "caddy-b.service" :> [ok EXCEPT !.argv = noPath])
    @@ h3 :> Machine(FALSE, Standard :> [ok EXCEPT !.argv = otherAdapter]
                            @@ "caddy-a.service" :> [ok EXCEPT !.runs = FALSE]
                            @@ "caddy-b.service" :> [ok EXCEPT !.argv = noEnvFile])

MCKeyOf == [h \in MCHosts |-> h]
=============================================================================
