----------------------------- MODULE Discovery ------------------------------
(***************************************************************************)
(* CaddyDiscoveryService as operators on what its commands find out about  *)
(* a machine: which systemd units it offers for management, in which       *)
(* order, and which one it prefers.                                        *)
(***************************************************************************)
EXTENDS Sequences, SequencesExt, Absence

\* Names of units in the order of localeCompare, and the preferred one.
Standard == "caddy.service"
ApiOnly == "caddy-api.service"
Names == <<Standard, ApiOnly, "caddy-a.service", "caddy-b.service">>

\* A word of a command line: --flag, --flag=value, or a value; "" is the empty
\* one, and of a path only matters whether it is absolute.
Flags == {"--config", "--adapter", "--envfile", "--resume"}
Values == {"absolute", "relative", "caddyfile", "other", ""}
Word == [flag : Flags \cup {None}, value : Values \cup {None}]

\* What one unit shows: the words behind its binary, whether it is the
\* unmodified unit of the package with its file in place, and whether its
\* binary runs.
IsUnit(u) == u.argv \in Seq(Word) /\ {u.package, u.runs} \subseteq BOOLEAN

\* flagValues: a flag takes the next word, whatever it is; "" stands for none.
FlagValues(argv, name) ==
    LET Text(i) == IF i > Len(argv) THEN ""
                   ELSE IF argv[i].flag = None THEN argv[i].value ELSE argv[i].flag
        from[i \in 1..Len(argv) + 2] ==
            IF i > Len(argv) THEN <<>>
            ELSE IF argv[i].flag # name THEN from[i + 1]
            ELSE IF argv[i].value = None THEN <<Text(i + 1)>> \o from[i + 2]
            ELSE <<argv[i].value>> \o from[i + 1]
    IN  from[1]

\* flagValue: the last one counts.
FlagValue(argv, name, default) ==
    LET values == FlagValues(argv, name)
    IN  IF values = <<>> THEN default ELSE Last(values)

\* A machine: units is a function of the names of those that are listed, or of
\* the one that systemd knows although none is.
\* sudo: a command runs as root, with sudo when that is configured.
IsMachine(m) ==
    /\ {m.linux, m.systemd, m.sudo} \subseteq BOOLEAN
    /\ DOMAIN m.units \subseteq Range(Names)
    /\ \A name \in DOMAIN m.units : IsUnit(m.units[name])

\* isVerifiedAptStandardUnit, and the default path that it stands for.
ConfigOf(name, u) ==
    LET path == FlagValue(u.argv, "--config", "")
    IN  IF path = "" /\ name = Standard /\ u.package THEN "absolute" ELSE path

\* inspectUnit: its early returns.
Supported(name, u) ==
    /\ name # ApiOnly
    /\ \/ FlagValue(u.argv, "--config", "") # ""
       \/ \A i \in DOMAIN u.argv : u.argv[i].flag # "--resume"
    /\ FlagValue(u.argv, "--adapter", "caddyfile") = "caddyfile"
    /\ ConfigOf(name, u) = "absolute"
    /\ "" \notin Range(FlagValues(u.argv, "--envfile"))
    /\ u.runs

\* sortServiceNames: the names of a set in their order.
Sorted(S) ==
    LET places == {p \in DOMAIN Names : Names[p] \in S}
        At(i) == CHOOSE p \in places : Cardinality({q \in places : q <= p}) = i
    IN  [i \in 1..Cardinality(S) |-> Names[At(i)]]

\* applyPreferredCandidate: the place of the candidate that it selects.
Preferred(candidates, name) ==
    LET At(n) == {i \in DOMAIN candidates : candidates[i] = n}
    IN  CHOOSE i \in DOMAIN candidates :
            \/ i \in At(name)
            \/ At(name) = {} /\ i \in At(Standard)
            \/ At(name) \cup At(Standard) = {} /\ i = 1

Unsupported(skipped) == [supported |-> FALSE, candidates |-> <<>>, skipped |-> skipped]

\* discover, of a machine that answers.
Discover(m) ==
    LET fit == {name \in DOMAIN m.units : Supported(name, m.units[name])}
        skipped == Sorted(DOMAIN m.units \ fit)
    IN  IF ~m.linux \/ ~m.systemd THEN Unsupported(<<>>)
        ELSE IF fit = {} THEN Unsupported(skipped)
        ELSE [supported |-> m.sudo, candidates |-> Sorted(fit), skipped |-> skipped]
=============================================================================
