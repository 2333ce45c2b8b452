------------------------------ MODULE LineDiff ------------------------------
(***************************************************************************)
(* createLineDiff: the comparison of two texts that the configuration page *)
(* shows before something is applied.  A text is the sequence of its       *)
(* lines, never empty.  The loop that walks over both is one action for    *)
(* each of its branches; texts that are too large for its table are        *)
(* compared at their ends alone.                                           *)
(***************************************************************************)
EXTENDS Integers, Sequences, FiniteSets

CONSTANTS Lines,
          MaxLines, \* bound: lines of a text
          MaxCells  \* 1_000_000

ASSUME DiffConstants == MaxLines \in Nat \ {0} /\ MaxCells \in Nat

VARIABLES
    oldLines, newLines, \* the texts, empty before the first call
    oldIndex, newIndex, \* lines that were passed
    result, walking

diffVars == <<oldLines, newLines, oldIndex, newIndex, result, walking>>

Texts == UNION {[1..n -> Lines] : n \in 1..MaxLines}

DiffLine == [kind : {"equal", "add", "remove"}, text : Lines,
             oldNumber : 0..MaxLines, newNumber : 0..MaxLines]

DiffTypeOK ==
    /\ {oldLines, newLines} \subseteq Texts \cup {<<>>}
    /\ oldIndex \in 0..Len(oldLines) /\ newIndex \in 0..Len(newLines)
    /\ \A i \in DOMAIN result : result[i] \in DiffLine
    /\ walking \in BOOLEAN

DiffInit ==
    /\ oldLines = <<>> /\ newLines = <<>> /\ oldIndex = 0 /\ newIndex = 0
    /\ result = <<>> /\ walking = FALSE

\* Numbers start at 1; 0 is null.
Equal(i, j) == [kind |-> "equal", text |-> oldLines[i], oldNumber |-> i, newNumber |-> j]
Removed(old, i) == [kind |-> "remove", text |-> old[i], oldNumber |-> i, newNumber |-> 0]
Added(new, j) == [kind |-> "add", text |-> new[j], oldNumber |-> 0, newNumber |-> j]

\* table[i][j]: how many lines the texts from there on have in common.
Table(old, new) ==
    LET table[p \in (0..Len(old)) \X (0..Len(new))] ==
            LET i == p[1]  j == p[2] IN
            IF i = Len(old) \/ j = Len(new) THEN 0
            ELSE IF old[i + 1] = new[j + 1] THEN table[<<i + 1, j + 1>>] + 1
            ELSE IF table[<<i + 1, j>>] >= table[<<i, j + 1>>]
                 THEN table[<<i + 1, j>>] ELSE table[<<i, j + 1>>]
    IN  table

\* How many lines are equal at the start, ...
Prefix(old, new) ==
    CHOOSE n \in 0..Len(old) :
        /\ n <= Len(new) /\ \A i \in 1..n : old[i] = new[i]
        /\ n = Len(old) \/ n = Len(new) \/ old[n + 1] # new[n + 1]

\* Wrong variant of Suffix: it may count lines of the prefix again.
BugSuffix(old, new) ==
    CHOOSE n \in 0..Len(old) :
        /\ n <= Len(new)
        /\ \A i \in 1..n : old[Len(old) + 1 - i] = new[Len(new) + 1 - i]
        /\ n = Len(old) \/ n = Len(new) \/ old[Len(old) - n] # new[Len(new) - n]

\* ... and then at the end.
Suffix(old, new) ==
    LET oldRest == Len(old) - Prefix(old, new)
        newRest == Len(new) - Prefix(old, new)
    IN  CHOOSE n \in 0..oldRest :
            /\ n <= newRest
            /\ \A i \in 1..n : old[Len(old) + 1 - i] = new[Len(new) + 1 - i]
            /\ n = oldRest \/ n = newRest \/ old[Len(old) - n] # new[Len(new) - n]

\* boundedDiff
BoundedDiff(old, new) ==
    LET p == Prefix(old, new)  s == Suffix(old, new)
        Same(i, j) == [kind |-> "equal", text |-> old[i], oldNumber |-> i, newNumber |-> j]
    IN  [i \in 1..p |-> Same(i, i)]
        \o [i \in 1..(Len(old) - s - p) |-> Removed(old, p + i)]
        \o [j \in 1..(Len(new) - s - p) |-> Added(new, p + j)]
        \o [k \in 1..s |-> Same(Len(old) - s + k, Len(new) - s + k)]

\* A call, up to its loop.
Compare(old, new) ==
    /\ ~walking /\ result = <<>>
    /\ oldLines' = old /\ newLines' = new
    /\ IF Len(old) * Len(new) > MaxCells
       THEN result' = BoundedDiff(old, new) /\ UNCHANGED walking
       ELSE walking' = TRUE /\ UNCHANGED result
    /\ UNCHANGED <<oldIndex, newIndex>>

Walk(line, i, j) ==
    /\ result' = Append(result, line)
    /\ oldIndex' = i /\ newIndex' = j
    /\ UNCHANGED <<oldLines, newLines, walking>>

BothLeft == walking /\ oldIndex < Len(oldLines) /\ newIndex < Len(newLines)

WalkEqual ==
    /\ BothLeft /\ oldLines[oldIndex + 1] = newLines[newIndex + 1]
    /\ Walk(Equal(oldIndex + 1, newIndex + 1), oldIndex + 1, newIndex + 1)

\* A line that is only in the old text, also when the new one has ended.
WalkRemove ==
    /\ walking /\ oldIndex < Len(oldLines)
    /\ BothLeft =>
           /\ oldLines[oldIndex + 1] # newLines[newIndex + 1]
           /\ LET table == Table(oldLines, newLines) IN
              table[<<oldIndex + 1, newIndex>>] >= table[<<oldIndex, newIndex + 1>>]
    /\ Walk(Removed(oldLines, oldIndex + 1), oldIndex + 1, newIndex)

\* A line that is only in the new text.
WalkAdd ==
    /\ walking /\ newIndex < Len(newLines)
    /\ BothLeft =>
           /\ oldLines[oldIndex + 1] # newLines[newIndex + 1]
           /\ LET table == Table(oldLines, newLines) IN
              table[<<oldIndex + 1, newIndex>>] < table[<<oldIndex, newIndex + 1>>]
    /\ Walk(Added(newLines, newIndex + 1), oldIndex, newIndex + 1)

WalkEnds ==
    /\ walking /\ oldIndex = Len(oldLines) /\ newIndex = Len(newLines)
    /\ walking' = FALSE
    /\ UNCHANGED <<oldLines, newLines, oldIndex, newIndex, result>>

DiffNext ==
    \/ \E old, new \in Texts : Compare(old, new)
    \/ WalkEqual \/ WalkRemove \/ WalkAdd \/ WalkEnds

-----------------------------------------------------------------------------
(* What a comparison is, independent of how it is made.                    *)

\* One side of it shows every line of its text once, in order, with its number.
Rows(kinds) == {i \in DOMAIN result : result[i].kind \in kinds}
Shows(rows, number(_), text) ==
    /\ \A i \in rows : /\ number(result[i]) \in DOMAIN text
                        /\ result[i].text = text[number(result[i])]
    /\ \A n \in DOMAIN text : \E i \in rows : number(result[i]) = n
    /\ \A i, j \in rows : i < j => number(result[i]) < number(result[j])

OldNumber(line) == line.oldNumber
NewNumber(line) == line.newNumber
SidesAreShown == /\ Shows(Rows({"equal", "remove"}), OldNumber, oldLines)
                 /\ Shows(Rows({"equal", "add"}), NewNumber, newLines)

\* Equal lines of two texts, paired in the order that they have in both.
SamePlaces(old, new) == {p \in (DOMAIN old) \X (DOMAIN new) : old[p[1]] = new[p[2]]}
Precedes(p, q) == p[1] < q[1] /\ p[2] < q[2]
Pairings(old, new) ==
    {pairs \in SUBSET SamePlaces(old, new) :
        \A p, q \in pairs : p = q \/ Precedes(p, q) \/ Precedes(q, p)}

\* The comparison shown before something is applied shows both texts whole, each
\* line with its number, whichever way it was made, and the table makes one
\* with as few changes as there can be: no lines in common are left out.
DiffShowsBothTexts ==
    ~walking /\ result # <<>> =>
        /\ SidesAreShown
        /\ Len(oldLines) * Len(newLines) <= MaxCells =>
               \A pairs \in Pairings(oldLines, newLines) :
                   Cardinality(pairs) <= Cardinality(Rows({"equal"}))
=============================================================================
