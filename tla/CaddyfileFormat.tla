--------------------------- MODULE CaddyfileFormat ---------------------------
(***************************************************************************)
(* formatCaddyfile: the loop over the characters of a text, one action for *)
(* each way through its body.  The text is not kept: any character can     *)
(* come next.  "i" stands for the word import, "a" for every character     *)
(* without a meaning, and a blank for tabs as well; leading blanks are     *)
(* trimmed.                                                                *)
(***************************************************************************)
EXTENDS Integers, Sequences, SequencesExt

CONSTANTS MaxNesting, \* 10
          MaxMarker   \* bound: characters of the marker of a heredoc

ASSUME FormatConstants == MaxNesting \in Nat /\ MaxMarker \in Nat

Blank == "blank"
NewLine == "\n"
Quote == "quotationMark"
Backtick == "backtick"
Backslash == "\\"
LeftBrace == "leftBrace"
RightBrace == "rightBrace"
Less == "<"
Characters == {"a", "i", Blank, NewLine, LeftBrace, RightBrace, "#", Less, Quote, Backtick, Backslash}
MarkerCharacters == {"a", "i"}
Nothing == "nothing" \* the empty text

VARIABLES
    f, \* the variables of the loop, and owed: what was read and not yet written,
       \* without blanks (history)
    lost \* a brace was held back when it could not be (history)

formatVars == <<f, lost>>

\* last: the last character written, as far as anybody asks.  token, first:
\* currentToken and currentLineFirstToken, "a" for all but import.  closing: of
\* heredocClosingMarker what the next character is compared with.
FormatTypeOK ==
    /\ lost \in BOOLEAN
    /\ f.last \in {Nothing, "a", Blank, NewLine, RightBrace, Less}
    /\ {f.space, f.beginningOfLine, f.openBrace, f.openBraceWritten, f.openBraceSpace,
        f.openBraceOwnLine, f.comment, f.escaped, f.afterImport,
        f.heredocEscaped} \subseteq BOOLEAN
    /\ f.heredoc \in {"closed", "opening", "opened"}
    /\ {Len(f.marker), Len(f.closing)} \subseteq 0..MaxMarker
    /\ f.quotes \in {"none", "quote", "raw", "rawInQuote"}
    /\ f.newLines \in 0..3 /\ f.nesting \in 0..MaxNesting
    /\ {f.token, f.first} \subseteq {Nothing, "a", "i"}
    /\ Len(f.owed) <= 2

FormatInit ==
    /\ lost = FALSE
    /\ f = [last |-> Nothing, space |-> TRUE, beginningOfLine |-> TRUE, openBrace |-> FALSE,
            openBraceWritten |-> FALSE, openBraceSpace |-> FALSE,
            openBraceOwnLine |-> FALSE, newLines |-> 0, comment |-> FALSE,
            quotes |-> "none", escaped |-> FALSE, nesting |-> 0, token |-> Nothing,
            first |-> Nothing, afterImport |-> FALSE, heredoc |-> "closed",
            heredocEscaped |-> FALSE, marker |-> <<>>, closing |-> <<>>, owed |-> <<>>]

\* openBrace and not openBraceWritten
Held(g) == g.openBrace /\ ~g.openBraceWritten

-----------------------------------------------------------------------------
(* Writing.  Nothing but what is owed next may be written: else more is    *)
(* owed than was read.                                                     *)

Wrong == <<"a", "a">>

Write(g, c) ==
    IF c \in {Blank, NewLine} THEN [g EXCEPT !.last = c]
    ELSE [g EXCEPT !.last = IF c \in {RightBrace, Less} THEN c ELSE "a",
                   !.owed = IF @ # <<>> /\ Head(@) = c THEN Tail(@) ELSE Wrong]

Indent(g) == IF g.nesting = 0 THEN g ELSE Write(g, Blank)

\* Wrong variant of Outdent: more braces may close than open.
BugOutdent(g) == [g EXCEPT !.nesting = @ - 1]

Outdent(g) == [g EXCEPT !.nesting = IF @ > 0 THEN @ - 1 ELSE @]
NextLine(g) == [Write(g, NewLine) EXCEPT !.beginningOfLine = TRUE]
EmptyLine(g) == IF g.nesting = 0 /\ g.last = RightBrace THEN NextLine(NextLine(g)) ELSE g

FinishToken(g) ==
    [g EXCEPT !.first = IF @ = Nothing THEN g.token ELSE @, !.token = Nothing]

FinishLine(g) ==
    LET h == FinishToken(g)
    IN  [h EXCEPT !.first = Nothing,
                  !.afterImport =
                      IF h.first # Nothing THEN h.nesting = 0 /\ h.first = "i"
                      ELSE @ /\ Held(h) /\ h.openBraceOwnLine]

\* The brace that was held back comes before what follows a blank.
WriteBrace(g) ==
    LET h == [EmptyLine(g) EXCEPT !.openBrace = FALSE]
        at == IF h.openBraceOwnLine /\ h.afterImport
              THEN Indent(IF h.last # NewLine THEN NextLine(h) ELSE h)
              ELSE IF h.beginningOfLine THEN Indent(h)
              ELSE IF ~h.openBraceSpace \/ h.last \notin {Blank, NewLine}
                   THEN Write(h, Blank) ELSE h
    IN  [NextLine(Write(at, LeftBrace)) EXCEPT
            !.openBraceWritten = TRUE, !.openBraceOwnLine = FALSE, !.newLines = 0,
            !.nesting = IF @ < MaxNesting THEN @ + 1 ELSE @]

Flushed(g, prior) == IF Held(g) /\ prior THEN WriteBrace(g) ELSE g

\* Wrong variant of GluedBrace: a brace that no blank follows is forgotten.
BugGluedBrace(g) == g

\* It comes before what follows at once as well.
GluedBrace(g) ==
    IF Held(g) THEN [Write(g, LeftBrace) EXCEPT !.openBraceWritten = TRUE] ELSE g

-----------------------------------------------------------------------------
(* Reading.                                                                *)

\* c is read; afterwards a brace may still be held back, but must not be when
\* this way through the loop does not look at it.
Reads(c, looks) ==
    /\ ~lost
    /\ f.last = Nothing /\ ~Held(f) => c \notin {Blank, NewLine}
    /\ lost' = (Held(f) /\ ~looks)

\* spacePrior: a blank after a "<" that was written last counts for nothing.
SpacePrior == f.space /\ f.last # Less

Got(c) == [f EXCEPT !.owed = IF c \in {Blank, NewLine} THEN @ ELSE Append(@, c),
                    !.space = SpacePrior]

\* Heredocs, which begin with the second "<".
Opens(c) ==
    /\ f.quotes = "none" /\ f.heredoc = "closed" /\ ~f.heredocEscaped
    /\ f.space /\ f.last = Less /\ c = Less

ReadHeredoc(c) ==
    /\ Opens(c) /\ Reads(c, FALSE)
    /\ f' = [Write(Got(c), c) EXCEPT !.heredoc = "opening", !.space = FALSE]

Closed(g) == [g EXCEPT !.heredoc = "closed", !.marker = <<>>, !.closing = <<>>]

ReadMarker(c) ==
    /\ f.heredoc = "opening" /\ c \notin {Blank, NewLine} /\ Reads(c, FALSE)
    /\ Len(f.marker) < MaxMarker
    /\ f' = [Write(Got(c), c) EXCEPT !.marker = Append(@, c)]

MarkerEnds(c) ==
    /\ f.heredoc = "opening" /\ c = NewLine /\ Reads(c, FALSE)
    /\ f' = IF f.marker # <<>> /\ ToSet(f.marker) \subseteq MarkerCharacters
            THEN [Write(Got(c), c) EXCEPT !.heredoc = "opened"]
            ELSE NextLine(Closed(Got(c)))

\* A blank where the text ends with the marker, be it within a word.
Ends(c) == \/ f.heredoc = "opening" /\ c = Blank
           \/ f.heredoc = "opened" /\ c \in {Blank, NewLine} /\ f.closing = f.marker

ReadBody(c) ==
    /\ f.heredoc = "opened" /\ ~Ends(c) /\ Reads(c, FALSE)
    /\ LET window == Append(f.closing, c)
       IN  f' = [Write(Got(c), c) EXCEPT
                    !.closing = IF c = NewLine THEN <<>>
                                ELSE IF Len(window) > Len(f.marker) THEN Tail(window)
                                ELSE window]

Outside(c) == f.heredoc = "closed" /\ ~Opens(c)


ReadComment(c) ==
    /\ f.comment /\ Outside(c) /\ Reads(c, TRUE)
    /\ f' = IF c = NewLine THEN [NextLine(f) EXCEPT !.comment = FALSE, !.space = TRUE]
            ELSE Write(Got(c), c)

ReadBackslash(c) ==
    /\ ~f.comment /\ ~f.escaped /\ c = Backslash /\ Outside(c) /\ Reads(c, FALSE)
    /\ LET g == IF SpacePrior THEN Write(Got(c), Blank) ELSE Got(c)
       IN  f' = [Write(g, c) EXCEPT !.space = FALSE, !.escaped = TRUE]

ReadEscaped(c) ==
    /\ ~f.comment /\ f.escaped /\ Outside(c) /\ Reads(c, TRUE)
    /\ f' = [Write(Got(c), c) EXCEPT !.escaped = FALSE,
                                     !.heredocEscaped = @ \/ c = Less]

Unescaped(c) == Outside(c) /\ ~f.comment /\ ~f.escaped /\ c # Backslash

\* quotes once a backtick has been looked at, ...
Ticked(c) == IF c # Backtick THEN f.quotes
             ELSE CASE f.quotes = "rawInQuote" -> "quote"
                    [] f.quotes = "raw"          -> "none"
                    [] f.quotes = "quote"        -> "rawInQuote"
                    [] f.quotes = "none"         -> "raw"

ReadQuoted(c) ==
    /\ Unescaped(c) /\ Ticked(c) = "quote" /\ Reads(c, FALSE)
    /\ f' = [Write(Got(c), c) EXCEPT !.quotes = IF c = Quote THEN "none" ELSE "quote"]

\* ... and then a quote.
Quoted(c) == IF c # Quote THEN Ticked(c)
             ELSE CASE Ticked(c) = "none" /\ SpacePrior -> "quote"
                    [] Ticked(c) = "raw"             -> "raw"
                    [] OTHER                         -> "none"

\* The backtick that ends such a text is not part of this way.
ReadRaw(c) ==
    /\ Unescaped(c) /\ Ticked(c) # "quote" /\ Quoted(c) \in {"raw", "rawInQuote"}
    /\ Reads(c, FALSE)
    /\ LET g == IF c = Backtick /\ SpacePrior /\ ~f.beginningOfLine
                THEN Write(Got(c), Blank) ELSE Got(c)
       IN  f' = [Write(g, c) EXCEPT !.space = FALSE, !.quotes = Quoted(c)]

Plain(c) == Unescaped(c) /\ Ticked(c) # "quote" /\ Quoted(c) \notin {"raw", "rawInQuote"}

\* newLines stands for itself up to three: no more than two are written.
ReadBlank(c) ==
    /\ Plain(c) \/ Ends(c)
    /\ c \in {Blank, NewLine} /\ Reads(c, TRUE)
    /\ LET g == [FinishToken(Closed(f)) EXCEPT !.space = TRUE, !.heredocEscaped = FALSE]
       IN  f' = IF c = Blank THEN g
                ELSE [FinishLine(g) EXCEPT !.newLines = IF @ < 3 THEN @ + 1 ELSE @]

\* Any other character, after the brace that waits for it.
Seen(c) == Flushed([Got(c) EXCEPT !.space = FALSE, !.quotes = Quoted(c),
                                  !.comment = (c = "#")], SpacePrior)

\* Of two braces without a blank the first is forgotten.
ReadOpening(c) ==
    /\ Plain(c) /\ c = LeftBrace /\ Reads(c, SpacePrior)
    /\ LET g == FinishToken(Seen(c))
           apart == SpacePrior /\ ~g.beginningOfLine
           h == IF apart /\ g.newLines = 0 THEN Write(g, Blank) ELSE g
       IN  f' = [h EXCEPT !.openBrace = TRUE, !.openBraceSpace = apart,
                          !.openBraceOwnLine = g.newLines > 0, !.openBraceWritten = FALSE]

Closes(c) == c = RightBrace /\ (SpacePrior \/ ~Seen(c).openBrace)

ReadClosing(c) ==
    /\ Plain(c) /\ Closes(c) /\ Reads(c, SpacePrior)
    /\ LET g == FinishToken(Seen(c))
           h == Outdent(IF g.last # NewLine THEN NextLine(g) ELSE g)
       IN  f' = [Write(Indent(h), c) EXCEPT !.newLines = 0]

ReadText(c) ==
    /\ Plain(c) /\ c \notin {Blank, NewLine, LeftBrace} /\ ~Closes(c) /\ Reads(c, TRUE)
    /\ LET g == Seen(c)
           lines == IF g.newLines = 0 THEN g ELSE NextLine(g)
           line == IF lines.beginningOfLine THEN EmptyLine(Indent(lines)) ELSE lines
           place == IF ~line.beginningOfLine /\ SpacePrior THEN Write(line, Blank) ELSE line
           token == IF g.token = Nothing /\ c = "i" THEN c ELSE "a"
       IN  f' = [Write(GluedBrace(place), c) EXCEPT
                    !.newLines = 0, !.beginningOfLine = FALSE, !.token = token,
                    !.space = SpacePrior /\ c = Less]

FormatNext ==
    \E c \in Characters :
        \/ ReadComment(c) \/ ReadBackslash(c) \/ ReadEscaped(c) \/ ReadQuoted(c)
        \/ ReadHeredoc(c) \/ ReadMarker(c) \/ MarkerEnds(c) \/ ReadBody(c)
        \/ ReadRaw(c) \/ ReadBlank(c) \/ ReadOpening(c) \/ ReadClosing(c) \/ ReadText(c)

-----------------------------------------------------------------------------
\* The formatter changes blanks alone: what it has written is what it has read,
\* but for an opening brace that it holds back until it knows where to put it.
\* The exceptions, for which lost stands, are a backslash, a backtick, the second
\* "<" of a heredoc or another brace that comes while a brace is held back.
\* A brace that is held at the end of a text is never written: it is still owed.
FormatKeepsText == ~lost => f.owed = IF Held(f) THEN <<LeftBrace>> ELSE <<>>
=============================================================================
