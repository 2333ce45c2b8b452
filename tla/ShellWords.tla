----------------------------- MODULE ShellWords -----------------------------
(***************************************************************************)
(* shellWords of systemd-parser.ts, with which the API reads the command   *)
(* line of a unit: one action for each branch of its loop, against the     *)
(* ways in which somebody may have quoted the words.                       *)
(***************************************************************************)
EXTENDS Integers, Sequences, SequencesExt

CONSTANTS MaxWords, MaxChars \* bounds: words of a line, characters of a word

ASSUME WordConstants == {MaxWords, MaxChars} \subseteq Nat

Single == "'"
Double == "\""
Escape == "\\"
Space == " "
Chars == {"a", Space, Single, Double, Escape}

VARIABLES
    argv,             \* the words of the command
    unread,           \* what the loop has not read
    value, quote, escaping, words,
    reading

wordVars == <<argv, unread, value, quote, escaping, words, reading>>

Words == UNION {[1..n -> Chars] : n \in 0..MaxChars}

WordTypeOK ==
    /\ Len(argv) <= MaxWords /\ Range(argv) \subseteq Words
    /\ Range(unread) \cup Range(value) \subseteq Chars
    /\ quote \in {Single, Double, Space} /\ {escaping, reading} \subseteq BOOLEAN
    /\ \A i \in DOMAIN words : words[i] # <<>>

\* quote is Space for null.
WordInit ==
    /\ argv = <<>> /\ unread = <<>> /\ value = <<>> /\ quote = Space
    /\ escaping = FALSE /\ words = <<>> /\ reading = FALSE

\* What a unit may hold for a word: every special character behind a backslash,
\* double quotes with backslashes where they are needed, or single quotes.
Escaped(word, special) ==
    FlattenSeq([i \in DOMAIN word |->
        IF word[i] \in special THEN <<Escape, word[i]>> ELSE <<word[i]>>])

Styles == {Single, Double, Space}
CanTake(word, style) == style = Single => Single \notin Range(word)
QuotedAs(word, style) ==
    IF style = Space THEN Escaped(word, Chars \ {"a"})
    ELSE <<style>>
         \o (IF style = Single THEN word ELSE Escaped(word, {Double, Escape}))
         \o <<style>>

ParseWords(ws, styles) ==
    /\ ~reading
    /\ \A i \in DOMAIN ws : CanTake(ws[i], styles[i])
    /\ argv' = ws
    /\ unread' = FlattenSeq([i \in DOMAIN ws |-> QuotedAs(ws[i], styles[i]) \o <<Space>>])
    /\ reading' = TRUE
    /\ UNCHANGED <<value, quote, escaping, words>>

Takes(c) ==
    /\ reading /\ unread # <<>> /\ c = Head(unread)
    /\ unread' = Tail(unread)
    /\ UNCHANGED <<argv, reading>>

Keeps(c) == value' = Append(value, c) /\ UNCHANGED words

WordEscaped(c) ==
    /\ escaping /\ Takes(c)
    /\ escaping' = FALSE
    /\ Keeps(c) /\ UNCHANGED quote

\* Wrong variant of Escapes: single quotes keep no backslash.
BugEscapes(c) == ~escaping /\ c = Escape

Escapes(c) == ~escaping /\ c = Escape /\ quote # Single

WordBackslash(c) ==
    /\ Escapes(c) /\ Takes(c)
    /\ escaping' = TRUE
    /\ UNCHANGED <<value, quote, words>>

WordQuoted(c) ==
    /\ ~escaping /\ ~Escapes(c) /\ quote # Space /\ Takes(c)
    /\ IF c = quote THEN quote' = Space /\ UNCHANGED <<value, words>>
                    ELSE Keeps(c) /\ UNCHANGED quote
    /\ UNCHANGED escaping

Unquoted(c) == ~escaping /\ ~Escapes(c) /\ quote = Space

WordQuote(c) ==
    /\ Unquoted(c) /\ c \in {Single, Double} /\ Takes(c)
    /\ quote' = c
    /\ UNCHANGED <<value, escaping, words>>

\* A word without characters is none.
Finished == IF value = <<>> THEN words ELSE Append(words, value)

WordBlank(c) ==
    /\ Unquoted(c) /\ c = Space /\ Takes(c)
    /\ words' = Finished /\ value' = <<>>
    /\ UNCHANGED <<quote, escaping>>

WordOther(c) ==
    /\ Unquoted(c) /\ c = "a" /\ Takes(c)
    /\ Keeps(c) /\ UNCHANGED <<quote, escaping>>

WordsEnd ==
    /\ reading /\ unread = <<>>
    /\ words' = Finished /\ value' = <<>> /\ reading' = FALSE
    /\ UNCHANGED <<argv, unread, quote, escaping>>

WordNext ==
    \/ /\ argv = <<>>
       /\ \E n \in 1..MaxWords : \E ws \in [1..n -> Words], styles \in [1..n -> Styles] :
              ParseWords(ws, styles)
    \/ \E c \in Chars : \/ WordEscaped(c) \/ WordBackslash(c) \/ WordQuoted(c)
                        \/ WordQuote(c) \/ WordBlank(c) \/ WordOther(c)
    \/ WordsEnd

-----------------------------------------------------------------------------
\* The words of a command that are not empty.
NotEmpty(ws) == FlattenSeq([i \in DOMAIN ws |-> IF ws[i] = <<>> THEN <<>> ELSE <<ws[i]>>])

\* The command line of a unit, from which the paths of the binary and the
\* configuration are taken, is read as the words that were quoted, whatever they
\* hold and however they are quoted, but for empty ones, which are lost.
\* The command line is what extractExecCommand leaves of it: the text up to the
\* first ";" or "}", quoted or not.
QuotedWordsAreRead == argv # <<>> /\ ~reading => words = NotEmpty(argv)
=============================================================================
