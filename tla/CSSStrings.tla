----------------------------- MODULE CSSStrings -----------------------------
(***************************************************************************)
(* The strings of a stylesheet: cssEscapeString, which quotes a URL that   *)
(* the callback has changed, and cssUnescapeString, which reads one.  A    *)
(* string is a sequence of runes (code points).                            *)
(*                                                                         *)
(* The machine quotes a value, as the program or as some author does, and  *)
(* reads it back.                                                          *)
(***************************************************************************)
EXTENDS Integers, SequencesExt

CONSTANTS
  Runes,          \* the code points values are made of
  MaxLength       \* bound: the length of a value

\* Module Rewrite assumes this.
RunesAssumption == Runes \subseteq 1 .. 255 /\ MaxLength \in Nat

Newline == 10
Tab == 9
Space == 32
DoubleQuote == 34
Apostrophe == 39
Backslash == 92
Zero == 48
UpperA == 65
LowerA == 97

VARIABLES
  value, quote,   \* what is quoted, and the quote it is given
  text,           \* the string token
  by,             \* who wrote it
  stage,          \* "value", "text" or "read"
  read            \* what cssUnescapeString has returned for it

vars == <<value, quote, text, by, stage, read>>

-----------------------------------------------------------------------------
(* Escaping.                                                               *)

\* FormatInt(d, 16) of a digit, and of a rune.
Digit(d) == IF d < 10 THEN Zero + d ELSE LowerA + d - 10
Hex(r) == IF r < 16 THEN <<Digit(r)>> ELSE <<Digit(r \div 16), Digit(r % 16)>>

Escaped(r) == <<Backslash>> \o Hex(r) \o <<Space>>

\* Mutant: the other quote, or none, is escaped, and the end comes early.
EscapeNoQuote(v, q) ==
  <<q>> \o FlattenSeq([i \in DOMAIN v |->
             IF v[i] \in {Newline, Backslash} THEN Escaped(v[i]) ELSE <<v[i]>>])
    \o <<q>>

\* cssEscapeString.
Escape(v, q) ==
  <<q>> \o FlattenSeq([i \in DOMAIN v |->
             IF v[i] \in {Newline, q, Backslash} THEN Escaped(v[i])
                                                 ELSE <<v[i]>>])
    \o <<q>>

-----------------------------------------------------------------------------
(* Reading.                                                                *)

\* The digits as the program knows them: 'f' is not one.
isHexDigit(r) ==
  \/ r \in Zero .. Zero + 9
  \/ r \in LowerA .. LowerA + 4
  \/ r \in UpperA .. UpperA + 5

isWhiteSpace(r) == r \in {Newline, Tab, Space}

DigitValue(r) ==
  CASE r \in Zero .. Zero + 9 -> r - Zero
    [] r >= LowerA -> r - LowerA + 10
    [] OTHER -> r - UpperA + 10

\* How many hexadecimal digits, six at most, start at position i.
DigitsAt(d, i) ==
  CHOOSE n \in 0 .. 6 :
    /\ \A j \in i .. i + n - 1 : j \in DOMAIN d /\ isHexDigit(d[j])
    /\ n = 6 \/ i + n \notin DOMAIN d \/ ~isHexDigit(d[i + n])

\* WriteRune writes U+FFFD for what is not a code point.
AsRune(n) == IF n > 1114111 \/ n \in 55296 .. 57343 THEN 65533 ELSE n

\* consumeEscape at position i: what it writes and where it stops.
consumeEscape(d, i) ==
  LET n == DigitsAt(d, i)
      number == FoldLeft(LAMBDA v, r : 16 * v + DigitValue(r), 0,
                         SubSeq(d, i, i + n - 1))
      space == i + n \in DOMAIN d /\ isWhiteSpace(d[i + n])
  IN  IF n > 0
        THEN [runes |-> <<AsRune(number)>>,
              next |-> i + n + (IF space THEN 1 ELSE 0)]
        ELSE [runes |-> IF d[i] = Newline THEN <<>> ELSE <<d[i]>>, next |-> i + 1]

Malformed == [ok |-> FALSE, value |-> <<>>, size |-> 0]

\* cssUnescapeString: the value, and how much of the data the string takes.
Unescape(d) ==
  LET q == d[1]
      from[i \in 2 .. Len(d) + 2] ==      \* the result if the rest starts at i
        IF i > Len(d) \/ d[i] = Newline \/ (i = Len(d) /\ d[i] = Backslash)
          THEN Malformed
        ELSE IF d[i] = q THEN [ok |-> TRUE, value |-> <<>>, size |-> i]
        ELSE LET e == IF d[i] = Backslash THEN consumeEscape(d, i + 1)
                      ELSE [runes |-> <<d[i]>>, next |-> i + 1]
                 rest == from[e.next]
             IN  IF rest.ok THEN [rest EXCEPT !.value = e.runes \o @]
                 ELSE Malformed
  IN  IF q \in {DoubleQuote, Apostrophe} THEN from[2] ELSE Malformed

-----------------------------------------------------------------------------

Init ==
  /\ value \in UNION {[1 .. n -> Runes] : n \in 0 .. MaxLength}
  /\ quote \in {DoubleQuote, Apostrophe}
  /\ text = <<>>
  /\ by = "nobody"
  /\ stage = "value"
  /\ read = Malformed

ProgramQuotes ==
  /\ stage = "value"
  /\ stage' = "text"
  /\ text' = Escape(value, quote)
  /\ by' = "program"
  /\ UNCHANGED <<value, quote, read>>

\* A stylesheet may escape any rune by its number.
AuthorQuotes ==
  /\ stage = "value"
  /\ stage' = "text"
  /\ text' = <<quote>> \o FlattenSeq([i \in DOMAIN value |-> Escaped(value[i])])
               \o <<quote>>
  /\ by' = "author"
  /\ UNCHANGED <<value, quote, read>>

Read ==
  /\ stage = "text"
  /\ stage' = "read"
  /\ read' = Unescape(text)
  /\ UNCHANGED <<value, quote, text, by>>

Next == ProgramQuotes \/ AuthorQuotes \/ Read

Spec == Init /\ [][Next]_vars

-----------------------------------------------------------------------------
(* Properties.                                                             *)

Whole == [ok |-> TRUE, value |-> value, size |-> Len(text)]

\* A URL the program has quoted is one whole string token and reads as that
\* URL, whatever quotes, newlines, backslashes and digits follow one another in
\* it (css.go:214-316).
QuotedIsReadBack == stage = "read" /\ by = "program" => read = Whole

\* What css.go:249 refers to, the token of CSS Syntax Level 3: a rune that is
\* escaped by its hexadecimal number is read as that rune.
EscapesAreRead == stage = "read" /\ by = "author" => read = Whole
=============================================================================
