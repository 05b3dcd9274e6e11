------------------------------- MODULE Printf -------------------------------
(***************************************************************************)
(* printf of libc/src/stdio.c: its walk over the format, with the          *)
(* conversions of Itoa run digit by digit in its buffer.  The caller       *)
(* passes arguments of the types that the conversions name.                *)
(***************************************************************************)
EXTENDS Itoa, FiniteSets, SequencesExt

CONSTANTS
  Chars,      \* characters a format is made of
  MaxFormat,  \* bound: their number
  Beyond,     \* what the memory behind a format may hold, up to a zero
  Values,     \* length of a format -> the numbers passed to it
  Strings     \* the strings passed to printf

PERCENT == 37
x_upper == 88
Signeds == {100, 105}                \* d, i
Numbers == Signeds \cup {117, 120, x_upper, 112}     \* u, x, X, p
string  == 115                       \* s
char    == 99                        \* c

ASSUME FormatAssumption ==
  /\ Chars \subseteq 1 .. 127 /\ MaxFormat \in Nat
  /\ Strings \cup Beyond \subseteq Seq(1 .. 255)
  /\ \A n \in 0 .. MaxFormat : Values[n] \subseteq 0 .. UINT - 1

VARIABLES
  text,        \* the format up to its zero
  format,      \* the memory from its start on
  i,           \* the index of the walk, from 0
  characters,  \* the value to be returned
  out,         \* the characters given to putchar
  args,        \* history: the arguments taken so far
  pc           \* "walk", "number" inside a conversion, "done"

vars == <<itoaVars, text, format, i, characters, out, args, pc>>

-----------------------------------------------------------------------------
\* Mutant: the characters of the other case are moved.
toupper_inverted(c) == IF c \in 65 .. 90 THEN c - 32 ELSE c

toupper(c) == IF c \in 97 .. 122 THEN c - 32 ELSE c

Uppercase(s) == [n \in DOMAIN s |-> toupper(s[n])]

\* A string up to its zero: _puts, or _uputs for %X.
CString(s) ==
  LET end == CHOOSE n \in DOMAIN s : s[n] = NUL /\ \A m \in 1 .. n - 1 : s[m] # NUL
  IN  SubSeq(s, 1, end - 1)

Init ==
  /\ ItoaInit
  /\ \E n \in 0 .. MaxFormat : text \in [1 .. n -> Chars]
  /\ \E beyond \in Beyond : format = text \o <<NUL>> \o beyond \o <<NUL>>
  /\ i = 0 /\ characters = 0 /\ out = <<>> /\ args = <<>>
  /\ pc = "walk"

Read(n) == format[n + 1]

\* The character after a '%' at i.
Conversion == Read(i + 1)

\* Mutant: the loop does not skip the character after '%'.
AfterConversion_same == i + 1

AfterConversion == i + 2

\* Mutant: plain characters are counted too.
Counted_plain == characters + 1

\* Plain characters are not counted.
Counted == characters

-----------------------------------------------------------------------------
Walking == pc = "walk" /\ at = "idle"

Plain ==
  /\ Walking /\ Read(i) \notin {NUL, PERCENT}
  /\ out' = Append(out, Read(i))
  /\ characters' = Counted
  /\ i' = i + 1
  /\ UNCHANGED <<itoaVars, text, format, args, pc>>

\* A conversion that printf does not know prints nothing; "%%" is one.
Unknown ==
  /\ Walking /\ Read(i) = PERCENT
  /\ Conversion \notin Numbers \cup {string, char}
  /\ i' = AfterConversion
  /\ UNCHANGED <<itoaVars, text, format, characters, out, args, pc>>

Emit(s) ==
  /\ out' = out \o s
  /\ characters' = characters + Len(s)
  /\ i' = AfterConversion
  /\ UNCHANGED <<text, format>>

String ==
  /\ Walking /\ Read(i) = PERCENT
  /\ \E s \in IF Conversion = string THEN Strings
              ELSE IF Conversion = char THEN {<<c>> : c \in Chars} ELSE {} :
       Emit(s) /\ args' = Append(args, s)
  /\ UNCHANGED <<itoaVars, pc>>

\* Mutants: %i is taken for unsigned; %p for decimal.
Converter_i(c)  == IF c = 100 THEN "itoa" ELSE IF c = 112 THEN "_pitoa" ELSE "_uitoa"
BaseOf_p(c)     == IF c \in {120, x_upper} THEN Hex ELSE Decimal

Converter(c) == IF c \in Signeds THEN "itoa"
                ELSE IF c = 112 THEN "_pitoa" ELSE "_uitoa"
BaseOf(c)    == IF c \in Signeds \cup {117} THEN Decimal ELSE Hex

Number ==
  /\ Walking /\ Read(i) = PERCENT /\ Conversion \in Numbers
  /\ \E v \in Values[Len(text)] :
       /\ Convert(Converter(Conversion), v, BaseOf(Conversion))
       /\ args' = Append(args, v)
  /\ pc' = "number"
  /\ UNCHANGED <<text, format, i, characters, out>>

PrintNumber ==
  /\ pc = "number" /\ at = "done"
  /\ Emit(IF Conversion = x_upper THEN Uppercase(CString(str)) ELSE CString(str))
  /\ at' = "idle" /\ pc' = "walk"
  /\ UNCHANGED <<fn, value, base, str, p, ud, p1, p2, args>>

End ==
  /\ Walking /\ Read(i) = NUL
  /\ pc' = "done"
  /\ UNCHANGED <<itoaVars, text, format, i, characters, out, args>>

Next ==
  \/ Plain
  \/ Unknown
  \/ String
  \/ Number
  \/ ItoaStep /\ UNCHANGED <<text, format, i, characters, out, args, pc>>
  \/ PrintNumber
  \/ End

Spec == Init /\ [][Next]_vars

-----------------------------------------------------------------------------
(* Properties.                                                             *)

\* The '%' right before position n of the text, counted back to another
\* character.
PercentsBefore(n) ==
  CHOOSE m \in 0 .. n - 1 :
    /\ \A k \in n - m .. n - 1 : text[k] = PERCENT
    /\ m = n - 1 \/ text[n - m - 1] # PERCENT

\* They are taken in pairs, so an odd one introduces what follows.
Introduced(n) == PercentsBefore(n) % 2 = 1

\* A format that ends in a '%' of no pair.
Unfinished == PercentsBefore(Len(text) + 1) % 2 = 1

\* The digits of n in base b without superfluous zeros; a is ten as a digit.
DigitOf(d, a) == IF d < 10 THEN d + 48 ELSE d + a - 10

Numeral(n, b, a) ==
  LET numeral[m \in 0 .. UINT] ==
        IF m < b THEN <<DigitOf(m, a)>>
        ELSE Append(numeral[m \div b], DigitOf(m % b, a))
  IN  numeral[n]

\* What a conversion shows of an argument.
Shown(c, arg) ==
  CASE c \in Signeds -> IF arg < UINT \div 2 THEN Numeral(arg, Decimal, 97)
                        ELSE <<MINUS>> \o Numeral(UINT - arg, Decimal, 97)
    [] c = 117          -> Numeral(arg, Decimal, 97)
    [] c = x_upper      -> Numeral(arg, Hex, 65)
    [] c \in {112, 120} -> Numeral(arg, Hex, 97)
    [] OTHER            -> arg

TakesArg(n) == Introduced(n) /\ text[n] \in Numbers \cup {string, char}

\* What position n of the text stands for.
Piece(n) ==
  IF TakesArg(n)
  THEN Shown(text[n], args[Cardinality({m \in 1 .. n : TakesArg(m)})])
  ELSE IF Introduced(n) \/ text[n] = PERCENT THEN <<>> ELSE <<text[n]>>

\* printf prints the format with each conversion in place of the next argument,
\* as a number that denotes it, the smallest int included, and it returns the
\* number of characters its conversions printed: not of all it printed.
PrintsExpansion ==
  pc = "done" /\ ~Unfinished =>
    /\ out = FlattenSeq([n \in DOMAIN text |-> Piece(n)])
    /\ characters = Len(FlattenSeq([n \in DOMAIN text |->
                          IF TakesArg(n) THEN Piece(n) ELSE <<>>]))

\* stdio.c:150 and 186: the walk ends at the zero of the format, and goes past
\* it exactly when the format ends in a '%' that introduces nothing.
StopsAtZero ==
  /\ i > Len(text) => Unfinished
  /\ pc = "done" /\ Unfinished => i > Len(text)
=============================================================================
