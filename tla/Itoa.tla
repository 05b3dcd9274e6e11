-------------------------------- MODULE Itoa --------------------------------
(***************************************************************************)
(* The three number conversions of the C library: itoa (libc/src/stdlib.c),*)
(* _uitoa and _pitoa (libc/src/stdio.c).  They are one loop: the digits    *)
(* are written backwards and then exchanged pairwise.  A character is its  *)
(* ASCII code.                                                             *)
(***************************************************************************)
EXTENDS Integers, Sequences

CONSTANT UINT    \* values of an unsigned long

ASSUME UintAssumption == UINT \in Nat \ {0} /\ UINT % 2 = 0

NUL     == 0
MINUS   == 45     \* '-'
Decimal == 10
Hex     == 16

VARIABLES
  fn, value, base,   \* the call; value as an unsigned number
  str,               \* the string written so far
  p,                 \* characters written
  ud,                \* what is left of the number
  p1, p2,            \* the characters exchanged next
  at                 \* the statement that is next

itoaVars == <<fn, value, base, str, p, ud, p1, p2, at>>

ItoaInit ==
  /\ fn = "none" /\ value = 0 /\ base = Decimal
  /\ str = <<>> /\ p = 0 /\ ud = 0 /\ p1 = 0 /\ p2 = 0
  /\ at = "idle"

\* Mutant: every number is taken for signed.
Signed_any(f, v, b) == b = Decimal /\ v >= UINT \div 2

\* Only itoa has a sign, and only in base 10.
Signed(f, v, b) == f = "itoa" /\ b = Decimal /\ v >= UINT \div 2

\* The smallest int is its own negation (the processor's neg), and as an
\* unsigned number that is its absolute value.
Convert(f, v, b) ==
  /\ at = "idle"
  /\ fn' = f /\ value' = v /\ base' = b
  /\ IF Signed(f, v, b)
     THEN str' = <<MINUS>> /\ p' = 1 /\ ud' = (UINT - v) % UINT
     ELSE str' = <<>> /\ p' = 0 /\ ud' = v
  /\ p1' = p' /\ p2' = 0
  /\ at' = "digits"

\* Mutant: the test is made before the division.
LastDigit_late == ud = 0

LastDigit == ud \div base = 0

Digit ==
  /\ at = "digits"
  /\ LET remainder == ud % base
     IN  str' = Append(str, IF remainder < 10 THEN remainder + 48   \* '0'
                            ELSE remainder + 97 - 10)                \* 'a'
  /\ p' = p + 1
  /\ ud' = ud \div base
  /\ at' = IF LastDigit THEN "end" ELSE "digits"
  /\ UNCHANGED <<fn, value, base, p1, p2>>

\* Mutant: p2 is not moved back from the terminator.
LastToSwap_terminator == p

LastToSwap == p - 1

Terminate ==
  /\ at = "end"
  /\ str' = Append(str, NUL)
  /\ p2' = LastToSwap
  /\ at' = "swap"
  /\ UNCHANGED <<fn, value, base, p, ud, p1>>

Swap ==
  /\ at = "swap" /\ p1 < p2
  /\ str' = [str EXCEPT ![p1 + 1] = str[p2 + 1], ![p2 + 1] = str[p1 + 1]]
  /\ p1' = p1 + 1 /\ p2' = p2 - 1
  /\ UNCHANGED <<fn, value, base, p, ud, at>>

Return ==
  /\ at = "swap" /\ p1 >= p2
  /\ at' = "done"
  /\ UNCHANGED <<fn, value, base, str, p, ud, p1, p2>>

ItoaStep == Digit \/ Terminate \/ Swap \/ Return
=============================================================================
