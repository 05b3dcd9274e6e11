----------------------------- MODULE MCPrintf -----------------------------
(* All formats of up to four characters, so with up to two conversions, and *)
(* every number where there is one conversion only.                         *)
EXTENDS Printf

\* % a d i u x X p s c
MCChars == {37, 97, 100, 105, 117, 120, 88, 112, 115, 99}

\* Around the change of sign, and with one to three digits in both bases.
MCNumbers == {0, 9, 10, 171, 255, 256, 511}

MCValues == [n \in 0 .. 4 |-> IF n <= 2 THEN 0 .. UINT - 1
                              ELSE IF n = 3 THEN MCNumbers ELSE {171, 256}]

\* The string literal behind a format: empty, a letter, a conversion.
MCBeyond  == {<<>>, <<98>>, <<37, 117>>}
MCStrings == {<<>>, <<37, 100>>}
=============================================================================
