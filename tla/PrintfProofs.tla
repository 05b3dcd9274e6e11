---------------------------- MODULE PrintfProofs ----------------------------
(***************************************************************************)
(* Proofs about printf (Printf): that its walk over the format stops at    *)
(* the terminator, for formats of every length, and that what it prints is *)
(* the expansion of the format, for arguments of every value: the digits   *)
(* itoa writes are the numeral the expansion asks for.                     *)
(***************************************************************************)
EXTENDS Printf, FiniteSets, FiniteSetTheorems, SequenceTheorems, TLAPS

-----------------------------------------------------------------------------
(* The number of '%' right before a position.                              *)

\* Induction, for a set of numbers: were n the first that S misses, adding one
\* would map those up to n that it has one-to-one to those of them but zero.
LEMMA SetInduction ==
  ASSUME NEW S, 0 \in S, \A n \in Nat : n \in S => n + 1 \in S
  PROVE  Nat \subseteq S
<1> SUFFICES ASSUME NEW n \in Nat, n \notin S
             PROVE  FALSE
  OBVIOUS
<1> DEFINE T == {x \in 0 .. n : x \in S}
           f == [x \in T |-> x + 1]
<1>1. IsFiniteSet(T) /\ 0 \in T
  <2>1. IsFiniteSet(0 .. n)
    BY FS_Interval
  <2>2. QED
    BY <2>1, FS_Subset
<1>2. IsFiniteSet(T \ {0}) /\ Cardinality(T \ {0}) = Cardinality(T) - 1
      /\ Cardinality(T) \in Nat
  BY <1>1, FS_RemoveElement, FS_CardinalityType
<1>3. f \in [T -> T \ {0}]
  OBVIOUS
<1>4. \E x, y \in T : x # y /\ f[x] = f[y]
  <2> HIDE DEF T, f
  <2>1. Cardinality(T \ {0}) < Cardinality(T)
    BY <1>2
  <2>2. QED
    BY <1>1, <1>2, <1>3, <2>1, FS_PigeonHole
<1>5. QED
  BY <1>4

\* m is that number before position n.
Run(n, m) ==
  /\ m \in 0 .. n - 1
  /\ \A k \in n - m .. n - 1 : text[k] = PERCENT
  /\ m = n - 1 \/ text[n - m - 1] # PERCENT

LEMMA RunStep ==
  ASSUME NEW n \in Nat \ {0}, NEW m, Run(n, m)
  PROVE  /\ text[n] = PERCENT => Run(n + 1, m + 1)
         /\ text[n] # PERCENT => Run(n + 1, 0)
<1>1. m \in Nat /\ m <= n - 1
  BY DEF Run
<1>2. ASSUME text[n] = PERCENT
      PROVE  Run(n + 1, m + 1)
  <2>1. m + 1 \in 0 .. n + 1 - 1
    BY <1>1
  <2>2. \A k \in n + 1 - (m + 1) .. n + 1 - 1 : text[k] = PERCENT
    <3> TAKE k \in n + 1 - (m + 1) .. n + 1 - 1
    <3>1. k = n \/ k \in n - m .. n - 1
      BY <1>1
    <3>2. QED
      BY <1>2, <3>1 DEF Run
  <2>3. n + 1 - (m + 1) - 1 = n - m - 1
    BY <1>1
  <2>4. QED
    BY <1>1, <2>1, <2>2, <2>3 DEF Run
<1>3. ASSUME text[n] # PERCENT
      PROVE  Run(n + 1, 0)
  <2>1. n + 1 - 0 - 1 = n
    OBVIOUS
  <2>2. QED
    BY <1>3, <2>1 DEF Run
<1>4. QED
  BY <1>2, <1>3

LEMMA RunExists ==
  ASSUME NEW n \in Nat \ {0}
  PROVE  \E m \in Nat : Run(n, m)
<1> DEFINE S == {k \in Nat : \E m \in Nat : Run(k + 1, m)}
<1>1. 0 \in S
  <2>1. Run(1, 0)
    BY DEF Run
  <2>2. QED
    BY <2>1
<1>2. \A k \in Nat : k \in S => k + 1 \in S
  <2> SUFFICES ASSUME NEW k \in Nat, NEW m \in Nat, Run(k + 1, m)
               PROVE  k + 1 \in S
    OBVIOUS
  <2>1. k + 1 \in Nat \ {0}
    OBVIOUS
  <2>2. Run(k + 1 + 1, m + 1) \/ Run(k + 1 + 1, 0)
    BY <2>1, RunStep
  <2>3. QED
    BY <2>2
<1>3. n - 1 \in S
  <2> HIDE DEF S
  <2>1. Nat \subseteq S
    BY <1>1, <1>2, SetInduction
  <2>2. QED
    BY <2>1
<1>4. QED
  BY <1>3

LEMMA RunUnique ==
  ASSUME NEW n \in Nat \ {0}, NEW m \in Nat, NEW l \in Nat, Run(n, m), Run(n, l)
  PROVE  m = l
<1>1. ASSUME NEW a \in Nat, NEW b \in Nat, Run(n, a), Run(n, b), a < b
      PROVE  FALSE
  <2>1. a # n - 1 /\ n - a - 1 \in n - b .. n - 1
    BY <1>1 DEF Run
  <2>2. QED
    BY <1>1, <2>1 DEF Run
<1>2. m < l \/ l < m \/ m = l
  OBVIOUS
<1>3. QED
  BY <1>1, <1>2

LEMMA PercentsRun ==
  ASSUME NEW n \in Nat \ {0}
  PROVE  PercentsBefore(n) \in Nat /\ Run(n, PercentsBefore(n))
<1> DEFINE Is(m) == /\ \A k \in n - m .. n - 1 : text[k] = PERCENT
                    /\ m = n - 1 \/ text[n - m - 1] # PERCENT
<1>1. \E m \in 0 .. n - 1 : Is(m)
  BY RunExists DEF Run
<1>2. PercentsBefore(n) = CHOOSE m \in 0 .. n - 1 : Is(m)
  BY DEF PercentsBefore
<1> HIDE DEF Is
<1>3. PercentsBefore(n) \in 0 .. n - 1 /\ Is(PercentsBefore(n))
  BY <1>1, <1>2
<1>4. QED
  BY <1>3 DEF Is, Run

\* The number counts on over '%' and begins again at any other character.
LEMMA PercentsNext ==
  ASSUME NEW n \in Nat \ {0}
  PROVE  /\ text[n] = PERCENT => PercentsBefore(n + 1) = PercentsBefore(n) + 1
         /\ text[n] # PERCENT => PercentsBefore(n + 1) = 0
         /\ PercentsBefore(n) \in Nat
<1>1. PercentsBefore(n) \in Nat /\ Run(n, PercentsBefore(n))
  BY PercentsRun
<1>2. PercentsBefore(n + 1) \in Nat /\ Run(n + 1, PercentsBefore(n + 1))
  BY PercentsRun
<1>3. QED
  BY <1>1, <1>2, RunStep, RunUnique

LEMMA PercentsFirst == PercentsBefore(1) = 0
BY PercentsRun DEF Run

-----------------------------------------------------------------------------
(* The walk.                                                               *)

\* The memory from the start of the format on holds the text and its zero.
TextInMemory ==
  /\ text \in Seq(Chars) /\ i \in Nat
  /\ \A n \in 1 .. Len(text) : format[n] = text[n]
  /\ format[Len(text) + 1] = NUL

\* At the head of the loop no '%' is pending, and the walk has left the text
\* only if a '%' at its end made it.
Paired ==
  /\ i <= Len(text) => PercentsBefore(i + 1) % 2 = 0
  /\ i > Len(text) => Unfinished

\* The inductive invariant.
WalkInv ==
  /\ TextInMemory
  /\ Paired
  /\ pc = "number" => Read(i) = PERCENT
  /\ pc = "done" /\ Unfinished => i > Len(text)

LEMMA InitWalkInv == Init => WalkInv
<1> SUFFICES ASSUME Init
             PROVE  WalkInv
  OBVIOUS
<1>1. PICK n \in 0 .. MaxFormat : text \in [1 .. n -> Chars]
  BY DEF Init
<1>2. n \in Nat
  BY <1>1, FormatAssumption
<1>3. text \in Seq(Chars) /\ Len(text) = n
  BY <1>1, <1>2
<1>4. PICK beyond \in Beyond : format = text \o <<NUL>> \o beyond \o <<NUL>>
  BY DEF Init
<1> DEFINE ended  == text \o <<NUL>>
           longer == ended \o beyond
<1>5. Chars \subseteq Int /\ beyond \in Seq(Int) /\ <<NUL>> \in Seq(Int)
      /\ text \in Seq(Int)
  <2>1. Chars \subseteq Int
    BY FormatAssumption
  <2>2. beyond \in Seq(1 .. 255)
    BY FormatAssumption
  <2>3. \A S, T, s : S \subseteq T /\ s \in Seq(S) => s \in Seq(T)
    OBVIOUS
  <2>4. beyond \in Seq(Int)
    <3>1. 1 .. 255 \subseteq Int
      OBVIOUS
    <3>2. QED
      BY <2>2, <2>3, <3>1
  <2>5. text \in Seq(Int)
    BY <1>3, <2>1, <2>3
  <2>6. QED
    BY <2>1, <2>4, <2>5 DEF NUL
<1>6. /\ ended \in Seq(Int) /\ Len(ended) = n + 1
      /\ \A k \in 1 .. n : ended[k] = text[k]
      /\ ended[n + 1] = NUL
  <2> DEFINE zero == <<NUL>>
  <2>1. zero \in Seq(Int) /\ Len(zero) = 1 /\ zero[1] = NUL
    BY <1>5
  <2> HIDE DEF zero
  <2>2. ended = text \o zero
    BY DEF zero
  <2>3. QED
    BY <1>2, <1>3, <1>5, <2>1, <2>2
<1>7. /\ longer \in Seq(Int) /\ Len(longer) >= n + 1
      /\ \A k \in 1 .. n + 1 : longer[k] = ended[k]
  <2> HIDE DEF ended
  <2>1. QED
    BY <1>2, <1>5, <1>6
<1>8. \A k \in 1 .. n + 1 : format[k] = longer[k]
  <2> HIDE DEF longer
  <2>1. format = longer \o <<NUL>>
    BY <1>4 DEF longer
  <2>2. QED
    BY <1>2, <1>5, <1>7, <2>1
<1>9. TextInMemory
  <2> HIDE DEF ended, longer
  <2>1. i = 0
    BY DEF Init
  <2>2. /\ \A k \in 1 .. Len(text) : format[k] = text[k]
        /\ format[Len(text) + 1] = NUL
    <3>1. \A k \in 1 .. n + 1 : format[k] = ended[k]
      BY <1>7, <1>8
    <3>2. n + 1 \in 1 .. n + 1 /\ 1 .. n \subseteq 1 .. n + 1
      BY <1>2
    <3>3. format[n + 1] = NUL
      BY <1>6, <3>1, <3>2
    <3>4. \A k \in 1 .. n : format[k] = text[k]
      BY <1>6, <3>1, <3>2
    <3>5. QED
      BY <1>3, <3>3, <3>4
  <2>3. QED
    BY <1>3, <2>1, <2>2 DEF TextInMemory
<1>10. Paired
  <2>1. i = 0 /\ i + 1 = 1 /\ Len(text) \in Nat
    BY <1>2, <1>3 DEF Init
  <2>2. QED
    BY <2>1, PercentsFirst DEF Paired
<1>11. pc = "walk"
  BY DEF Init
<1>12. QED
  BY <1>9, <1>10, <1>11 DEF WalkInv

\* A character that is no '%' leaves the next without a '%' before it.
LEMMA PlainPaired ==
  ASSUME WalkInv, Read(i) \notin {NUL, PERCENT}, i' = i + 1, text' = text
  PROVE  Paired'
<1>1. text \in Seq(Chars) /\ i \in Nat /\ Len(text) \in Nat
  BY DEF WalkInv, TextInMemory
<1>2. Unfinished' <=> Unfinished
  BY DEF Unfinished, PercentsBefore
<1>3. CASE i > Len(text)
  BY <1>1, <1>2, <1>3 DEF WalkInv, Paired
<1>4. CASE i <= Len(text)
  <2>1. i < Len(text) /\ text[i + 1] # PERCENT
    BY <1>1, <1>4 DEF WalkInv, TextInMemory, Read
  <2>2. PercentsBefore(i + 1 + 1) = 0
    BY <1>1, <2>1, PercentsNext
  <2>3. PercentsBefore(i + 1)' = PercentsBefore(i + 1 + 1)
    BY DEF PercentsBefore
  <2>4. QED
    BY <1>1, <2>1, <2>2, <2>3 DEF Paired
<1>5. QED
  BY <1>1, <1>3, <1>4

\* The '%' and the character after it go together, if there is one.
LEMMA ConversionPaired ==
  ASSUME WalkInv, Read(i) = PERCENT, i' = AfterConversion, text' = text
  PROVE  Paired'
<1>1. /\ text \in Seq(Chars) /\ i \in Nat /\ Len(text) \in Nat
      /\ i' = i + 2
  BY DEF WalkInv, TextInMemory, AfterConversion
<1>2. Unfinished' <=> Unfinished
  BY DEF Unfinished, PercentsBefore
<1>3. CASE i > Len(text)
  BY <1>1, <1>2, <1>3 DEF WalkInv, Paired
<1>4. CASE i <= Len(text)
  <2>1. i < Len(text) /\ text[i + 1] = PERCENT /\ PercentsBefore(i + 1) % 2 = 0
    BY <1>1, <1>4 DEF WalkInv, TextInMemory, Paired, Read, NUL, PERCENT
  <2>2. /\ PercentsBefore(i + 1) \in Nat
        /\ PercentsBefore(i + 1 + 1) = PercentsBefore(i + 1) + 1
    BY <1>1, <2>1, PercentsNext
  <2>3. PercentsBefore(i + 2) \in Nat /\ PercentsBefore(i + 2) % 2 = 1
    <3>1. i + 1 + 1 = i + 2
      BY <1>1
    <3>2. QED
      BY <2>1, <2>2, <3>1
  <2>4. CASE i + 1 = Len(text)
    <3>1. Len(text) + 1 = i + 2
      BY <1>1, <2>4
    <3>2. Unfinished
      BY <2>3, <3>1 DEF Unfinished
    <3>3. QED
      BY <1>1, <1>2, <2>4, <3>2 DEF Paired
  <2>5. CASE i + 1 < Len(text)
    <3>1. i + 2 \in Nat \ {0} /\ i + 2 + 1 = i' + 1
      BY <1>1
    <3>2. \/ PercentsBefore(i + 2 + 1) = PercentsBefore(i + 2) + 1
          \/ PercentsBefore(i + 2 + 1) = 0
      BY <3>1, PercentsNext
    <3>3. PercentsBefore(i + 2 + 1) % 2 = 0
      BY <2>3, <3>2
    <3>4. PercentsBefore(i + 1)' = PercentsBefore(i + 2 + 1)
      BY <3>1 DEF PercentsBefore
    <3>5. QED
      BY <1>1, <2>5, <3>3, <3>4 DEF Paired
  <2>6. QED
    BY <1>1, <2>1, <2>4, <2>5
<1>5. QED
  BY <1>1, <1>3, <1>4

LEMMA NextWalkInv == WalkInv /\ [Next]_vars => WalkInv'
<1> SUFFICES ASSUME WalkInv, [Next]_vars
             PROVE  WalkInv'
  OBVIOUS
<1>1. text' = text /\ format' = format /\ i \in Nat
  BY DEF WalkInv, TextInMemory, Next, vars, Plain, Unknown, String, Number,
         PrintNumber, End, Emit
<1>2. Unfinished' <=> Unfinished
  BY <1>1 DEF Unfinished, PercentsBefore
<1>3. ASSUME i' = i
      PROVE  TextInMemory' /\ Paired' /\ Read(i)' = Read(i)
  <2>1. PercentsBefore(i + 1)' = PercentsBefore(i + 1)
    BY <1>1, <1>3 DEF PercentsBefore
  <2>2. QED
    BY <1>1, <1>2, <1>3, <2>1 DEF WalkInv, TextInMemory, Paired, Read
<1>4. ASSUME Plain \/ Unknown \/ String \/ PrintNumber
      PROVE  WalkInv'
  <2>1. \/ Read(i) \notin {NUL, PERCENT} /\ i' = i + 1
        \/ Read(i) = PERCENT /\ i' = AfterConversion
    BY <1>4 DEF WalkInv, Plain, Unknown, String, PrintNumber, Emit
  <2>2. i' \in Nat
    BY <1>1, <2>1 DEF AfterConversion
  <2>3. TextInMemory'
    BY <1>1, <2>2 DEF WalkInv, TextInMemory
  <2>4. Paired'
    BY <1>1, <2>1, PlainPaired, ConversionPaired
  <2>5. pc' = "walk"
    BY <1>4 DEF Plain, Unknown, String, PrintNumber, Walking
  <2>6. QED
    BY <2>3, <2>4, <2>5 DEF WalkInv
<1>5. CASE Number
  <2>1. i' = i /\ Read(i) = PERCENT /\ pc' = "number"
    BY <1>5 DEF Number
  <2>2. QED
    BY <1>3, <2>1 DEF WalkInv
<1>6. CASE End
  <2>1. i' = i /\ Read(i) = NUL /\ pc' = "done"
    BY <1>6 DEF End
  <2>2. ASSUME i <= Len(text)
        PROVE  ~Unfinished
    <3>1. text \in Seq(Chars) /\ Len(text) \in Nat /\ Chars \subseteq 1 .. 127
      BY FormatAssumption DEF WalkInv, TextInMemory
    <3>2. ASSUME i < Len(text)
          PROVE  FALSE
      <4>1. i + 1 \in 1 .. Len(text)
        BY <1>1, <3>1, <3>2
      <4>2. text[i + 1] \in Chars /\ format[i + 1] = text[i + 1]
        BY <3>1, <4>1 DEF WalkInv, TextInMemory
      <4>3. QED
        BY <2>1, <3>1, <4>2 DEF Read, NUL
    <3>3. i = Len(text)
      BY <1>1, <2>2, <3>1, <3>2
    <3>4. PercentsBefore(Len(text) + 1) % 2 = 0
      BY <3>1, <3>3 DEF WalkInv, Paired
    <3>5. QED
      BY <3>4 DEF Unfinished
  <2>3. Len(text) \in Nat
    BY DEF WalkInv, TextInMemory
  <2>4. Unfinished' => (i > Len(text))'
    BY <1>1, <1>2, <2>1, <2>2, <2>3
  <2>5. QED
    BY <1>3, <2>1, <2>4 DEF WalkInv
<1>7. CASE (ItoaStep /\ UNCHANGED <<text, format, i, characters, out, args, pc>>)
           \/ UNCHANGED vars
  <2>1. i' = i /\ pc' = pc
    BY <1>7 DEF vars
  <2>2. QED
    BY <1>1, <1>2, <1>3, <2>1 DEF WalkInv
<1>8. QED
  BY <1>4, <1>5, <1>6, <1>7 DEF Next

\* printf reads its format up to the zero, and past it exactly when the format
\* ends in a '%' that introduces nothing: for every format of every length,
\* with every content of the memory behind it.
THEOREM SpecStopsAtZero == Spec => []StopsAtZero
<1>1. WalkInv => StopsAtZero
  BY DEF WalkInv, Paired, StopsAtZero
<1>2. QED
  BY <1>1, InitWalkInv, NextWalkInv, PTL DEF Spec

-----------------------------------------------------------------------------
(* Flattening, piece by piece.                                             *)

Pieces == [n \in DOMAIN text |-> Piece(n)]

\* Those of conversions that take an argument: what printf counts.
Taken == [n \in DOMAIN text |-> IF TakesArg(n) THEN Piece(n) ELSE <<>>]

Prefix(P, k) == [n \in 1 .. k |-> P[n]]

\* f is what flattening the first k pieces of P goes through.
Flattens(P, k, f) ==
  f = [n \in 1 .. k |-> IF n = 1 THEN P[n] ELSE f[n - 1] \o P[n]]

LEMMA FlattensExists ==
  ASSUME NEW P, NEW k \in Nat
  PROVE  \E f : Flattens(P, k, f)
<1> DEFINE S == {n \in Nat : \E f : Flattens(P, n, f)}
<1>1. 0 \in S
  <2> DEFINE f == [n \in 1 .. 0 |-> P[n]]
  <2>1. f = [n \in 1 .. 0 |-> IF n = 1 THEN P[n] ELSE f[n - 1] \o P[n]]
    OBVIOUS
  <2> HIDE DEF f
  <2>2. QED
    BY <2>1 DEF Flattens
<1>2. \A n \in Nat : n \in S => n + 1 \in S
  <2> SUFFICES ASSUME NEW n \in Nat, NEW f, Flattens(P, n, f)
               PROVE  \E g : Flattens(P, n + 1, g)
    OBVIOUS
  <2> DEFINE last == IF n = 0 THEN P[1] ELSE f[n] \o P[n + 1]
             g    == [m \in 1 .. n + 1 |-> IF m = n + 1 THEN last ELSE f[m]]
  <2>1. \A m \in 1 .. n : f[m] = IF m = 1 THEN P[m] ELSE f[m - 1] \o P[m]
    BY DEF Flattens
  <2>2. \A m \in 1 .. n + 1 : g[m] = IF m = 1 THEN P[m] ELSE g[m - 1] \o P[m]
    <3> SUFFICES ASSUME NEW m \in 1 .. n + 1
                 PROVE  g[m] = IF m = 1 THEN P[m] ELSE g[m - 1] \o P[m]
      OBVIOUS
    <3>1. CASE m = n + 1
      <4>1. g[m] = last
        BY <3>1
      <4>2. n # 0 => n \in 1 .. n + 1 /\ n # n + 1 /\ m - 1 = n
        BY <3>1
      <4>3. n # 0 => g[m - 1] = f[n]
        BY <4>2
      <4> HIDE DEF g
      <4>4. QED
        BY <3>1, <4>1, <4>3
    <3>2. CASE m # n + 1
      <4>1. m \in 1 .. n
        BY <3>2
      <4>2. m # 1 => m - 1 \in 1 .. n
        BY <4>1
      <4>3. g[m] = f[m] /\ (m # 1 => g[m - 1] = f[m - 1])
        BY <4>1, <4>2
      <4> HIDE DEF g
      <4>4. QED
        BY <2>1, <4>1, <4>3
    <3>3. QED
      BY <3>1, <3>2
  <2>3. g = [m \in 1 .. n + 1 |-> g[m]]
    OBVIOUS
  <2> HIDE DEF g
  <2>4. g = [m \in 1 .. n + 1 |-> IF m = 1 THEN P[m] ELSE g[m - 1] \o P[m]]
    BY <2>2, <2>3
  <2>5. QED
    BY <2>4 DEF Flattens
<1>3. QED
  <2> HIDE DEF S
  <2>1. Nat \subseteq S
    BY <1>1, <1>2, SetInduction
  <2>2. k \in S
    BY <2>1
  <2>3. QED
    BY <2>2 DEF S

LEMMA FlattenLast ==
  ASSUME NEW P, NEW k \in Nat \ {0}
  PROVE  \E f : Flattens(P, k, f) /\ FlattenSeq(Prefix(P, k)) = f[k]
<1> DEFINE s == Prefix(P, k)
           J(f) == f = [n \in 1 .. Len(s) |-> IF n = 1 THEN s[n] ELSE f[n - 1] \o s[n]]
<1>1. Len(s) = k /\ \A n \in 1 .. k : s[n] = P[n]
  BY DEF Prefix
<1>2. FlattenSeq(s) = (CHOOSE f : J(f))[Len(s)]
  <2>1. Len(s) # 0
    BY <1>1
  <2> HIDE DEF s
  <2>2. QED
    BY <2>1 DEF FlattenSeq
<1> HIDE DEF s
<1>3. \A f : J(f) <=> Flattens(P, k, f)
  BY <1>1 DEF Flattens
<1>4. \E f : J(f)
  BY <1>3, FlattensExists
<1> HIDE DEF J
<1>5. J(CHOOSE f : J(f))
  BY <1>4
<1>6. QED
  BY <1>1, <1>2, <1>3, <1>5 DEF s

LEMMA FlattensSame ==
  ASSUME NEW P, NEW k \in Nat, NEW l \in Nat, NEW f, NEW g,
         Flattens(P, k, f), Flattens(P, l, g), k <= l
  PROVE  \A n \in 1 .. k : f[n] = g[n]
<1> DEFINE S == {n \in Nat : n \in 1 .. k => f[n] = g[n]}
<1>1. \A n \in 1 .. k : f[n] = IF n = 1 THEN P[n] ELSE f[n - 1] \o P[n]
  BY DEF Flattens
<1>2. \A n \in 1 .. k : g[n] = IF n = 1 THEN P[n] ELSE g[n - 1] \o P[n]
  <2>1. \A n \in 1 .. l : g[n] = IF n = 1 THEN P[n] ELSE g[n - 1] \o P[n]
    BY DEF Flattens
  <2>2. \A n \in 1 .. k : n \in 1 .. l
    OBVIOUS
  <2>3. QED
    BY <2>1, <2>2
<1>3. 0 \in S
  OBVIOUS
<1>4. \A n \in Nat : n \in S => n + 1 \in S
  <2> SUFFICES ASSUME NEW n \in Nat, n \in 1 .. k => f[n] = g[n], n + 1 \in 1 .. k
               PROVE  f[n + 1] = g[n + 1]
    OBVIOUS
  <2>1. CASE n = 0
    BY <1>1, <1>2, <2>1
  <2>2. CASE n # 0
    <3>1. n \in 1 .. k /\ (n + 1) - 1 = n /\ n + 1 # 1
      BY <2>2
    <3>2. f[n + 1] = f[(n + 1) - 1] \o P[n + 1] /\ g[n + 1] = g[(n + 1) - 1] \o P[n + 1]
      BY <1>1, <1>2, <3>1
    <3>3. QED
      BY <3>1, <3>2
  <2>3. QED
    BY <2>1, <2>2
<1>5. QED
  <2> HIDE DEF S
  <2>1. Nat \subseteq S
    BY <1>3, <1>4, SetInduction
  <2>2. QED
    BY <2>1 DEF S

LEMMA FlattenNone ==
  ASSUME NEW P
  PROVE  FlattenSeq(Prefix(P, 0)) = <<>>
<1>1. Prefix(P, 0) = <<>> /\ Len(Prefix(P, 0)) = 0
  BY DEF Prefix
<1>2. QED
  BY <1>1 DEF FlattenSeq

\* One piece more.
LEMMA FlattenNext ==
  ASSUME NEW P, NEW k \in Nat, FlattenSeq(Prefix(P, k)) \in Seq(Int),
         P[k + 1] \in Seq(Int)
  PROVE  /\ FlattenSeq(Prefix(P, k + 1)) = FlattenSeq(Prefix(P, k)) \o P[k + 1]
         /\ FlattenSeq(Prefix(P, k + 1)) \in Seq(Int)
<1>1. PICK g : Flattens(P, k + 1, g) /\ FlattenSeq(Prefix(P, k + 1)) = g[k + 1]
  BY FlattenLast
<1>2. g[k + 1] = IF k + 1 = 1 THEN P[k + 1] ELSE g[(k + 1) - 1] \o P[k + 1]
  <2>1. \A n \in 1 .. k + 1 : g[n] = IF n = 1 THEN P[n] ELSE g[n - 1] \o P[n]
    BY <1>1 DEF Flattens
  <2>2. k + 1 \in 1 .. k + 1
    OBVIOUS
  <2>3. QED
    BY <2>1, <2>2
<1>3. CASE k = 0
  <2>1. FlattenSeq(Prefix(P, k)) = <<>>
    BY <1>3, FlattenNone
  <2>2. <<>> \o P[k + 1] = P[k + 1]
    OBVIOUS
  <2>3. g[k + 1] = P[k + 1]
    BY <1>2, <1>3
  <2>4. FlattenSeq(Prefix(P, k + 1)) = P[k + 1]
    BY <1>1, <2>3
  <2>5. QED
    BY <2>1, <2>2, <2>4
<1>4. CASE k # 0
  <2>1. PICK f : Flattens(P, k, f) /\ FlattenSeq(Prefix(P, k)) = f[k]
    BY <1>4, FlattenLast
  <2>2. f[k] = g[k]
    BY <1>1, <1>4, <2>1, FlattensSame
  <2>3. g[k + 1] = g[k] \o P[k + 1]
    <3>1. k + 1 # 1 /\ (k + 1) - 1 = k
      BY <1>4
    <3>2. QED
      BY <1>2, <3>1
  <2>4. FlattenSeq(Prefix(P, k + 1)) = FlattenSeq(Prefix(P, k)) \o P[k + 1]
    BY <1>1, <2>1, <2>2, <2>3
  <2>5. \A s, t \in Seq(Int) : s \o t \in Seq(Int)
    OBVIOUS
  <2>6. QED
    BY <2>4, <2>5
<1>5. QED
  BY <1>3, <1>4

LEMMA PrefixSame ==
  ASSUME NEW P, NEW Q, NEW k \in Nat, \A n \in 1 .. k : P[n] = Q[n]
  PROVE  Prefix(P, k) = Prefix(Q, k)
BY DEF Prefix


-----------------------------------------------------------------------------
(* Numerals.                                                               *)

\* Induction over all smaller numbers.
LEMMA StrongInduction ==
  ASSUME NEW S, \A n \in Nat : (\A m \in 0 .. n - 1 : m \in S) => n \in S
  PROVE  Nat \subseteq S
<1> DEFINE T == {n \in Nat : \A m \in 0 .. n - 1 : m \in S}
<1>1. 0 \in T
  OBVIOUS
<1>2. \A n \in Nat : n \in T => n + 1 \in T
  <2> SUFFICES ASSUME NEW n \in Nat, n \in T, NEW m \in 0 .. n + 1 - 1
               PROVE  m \in S
    OBVIOUS
  <2>1. n \in S
    OBVIOUS
  <2>2. m = n \/ m \in 0 .. n - 1
    OBVIOUS
  <2>3. QED
    BY <2>1, <2>2
<1>3. Nat \subseteq T
  <2> HIDE DEF T
  <2>1. QED
    BY <1>1, <1>2, SetInduction
<1>4. QED
  BY <1>3

LEMMA Shorter ==
  ASSUME NEW n \in Nat, NEW b \in {Decimal, Hex}
  PROVE  /\ n \div b \in Nat /\ (n % b) \in 0 .. b - 1
         /\ n \div b = 0 <=> n < b
         /\ n < b => n % b = n
         /\ n >= b => n \div b < n
<1>1. CASE b = 10
  BY <1>1
<1>2. CASE b = 16
  BY <1>2
<1>3. QED
  BY <1>1, <1>2 DEF Decimal, Hex

\* One digit more: f holds the numerals up to k.
Numerals(f, k, b, a) ==
  f = [m \in 0 .. k |-> IF m < b THEN <<DigitOf(m, a)>>
                        ELSE Append(f[m \div b], DigitOf(m % b, a))]

LEMMA NumeralsExist ==
  ASSUME NEW k \in Nat, NEW b \in {Decimal, Hex}, NEW a
  PROVE  \E f : Numerals(f, k, b, a)
<1> DEFINE S == {n \in Nat : \E f : Numerals(f, n, b, a)}
<1>b. b \in Nat /\ b > 1
  BY DEF Decimal, Hex
<1>1. 0 \in S
  <2> DEFINE f == [m \in 0 .. 0 |-> <<DigitOf(m, a)>>]
  <2>1. \A m \in 0 .. 0 : m < b
    BY <1>b
  <2>2. f = [m \in 0 .. 0 |-> IF m < b THEN <<DigitOf(m, a)>>
                              ELSE Append(f[m \div b], DigitOf(m % b, a))]
    BY <2>1
  <2> HIDE DEF f
  <2>3. QED
    BY <2>2 DEF Numerals
<1>2. \A n \in Nat : n \in S => n + 1 \in S
  <2> SUFFICES ASSUME NEW n \in Nat, NEW f, Numerals(f, n, b, a)
               PROVE  \E g : Numerals(g, n + 1, b, a)
    OBVIOUS
  <2> DEFINE z    == n + 1
             last == IF z < b THEN <<DigitOf(z, a)>>
                     ELSE Append(f[z \div b], DigitOf(z % b, a))
             g    == [m \in 0 .. z |-> IF m = z THEN last ELSE f[m]]
             Next1(h, m) == IF m < b THEN <<DigitOf(m, a)>>
                            ELSE Append(h[m \div b], DigitOf(m % b, a))
  <2>1. \A m \in 0 .. n : f[m] = Next1(f, m)
    BY DEF Numerals
  <2>2. \A m \in 0 .. n : g[m] = f[m]
    OBVIOUS
  <2>3. \A m \in 0 .. z : m >= b => m \div b \in 0 .. n
    <3> TAKE m \in 0 .. z
    <3>1. m \in Nat
      OBVIOUS
    <3>2. QED
      BY <3>1, Shorter
  <2>4. g[z] = last
    OBVIOUS
  <2>5. \A m \in 0 .. z : g[m] = Next1(g, m)
    <3> SUFFICES ASSUME NEW m \in 0 .. z
                 PROVE  g[m] = Next1(g, m)
      OBVIOUS
    <3>1. m >= b => g[m \div b] = f[m \div b]
      BY <2>2, <2>3
    <3>2. m < b \/ m >= b
      BY <1>b
    <3>3. g[m] = Next1(f, m)
      <4>1. CASE m = z
        BY <2>4, <4>1
      <4>2. CASE m # z
        <5>1. m \in 0 .. n
          BY <4>2
        <5> HIDE DEF g
        <5>2. QED
          BY <2>1, <2>2, <5>1
      <4>3. QED
        BY <4>1, <4>2
    <3> HIDE DEF g
    <3>4. QED
      BY <1>b, <3>1, <3>2, <3>3
  <2>6. g = [m \in 0 .. z |-> g[m]]
    OBVIOUS
  <2> HIDE DEF g, z
  <2>7. g = [m \in 0 .. z |-> Next1(g, m)]
    BY <2>5, <2>6
  <2>8. Numerals(g, z, b, a)
    BY <2>7 DEF Numerals
  <2>9. QED
    BY <2>8 DEF z
<1>3. QED
  <2> HIDE DEF S
  <2>1. Nat \subseteq S
    BY <1>1, <1>2, SetInduction
  <2>2. k \in S
    BY <2>1
  <2>3. QED
    BY <2>2 DEF S

LEMMA NumeralNext ==
  ASSUME NEW n \in 0 .. UINT, NEW b \in {Decimal, Hex}, NEW a
  PROVE  Numeral(n, b, a) =
           IF n < b THEN <<DigitOf(n, a)>>
           ELSE Append(Numeral(n \div b, b, a), DigitOf(n % b, a))
<1> DEFINE N == CHOOSE f : Numerals(f, UINT, b, a)
<1>1. UINT \in Nat
  BY UintAssumption
<1>2. \A m : Numeral(m, b, a) = N[m]
  BY DEF Numeral, Numerals
<1>3. Numerals(N, UINT, b, a)
  BY <1>1, NumeralsExist
<1> HIDE DEF N
<1>4. N[n] = IF n < b THEN <<DigitOf(n, a)>>
             ELSE Append(N[n \div b], DigitOf(n % b, a))
  BY <1>3 DEF Numerals
<1>5. QED
  BY <1>2, <1>4

\* Digits are characters, and none is a zero, a '-' or a capital letter.
Characters == (48 .. 57) \cup (65 .. 70) \cup (97 .. 102)

LEMMA DigitCharacter ==
  ASSUME NEW b \in {Decimal, Hex}, NEW d \in 0 .. b - 1, NEW a \in {65, 97}
  PROVE  DigitOf(d, a) \in Characters
BY DEF DigitOf, Characters, Decimal, Hex

LEMMA NumeralType ==
  ASSUME NEW n \in 0 .. UINT, NEW b \in {Decimal, Hex}, NEW a \in {65, 97}
  PROVE  Numeral(n, b, a) \in Seq(Characters)
<1> DEFINE S == {m \in Nat : m <= UINT => Numeral(m, b, a) \in Seq(Characters)}
<1>1. UINT \in Nat /\ b \in Nat
  BY UintAssumption DEF Decimal, Hex
<1>2. \A m \in Nat : (\A l \in 0 .. m - 1 : l \in S) => m \in S
  <2> SUFFICES ASSUME NEW m \in Nat, \A l \in 0 .. m - 1 : l \in S, m <= UINT
               PROVE  Numeral(m, b, a) \in Seq(Characters)
    OBVIOUS
  <2>1. m \in 0 .. UINT
    BY <1>1
  <2>2. CASE m < b
    <3>1. DigitOf(m, a) \in Characters
      BY <1>1, <2>2, DigitCharacter
    <3>2. Numeral(m, b, a) = <<DigitOf(m, a)>>
      BY <2>1, <2>2, NumeralNext
    <3>3. QED
      BY <3>1, <3>2
  <2>3. CASE ~(m < b)
    <3>1. m \div b \in 0 .. m - 1 /\ (m % b) \in 0 .. b - 1
      <4>1. m >= b
        BY <1>1, <2>3
      <4>2. m \div b \in Nat /\ m \div b < m /\ (m % b) \in 0 .. b - 1
        BY <1>1, <4>1, Shorter
      <4> DEFINE q == m \div b
      <4> HIDE DEF q
      <4>3. q \in 0 .. m - 1
        BY <4>2 DEF q
      <4>4. QED
        BY <4>2, <4>3 DEF q
    <3>2. DigitOf(m % b, a) \in Characters
      BY <3>1, DigitCharacter
    <3>3. Numeral(m \div b, b, a) \in Seq(Characters)
      BY <1>1, <2>1, <3>1
    <3>4. Numeral(m, b, a) = Append(Numeral(m \div b, b, a), DigitOf(m % b, a))
      BY <2>1, <2>3, NumeralNext
    <3>5. QED
      BY <3>2, <3>3, <3>4
  <2>4. QED
    BY <2>2, <2>3
<1>3. Nat \subseteq S
  <2> HIDE DEF S
  <2>1. QED
    BY <1>2, StrongInduction
<1>4. QED
  BY <1>1, <1>3

LEMMA NumeralUpper ==
  ASSUME NEW n \in 0 .. UINT
  PROVE  Uppercase(Numeral(n, Hex, 97)) = Numeral(n, Hex, 65)
<1> DEFINE S == {m \in Nat : m <= UINT =>
                   Uppercase(Numeral(m, Hex, 97)) = Numeral(m, Hex, 65)}
<1>1. UINT \in Nat /\ Hex \in Nat /\ Hex \in {Decimal, Hex}
  BY UintAssumption DEF Hex
<1>2. \A d \in 0 .. Hex - 1 : toupper(DigitOf(d, 97)) = DigitOf(d, 65)
  BY DEF toupper, DigitOf, Hex
<1>3. \A m \in Nat : (\A l \in 0 .. m - 1 : l \in S) => m \in S
  <2> SUFFICES ASSUME NEW m \in Nat, \A l \in 0 .. m - 1 : l \in S, m <= UINT
               PROVE  Uppercase(Numeral(m, Hex, 97)) = Numeral(m, Hex, 65)
    OBVIOUS
  <2>1. m \in 0 .. UINT
    BY <1>1
  <2>2. CASE m < Hex
    <3> DEFINE s == Numeral(m, Hex, 97)
    <3>1. s = <<DigitOf(m, 97)>> /\ Numeral(m, Hex, 65) = <<DigitOf(m, 65)>>
      BY <1>1, <2>1, <2>2, NumeralNext
    <3>2. toupper(DigitOf(m, 97)) = DigitOf(m, 65)
      BY <1>1, <1>2, <2>2
    <3> HIDE DEF s
    <3>3. Uppercase(s) = <<toupper(DigitOf(m, 97))>>
      BY <3>1 DEF Uppercase
    <3>4. QED
      BY <3>1, <3>2, <3>3 DEF s
  <2>3. CASE ~(m < Hex)
    <3> DEFINE s == Numeral(m \div Hex, Hex, 97)
               d == DigitOf(m % Hex, 97)
    <3>1. m \div Hex \in 0 .. m - 1 /\ (m % Hex) \in 0 .. Hex - 1
      <4>1. m >= Hex
        BY <1>1, <2>3
      <4>2. m \div Hex \in Nat /\ m \div Hex < m /\ (m % Hex) \in 0 .. Hex - 1
        BY <1>1, <4>1, Shorter
      <4> DEFINE q == m \div Hex
      <4> HIDE DEF q
      <4>3. q \in 0 .. m - 1
        BY <4>2 DEF q
      <4>4. QED
        BY <4>2, <4>3 DEF q
    <3>2. /\ Numeral(m, Hex, 97) = Append(s, d)
          /\ Numeral(m, Hex, 65) =
               Append(Numeral(m \div Hex, Hex, 65), DigitOf(m % Hex, 65))
      BY <1>1, <2>1, <2>3, NumeralNext
    <3>3. Uppercase(s) = Numeral(m \div Hex, Hex, 65)
      BY <1>1, <2>1, <3>1
    <3>4. s \in Seq(Characters) /\ toupper(d) = DigitOf(m % Hex, 65)
      <4>1. m \div Hex \in 0 .. UINT
        BY <1>1, <3>1
      <4>2. QED
        BY <1>1, <1>2, <3>1, <4>1, NumeralType
    <3> HIDE DEF s, d
    <3>5. Uppercase(Append(s, d)) = Append(Uppercase(s), toupper(d))
      BY <3>4 DEF Uppercase
    <3>6. QED
      BY <3>2, <3>3, <3>4, <3>5
  <2>4. QED
    BY <2>2, <2>3
<1>4. Nat \subseteq S
  <2> HIDE DEF S
  <2>1. QED
    BY <1>3, StrongInduction
<1>5. QED
  BY <1>1, <1>4


-----------------------------------------------------------------------------
(* A conversion, digit by digit.                                           *)

Negative  == Signed(fn, value, base)
Magnitude == IF Negative THEN UINT - value ELSE value
Skip      == IF Negative THEN 1 ELSE 0
Sign      == IF Negative THEN <<MINUS>> ELSE <<>>
Target    == Numeral(Magnitude, base, 97)

\* The digits of a string of l characters, the last one first.
Backwards(s, skip, l) == [k \in 1 .. l - skip |-> s[l + 1 - k]]

\* While digits are written the numeral is that of what is left and then the
\* digits backwards; while they are exchanged those outside p1 .. p2 are in
\* their places, and those inside are where their opposites belong.
Writing ==
  /\ at \in {"digits", "end"} => Len(str) = p /\ p1 = Skip
  /\ at = "digits" => /\ ud \in 0 .. UINT
                      /\ Target = Numeral(ud, base, 97) \o Backwards(str, Skip, p)
  /\ at = "end" => p > Skip /\ Target = Backwards(str, Skip, p)

Exchanging ==
  at \in {"swap", "done"} =>
    /\ Len(str) = p + 1 /\ str[p + 1] = NUL
    /\ p > Skip /\ p1 >= Skip /\ p2 \in Int /\ p1 + p2 = Skip + p - 1
    /\ Len(Target) = p - Skip
    /\ \A q \in Skip .. p - 1 :
         str[q + 1] = IF q < p1 \/ q > p2 THEN Target[q + 1 - Skip] ELSE Target[p - q]
    /\ at = "done" => p1 >= p2

ItoaInv ==
  at # "idle" =>
    /\ at \in {"digits", "end", "swap", "done"}
    /\ value \in 0 .. UINT - 1 /\ base \in {Decimal, Hex}
    /\ str \in Seq(Int) /\ p \in Nat /\ p >= Skip /\ p1 \in Nat
    /\ Negative => Len(str) >= 1 /\ str[1] = MINUS
    /\ Writing
    /\ Exchanging

LEMMA SkipType == Skip \in {0, 1} /\ Skip \in Nat
BY DEF Skip

LEMMA MagnitudeType ==
  ASSUME value \in 0 .. UINT - 1
  PROVE  Magnitude \in 0 .. UINT
BY UintAssumption DEF Magnitude

LEMMA Preceded ==
  ASSUME NEW B \in Seq(Int), NEW d \in Int
  PROVE  /\ <<d>> \o B \in Seq(Int) /\ Len(<<d>> \o B) = Len(B) + 1
         /\ \A k \in 1 .. Len(B) + 1 : (<<d>> \o B)[k] = IF k = 1 THEN d ELSE B[k - 1]
OBVIOUS

LEMMA AppendBefore ==
  ASSUME NEW s \in Seq(Int), NEW B \in Seq(Int), NEW d \in Int
  PROVE  Append(s, d) \o B = s \o (<<d>> \o B)
<1>1. Append(s, d) = s \o <<d>> /\ <<d>> \in Seq(Int)
  OBVIOUS
<1>2. QED
  BY <1>1

LEMMA SameSeq ==
  ASSUME NEW s \in Seq(Int), NEW t \in Seq(Int), Len(s) = Len(t),
         \A k \in 1 .. Len(s) : s[k] = t[k]
  PROVE  s = t
OBVIOUS

\* The characters of a string up to the l-th, the last one first.
LEMMA BackwardsSeq ==
  ASSUME NEW s \in Seq(Int), NEW skip \in Nat, NEW l \in Nat, skip <= l, l <= Len(s)
  PROVE  /\ Backwards(s, skip, l) \in Seq(Int) /\ Len(Backwards(s, skip, l)) = l - skip
         /\ \A k \in 1 .. l - skip : Backwards(s, skip, l)[k] = s[l + 1 - k]
<1> DEFINE n == l - skip
<1>1. n \in Nat
  OBVIOUS
<1>2. \A k \in 1 .. n : s[l + 1 - k] \in Int
  <2>1. \A k \in 1 .. n : l + 1 - k \in 1 .. Len(s)
    OBVIOUS
  <2>2. QED
    BY <2>1
<1>3. Backwards(s, skip, l) = [k \in 1 .. n |-> s[l + 1 - k]]
  BY DEF Backwards
<1> HIDE DEF n
<1>4. QED
  BY <1>1, <1>2, <1>3 DEF n

\* One more character in front of the others, seen backwards.
LEMMA BackwardsNext ==
  ASSUME NEW s \in Seq(Int), NEW d \in Int, NEW skip \in Nat, NEW l \in Nat,
         l = Len(s), skip <= l
  PROVE  /\ Backwards(s, skip, l) \in Seq(Int)
         /\ Len(Backwards(s, skip, l)) = l - skip
         /\ Backwards(Append(s, d), skip, l + 1) = <<d>> \o Backwards(s, skip, l)
<1> DEFINE t == Append(s, d)
           B == Backwards(s, skip, l)
           C == Backwards(t, skip, l + 1)
           D == <<d>> \o B
<1>1. /\ \A k \in 1 .. l : t[k] = s[k]
      /\ t[l + 1] = d /\ t \in Seq(Int) /\ Len(t) = l + 1
  OBVIOUS
<1> HIDE DEF t
<1>2. B \in Seq(Int) /\ Len(B) = l - skip /\ \A k \in 1 .. l - skip : B[k] = s[l + 1 - k]
  <2>1. l <= Len(s)
    OBVIOUS
  <2>2. QED
    BY <2>1, BackwardsSeq
<1>3. C \in Seq(Int) /\ Len(C) = (l + 1) - skip
      /\ \A k \in 1 .. (l + 1) - skip : C[k] = t[(l + 1) + 1 - k]
  <2>1. skip <= l + 1 /\ l + 1 \in Nat /\ l + 1 <= Len(t) /\ t \in Seq(Int)
    BY <1>1
  <2>2. \A m \in Nat : skip <= m /\ m <= Len(t) =>
          /\ Backwards(t, skip, m) \in Seq(Int) /\ Len(Backwards(t, skip, m)) = m - skip
          /\ \A k \in 1 .. m - skip : Backwards(t, skip, m)[k] = t[m + 1 - k]
    BY <1>1, BackwardsSeq
  <2>3. QED
    BY <2>1, <2>2
<1> HIDE DEF B, C
<1>4. D \in Seq(Int) /\ Len(D) = Len(B) + 1
      /\ \A k \in 1 .. Len(B) + 1 : D[k] = IF k = 1 THEN d ELSE B[k - 1]
  BY <1>2, Preceded
<1> HIDE DEF D
<1>5. \A k \in 1 .. Len(C) : C[k] = D[k]
  <2> TAKE k \in 1 .. Len(C)
  <2>1. k \in 1 .. (l + 1) - skip /\ k \in 1 .. Len(B) + 1 /\ k \in Int
    <3>1. Len(C) = (l + 1) - skip /\ Len(B) + 1 = (l + 1) - skip
      BY <1>2, <1>3
    <3>2. QED
      BY <3>1
  <2>2. CASE k = 1
    <3>1. (l + 1) + 1 - k = l + 1
      BY <2>2
    <3>2. C[k] = t[l + 1]
      BY <1>3, <2>1, <3>1
    <3>3. D[k] = d
      BY <1>4, <2>1, <2>2
    <3>4. QED
      BY <1>1, <3>2, <3>3
  <2>3. CASE k # 1
    <3>1. k - 1 \in 1 .. l - skip /\ l + 1 - (k - 1) = (l + 1) + 1 - k
          /\ (l + 1) + 1 - k \in 1 .. l
      BY <1>2, <2>1, <2>3
    <3>2. C[k] = t[(l + 1) + 1 - k] /\ D[k] = B[k - 1]
      BY <1>3, <1>4, <2>1, <2>3
    <3>3. B[k - 1] = s[l + 1 - (k - 1)] /\ t[(l + 1) + 1 - k] = s[(l + 1) + 1 - k]
      BY <1>1, <1>2, <3>1
    <3>4. QED
      BY <3>1, <3>2, <3>3
  <2>4. QED
    BY <2>2, <2>3
<1>6. C = D
  <2>1. Len(C) = Len(D)
    BY <1>2, <1>3, <1>4
  <2>2. QED
    BY <1>3, <1>4, <1>5, <2>1, SameSeq
<1>7. QED
  BY <1>2, <1>6 DEF B, C, D, t


LEMMA BackwardsNone ==
  ASSUME NEW s, NEW l \in Nat
  PROVE  Backwards(s, l, l) = <<>>
<1>1. l - l = 0
  OBVIOUS
<1>2. QED
  BY <1>1 DEF Backwards

LEMMA NumeralSeq ==
  ASSUME NEW n \in 0 .. UINT, NEW b \in {Decimal, Hex}
  PROVE  /\ Numeral(n, b, 97) \in Seq(Int)
         /\ \A k \in 1 .. Len(Numeral(n, b, 97)) :
              Numeral(n, b, 97)[k] # NUL /\ Numeral(n, b, 97)[k] \in Int
<1> DEFINE s == Numeral(n, b, 97)
<1>1. s \in Seq(Characters)
  BY NumeralType
<1>2. Characters \subseteq Int /\ NUL \notin Characters
  BY DEF Characters, NUL
<1> HIDE DEF s
<1>3. s \in Seq(Int) /\ \A k \in 1 .. Len(s) : s[k] \in Characters
  <2>1. \A S, T, q : S \subseteq T /\ q \in Seq(S) => q \in Seq(T)
    OBVIOUS
  <2>2. \A S, q : q \in Seq(S) => \A k \in 1 .. Len(q) : q[k] \in S
    OBVIOUS
  <2> DEFINE C == Characters
  <2> HIDE DEF C
  <2>3. s \in Seq(C) /\ C \subseteq Int
    BY <1>1, <1>2 DEF C
  <2>4. s \in Seq(Int) /\ \A k \in 1 .. Len(s) : s[k] \in C
    BY <2>1, <2>2, <2>3
  <2>5. QED
    BY <2>4 DEF C
<1>4. QED
  BY <1>2, <1>3 DEF s

\* The first digit is still to be written.
LEMMA ConvertInv ==
  ASSUME NEW f, NEW v \in 0 .. UINT - 1, NEW b \in {Decimal, Hex}, Convert(f, v, b)
  PROVE  ItoaInv'
<1>1. fn' = f /\ value' = v /\ base' = b /\ at' = "digits"
  BY DEF Convert
<1>2. Negative' <=> Signed(f, v, b)
  BY <1>1 DEF Negative
<1>3. UINT \in Nat /\ v \in Nat
  BY UintAssumption
<1>4. Signed(f, v, b) => UINT - v \in 0 .. UINT /\ (UINT - v) % UINT = UINT - v
  <2>1. Signed(f, v, b) => v >= 1
    BY <1>3, UintAssumption DEF Signed
  <2>2. v >= 1 => UINT - v \in 0 .. UINT - 1
    BY <1>3
  <2>3. \A k \in 0 .. UINT - 1 : k % UINT = k
    BY <1>3
  <2>4. QED
    BY <1>3, <2>1, <2>2, <2>3
<1>5. /\ ud' = Magnitude' /\ ud' \in 0 .. UINT
      /\ p' = Skip' /\ p1' = Skip'
      /\ str' = IF Negative' THEN <<MINUS>> ELSE <<>>
  <2>1. CASE Signed(f, v, b)
    <3>1. str' = <<MINUS>> /\ p' = 1 /\ ud' = (UINT - v) % UINT /\ p1' = p'
      BY <2>1 DEF Convert
    <3>2. QED
      BY <1>1, <1>2, <1>4, <2>1, <3>1 DEF Magnitude, Skip
  <2>2. CASE ~Signed(f, v, b)
    <3>1. str' = <<>> /\ p' = 0 /\ ud' = v /\ p1' = p'
      BY <2>2 DEF Convert
    <3>2. v \in 0 .. UINT
      BY <1>3
    <3>3. QED
      BY <1>1, <1>2, <2>2, <3>1, <3>2 DEF Magnitude, Skip
  <2>3. QED
    BY <2>1, <2>2
<1>6. /\ str' \in Seq(Int) /\ p' \in Nat /\ p' = Skip' /\ Len(str') = p'
      /\ Negative' => Len(str') >= 1 /\ str'[1] = MINUS
  <2>1. CASE Negative'
    BY <1>5, <2>1 DEF Skip, MINUS
  <2>2. CASE ~Negative'
    BY <1>5, <2>2 DEF Skip
  <2>3. QED
    BY <2>1, <2>2
<1>7. Target' = Numeral(ud, base, 97)' \o Backwards(str, Skip, p)'
  <2>1. Backwards(str, Skip, p)' = Backwards(str', p', p')
    BY <1>6
  <2>2. Backwards(str, Skip, p)' = <<>>
    BY <1>6, <2>1, BackwardsNone
  <2>3. Numeral(ud', base', 97) \in Seq(Int)
    BY <1>1, <1>5, NumeralSeq
  <2>4. Target' = Numeral(ud', base', 97)
    BY <1>5 DEF Target
  <2>5. \A s \in Seq(Int) : s \o <<>> = s
    OBVIOUS
  <2>6. QED
    BY <2>2, <2>3, <2>4, <2>5
<1>8. QED
  BY <1>1, <1>5, <1>6, <1>7 DEF ItoaInv, Writing, Exchanging

LEMMA SameCall ==
  ASSUME UNCHANGED <<fn, value, base>>
  PROVE  Negative' = Negative /\ Skip' = Skip /\ Target' = Target
BY DEF Negative, Skip, Target, Magnitude

\* What ItoaInv says of a call under way.
LEMMA Call ==
  ASSUME ItoaInv, at # "idle"
  PROVE  /\ value \in 0 .. UINT - 1 /\ base \in {Decimal, Hex}
         /\ str \in Seq(Int) /\ p \in Nat /\ p1 \in Nat /\ Skip \in Nat /\ p >= Skip
         /\ Negative => Len(str) >= 1 /\ str[1] = MINUS
BY SkipType DEF ItoaInv

LEMMA DigitInv ==
  ASSUME ItoaInv, Digit
  PROVE  ItoaInv'
<1> DEFINE d == DigitOf(ud % base, 97)
           B == Backwards(str, Skip, p)
           N == Numeral(ud, base, 97)
           M == Numeral(ud \div base, base, 97)
<1>1. /\ at = "digits" /\ UNCHANGED <<fn, value, base, p1, p2>>
      /\ p' = p + 1 /\ ud' = ud \div base
      /\ at' = IF LastDigit THEN "end" ELSE "digits"
  BY DEF Digit
<1>2. str' = Append(str, d)
  BY DEF Digit, DigitOf
<1>3. /\ value \in 0 .. UINT - 1 /\ base \in {Decimal, Hex}
      /\ str \in Seq(Int) /\ p \in Nat /\ p1 \in Nat /\ Skip \in Nat /\ p >= Skip
      /\ Negative => Len(str) >= 1 /\ str[1] = MINUS
  BY <1>1, Call
<1>4. Len(str) = p /\ p1 = Skip /\ ud \in 0 .. UINT /\ Target = N \o B
  BY <1>1 DEF ItoaInv, Writing
<1>5. Negative' = Negative /\ Skip' = Skip /\ Target' = Target
  BY <1>1, SameCall
<1>6. /\ ud \in Nat /\ ud \div base \in Nat /\ (ud % base) \in 0 .. base - 1
      /\ LastDigit <=> ud < base
      /\ ud < base => ud % base = ud
      /\ ~(ud < base) => ud \div base \in 0 .. UINT
  <2>1. ud \in Nat /\ UINT \in Nat /\ base \in Nat
    BY <1>3, <1>4, UintAssumption DEF Decimal, Hex
  <2>2. /\ ud \div base \in Nat /\ (ud % base) \in 0 .. base - 1
        /\ ud \div base = 0 <=> ud < base
        /\ ud < base => ud % base = ud
        /\ ud >= base => ud \div base < ud
    BY <1>3, <2>1, Shorter
  <2> DEFINE q == ud \div base
  <2> HIDE DEF q
  <2>3. ~(ud < base) => q \in 0 .. UINT
    BY <1>4, <2>1, <2>2 DEF q
  <2>4. QED
    BY <2>1, <2>2, <2>3 DEF q, LastDigit
<1>7. d \in Int
  <2> DEFINE r == ud % base
  <2>3. r \in 0 .. base - 1
    BY <1>6
  <2> HIDE DEF r
  <2>4. DigitOf(r, 97) \in Characters
    BY <1>3, <2>3, DigitCharacter
  <2>1. d \in Characters
    BY <2>4 DEF r
  <2>2. QED
    BY <2>1 DEF Characters
<1>8. B \in Seq(Int) /\ Backwards(str', Skip, p + 1) = <<d>> \o B
  <2>1. str \in Seq(Int) /\ Skip \in Nat /\ p \in Nat /\ p = Len(str) /\ Skip <= p
    BY <1>3, <1>4
  <2> HIDE DEF d
  <2>2. /\ Backwards(str, Skip, p) \in Seq(Int)
        /\ Backwards(Append(str, d), Skip, p + 1) = <<d>> \o Backwards(str, Skip, p)
    BY <1>7, <2>1, BackwardsNext
  <2>3. QED
    BY <1>2, <2>2
<1>9. /\ str' \in Seq(Int) /\ Len(str') = p + 1 /\ p + 1 \in Nat /\ p + 1 > Skip
      /\ Negative => Len(str') >= 1 /\ str'[1] = MINUS
  <2> HIDE DEF d
  <2>1. QED
    BY <1>2, <1>3, <1>4, <1>7
<1>10. N = IF ud < base THEN <<DigitOf(ud, 97)>> ELSE Append(M, d)
  BY <1>3, <1>4, NumeralNext
<1> HIDE DEF d, B, N, M
<1>11. CASE ud < base
  <2>1. Target = <<d>> \o B
    BY <1>4, <1>6, <1>10, <1>11 DEF d
  <2>2. at' = "end" /\ p' > Skip' /\ Target' = Backwards(str', Skip', p')
    BY <1>1, <1>5, <1>6, <1>8, <1>9, <1>11, <2>1
  <2>3. QED
    BY <1>1, <1>3, <1>4, <1>5, <1>9, <2>2 DEF ItoaInv, Writing, Exchanging
<1>12. CASE ~(ud < base)
  <2>1. M \in Seq(Int)
    BY <1>3, <1>6, <1>12, NumeralSeq DEF M
  <2>2. Target = M \o (<<d>> \o B)
    BY <1>4, <1>7, <1>8, <1>10, <1>12, <2>1, AppendBefore
  <2>3. at' = "digits" /\ ud' \in 0 .. UINT
        /\ Target' = Numeral(ud, base, 97)' \o Backwards(str, Skip, p)'
    <3>1. Numeral(ud, base, 97)' = M /\ Backwards(str, Skip, p)' = <<d>> \o B
      BY <1>1, <1>5, <1>8 DEF M
    <3>2. QED
      BY <1>1, <1>5, <1>6, <1>12, <2>2, <3>1
  <2>4. QED
    BY <1>1, <1>3, <1>4, <1>5, <1>9, <2>3 DEF ItoaInv, Writing, Exchanging
<1>13. QED
  BY <1>11, <1>12


LEMMA TerminateInv ==
  ASSUME ItoaInv, Terminate
  PROVE  ItoaInv'
<1> DEFINE t == str'
           T == Target
<1>1. /\ at = "end" /\ at' = "swap" /\ UNCHANGED <<fn, value, base, p, ud, p1>>
      /\ t = Append(str, NUL) /\ p2' = p - 1
  BY DEF Terminate, LastToSwap
<1>2. /\ value \in 0 .. UINT - 1 /\ base \in {Decimal, Hex}
      /\ str \in Seq(Int) /\ p \in Nat /\ p1 \in Nat /\ Skip \in Nat /\ p >= Skip
      /\ Negative => Len(str) >= 1 /\ str[1] = MINUS
  BY <1>1, Call
<1>3. Len(str) = p /\ p1 = Skip /\ p > Skip /\ T = Backwards(str, Skip, p)
  BY <1>1 DEF ItoaInv, Writing
<1>4. Negative' = Negative /\ Skip' = Skip /\ Target' = T
  BY <1>1, SameCall
<1> HIDE DEF t, T
<1>5. Len(T) = p - Skip /\ \A k \in 1 .. p - Skip : T[k] = str[p + 1 - k]
  <2>1. Skip <= p /\ p <= Len(str)
    BY <1>2, <1>3
  <2>2. /\ Len(Backwards(str, Skip, p)) = p - Skip
        /\ \A k \in 1 .. p - Skip : Backwards(str, Skip, p)[k] = str[p + 1 - k]
    BY <1>2, <2>1, BackwardsSeq, Zenon
  <2>3. QED
    BY <1>3, <2>2
<1>6. /\ t \in Seq(Int) /\ Len(t) = p + 1 /\ t[p + 1] = NUL
      /\ \A k \in 1 .. p : t[k] = str[k]
  <2> DEFINE s == str
             z == NUL
  <2>1. s \in Seq(Int) /\ Len(s) = p /\ z \in Int /\ t = Append(s, z)
    BY <1>1, <1>2, <1>3 DEF NUL
  <2> HIDE DEF s, z
  <2>2. /\ t \in Seq(Int) /\ Len(t) = p + 1 /\ t[p + 1] = z
        /\ \A k \in 1 .. p : t[k] = s[k]
    BY <2>1
  <2>3. QED
    BY <2>2 DEF s, z
<1>7. Negative => Len(t) >= 1 /\ t[1] = MINUS
  BY <1>2, <1>3, <1>6
<1>8. \A q \in Skip .. p - 1 : t[q + 1] = T[p - q]
  <2> TAKE q \in Skip .. p - 1
  <2>1. q + 1 \in 1 .. p /\ p - q \in 1 .. p - Skip /\ p + 1 - (p - q) = q + 1
    BY <1>2
  <2>2. QED
    BY <1>5, <1>6, <2>1
<1>9. \A q \in Skip .. p - 1 : ~(q < p1 \/ q > p - 1)
  BY <1>2, <1>3
<1>10. Exchanging'
  <2>1. p - 1 \in Int /\ p1 + (p - 1) = Skip + p - 1 /\ p1 >= Skip
    BY <1>2, <1>3
  <2>2. \A q \in Skip .. p - 1 :
          t[q + 1] = IF q < p1 \/ q > p - 1 THEN T[q + 1 - Skip] ELSE T[p - q]
    BY <1>8, <1>9
  <2>3. QED
    BY <1>1, <1>3, <1>4, <1>5, <1>6, <2>1, <2>2 DEF Exchanging, t
<1>11. QED
  BY <1>1, <1>2, <1>4, <1>6, <1>7, <1>10 DEF ItoaInv, Writing, t

\* Positions a and b mirror each other between z and n - 1.
LEMMA Mirror ==
  ASSUME NEW n \in Nat, NEW z \in Nat, NEW a \in Nat, NEW b \in Int,
         a < b, a >= z, a + b = z + n - 1
  PROVE  /\ a \in z .. n - 1 /\ b \in z .. n - 1 /\ a + 1 # b + 1
         /\ n - b = a + 1 - z /\ n - a = b + 1 - z
         /\ a + 1 \in 1 .. n /\ b + 1 \in 1 .. n
OBVIOUS

\* A sequence in which two elements changed places.
LEMMA Exchanged ==
  ASSUME NEW s \in Seq(Int), NEW a \in 1 .. Len(s), NEW b \in 1 .. Len(s), a # b, NEW t,
         t = [s EXCEPT ![a] = s[b], ![b] = s[a]]
  PROVE  /\ t \in Seq(Int) /\ Len(t) = Len(s)
         /\ t[a] = s[b] /\ t[b] = s[a]
         /\ \A k \in 1 .. Len(s) : k # a /\ k # b => t[k] = s[k]
<1> DEFINE u == [s EXCEPT ![a] = s[b]]
<1>1. t = [u EXCEPT ![b] = s[a]] /\ s[a] \in Int /\ s[b] \in Int
  OBVIOUS
<1>2. u \in Seq(Int) /\ Len(u) = Len(s)
      /\ \A k \in 1 .. Len(s) : u[k] = IF k = a THEN s[b] ELSE s[k]
  BY <1>1, ExceptSeq
<1> HIDE DEF u
<1>3. t \in Seq(Int) /\ Len(t) = Len(s)
      /\ \A k \in 1 .. Len(s) : t[k] = IF k = b THEN s[a] ELSE u[k]
  <2> DEFINE v == s[a]
  <2>1. u \in Seq(Int) /\ b \in 1 .. Len(u) /\ v \in Int /\ t = [u EXCEPT ![b] = v]
    BY <1>1, <1>2
  <2> HIDE DEF v
  <2>2. /\ [u EXCEPT ![b] = v] \in Seq(Int) /\ Len([u EXCEPT ![b] = v]) = Len(u)
        /\ \A k \in 1 .. Len(u) : [u EXCEPT ![b] = v][k] = IF k = b THEN v ELSE u[k]
    BY <2>1, ExceptSeq
  <2>3. QED
    BY <1>2, <2>1, <2>2 DEF v
<1>4. QED
  BY <1>2, <1>3

LEMMA SwapInv ==
  ASSUME ItoaInv, Swap
  PROVE  ItoaInv'
<1> DEFINE s == str
           t == str'
           T == Target
<1>1. /\ at = "swap" /\ at' = "swap" /\ UNCHANGED <<fn, value, base, p, ud>>
      /\ p1 < p2 /\ p1' = p1 + 1 /\ p2' = p2 - 1
      /\ t = [s EXCEPT ![p1 + 1] = s[p2 + 1], ![p2 + 1] = s[p1 + 1]]
  BY DEF Swap
<1>2. /\ value \in 0 .. UINT - 1 /\ base \in {Decimal, Hex}
      /\ s \in Seq(Int) /\ p \in Nat /\ p1 \in Nat /\ Skip \in Nat /\ p >= Skip
      /\ Negative => Len(s) >= 1 /\ s[1] = MINUS
  BY <1>1, Call
<1>3. /\ Len(s) = p + 1 /\ s[p + 1] = NUL
      /\ p > Skip /\ p1 >= Skip /\ p2 \in Int /\ p1 + p2 = Skip + p - 1
      /\ Len(T) = p - Skip
      /\ \A q \in Skip .. p - 1 :
           s[q + 1] = IF q < p1 \/ q > p2 THEN T[q + 1 - Skip] ELSE T[p - q]
  BY <1>1 DEF ItoaInv, Exchanging
<1>4. Negative' = Negative /\ Skip' = Skip /\ Target' = T
  BY <1>1, SameCall
<1>5. Negative => Skip = 1
  BY DEF Skip
<1> HIDE DEF s, t, T
<1>6. /\ p1 \in Skip .. p - 1 /\ p2 \in Skip .. p - 1 /\ p1 + 1 # p2 + 1
      /\ p - p2 = p1 + 1 - Skip /\ p - p1 = p2 + 1 - Skip
      /\ p1 + 1 \in 1 .. p /\ p2 + 1 \in 1 .. p
  BY <1>1, <1>2, <1>3, Mirror
<1>14. s[p1 + 1] = T[p - p1] /\ s[p2 + 1] = T[p - p2]
  <2>1. \A q \in Skip .. p - 1 : ~(q < p1 \/ q > p2) => s[q + 1] = T[p - q]
    BY <1>3
  <2>2. ~(p1 < p1 \/ p1 > p2) /\ ~(p2 < p1 \/ p2 > p2)
    <3>1. p1 \in Int /\ p2 \in Int
      BY <1>2, <1>3
    <3>2. QED
      BY <1>1, <3>1
  <2>3. QED
    BY <1>6, <2>1, <2>2
<1>7. /\ t \in Seq(Int) /\ Len(t) = p + 1
      /\ t[p1 + 1] = s[p2 + 1] /\ t[p2 + 1] = s[p1 + 1]
      /\ \A k \in 1 .. p + 1 : k # p1 + 1 /\ k # p2 + 1 => t[k] = s[k]
  <2> DEFINE a == p1 + 1
             b == p2 + 1
  <2>1. a \in 1 .. Len(s) /\ b \in 1 .. Len(s) /\ a # b /\ DOMAIN s = 1 .. Len(s)
    BY <1>2, <1>3, <1>6
  <2>2. t = [s EXCEPT ![a] = s[b], ![b] = s[a]]
    BY <1>1
  <2> HIDE DEF a, b
  <2>3. /\ t \in Seq(Int) /\ Len(t) = Len(s)
        /\ t[a] = s[b] /\ t[b] = s[a]
        /\ \A k \in 1 .. Len(s) : k # a /\ k # b => t[k] = s[k]
    BY <1>2, <2>1, <2>2, Exchanged
  <2>4. Len(t) = p + 1 /\ 1 .. Len(s) = 1 .. p + 1
    BY <1>3, <2>3
  <2>5. \A k \in 1 .. p + 1 : k # a /\ k # b => t[k] = s[k]
    BY <2>3, <2>4
  <2>6. QED
    BY <2>3, <2>4, <2>5 DEF a, b
<1>8. t[p + 1] = NUL
  <2>1. p + 1 \in 1 .. p + 1 /\ p + 1 # p1 + 1 /\ p + 1 # p2 + 1
    <3>1. p \in Nat /\ p1 + 1 \in 1 .. p /\ p2 + 1 \in 1 .. p
      BY <1>2, <1>6
    <3>2. QED
      BY <3>1
  <2>2. QED
    BY <1>3, <1>7, <2>1
<1>9. Negative => Len(t) >= 1 /\ t[1] = MINUS
  <2>1. Negative => 1 \in 1 .. p + 1 /\ 1 # p1 + 1 /\ 1 # p2 + 1
    BY <1>2, <1>3, <1>5, <1>6
  <2>2. QED
    BY <1>2, <1>7, <2>1
<1>10. \A q \in Skip .. p - 1 :
         t[q + 1] = IF q < p1 + 1 \/ q > p2 - 1 THEN T[q + 1 - Skip] ELSE T[p - q]
  <2> TAKE q \in Skip .. p - 1
  <2>1. q \in Int /\ q + 1 \in 1 .. p + 1
    BY <1>2
  <2>2. CASE q = p1
    <3>1. t[q + 1] = T[p - p2]
      <4>1. s[p2 + 1] = T[p - p2]
        BY <1>6, <1>14
      <4>2. QED
        BY <1>7, <2>2, <4>1
    <3>2. q < p1 + 1 /\ T[p - p2] = T[q + 1 - Skip]
      BY <1>2, <1>6, <2>2
    <3>3. QED
      BY <3>1, <3>2
  <2>3. CASE q = p2
    <3>1. t[q + 1] = T[p - p1]
      <4>1. s[p1 + 1] = T[p - p1]
        BY <1>6, <1>14
      <4>2. QED
        BY <1>7, <2>3, <4>1
    <3>2. q > p2 - 1 /\ T[p - p1] = T[q + 1 - Skip]
      BY <1>3, <1>6, <2>3
    <3>3. QED
      BY <3>1, <3>2
  <2>4. CASE q # p1 /\ q # p2
    <3>1. q + 1 # p1 + 1 /\ q + 1 # p2 + 1
      BY <1>2, <1>3, <2>1, <2>4
    <3>2. t[q + 1] = s[q + 1]
      BY <1>7, <2>1, <3>1
    <3>3. (q < p1 + 1 <=> q < p1) /\ (q > p2 - 1 <=> q > p2)
      BY <1>2, <1>3, <2>1, <2>4
    <3>4. QED
      BY <1>3, <3>2, <3>3
  <2>5. QED
    BY <2>2, <2>3, <2>4
<1>11. Exchanging'
  <2>1. p1 + 1 >= Skip /\ p2 - 1 \in Int /\ (p1 + 1) + (p2 - 1) = Skip + p - 1
    BY <1>2, <1>3
  <2>2. QED
    BY <1>1, <1>3, <1>4, <1>7, <1>8, <1>10, <2>1 DEF Exchanging, t
<1>12. p1 + 1 \in Nat
  BY <1>2
<1>13. QED
  BY <1>1, <1>2, <1>4, <1>7, <1>9, <1>11, <1>12 DEF ItoaInv, Writing, t

LEMMA ReturnInv ==
  ASSUME ItoaInv, Return
  PROVE  ItoaInv'
<1>1. /\ at = "swap" /\ at' = "done" /\ p1 >= p2
      /\ UNCHANGED <<fn, value, base, str, p, ud, p1, p2>>
  BY DEF Return
<1>2. Negative' = Negative /\ Skip' = Skip /\ Target' = Target
  BY <1>1, SameCall
<1>3. QED
  BY <1>1, <1>2 DEF ItoaInv, Writing, Exchanging

LEMMA ItoaStepInv ==
  ASSUME ItoaInv, ItoaStep
  PROVE  ItoaInv'
BY DigitInv, TerminateInv, SwapInv, ReturnInv DEF ItoaStep

\* A string ends at its first zero.
LEMMA CStringTo ==
  ASSUME NEW s \in Seq(Int), NEW n \in 1 .. Len(s), s[n] = NUL,
         \A m \in 1 .. n - 1 : s[m] # NUL
  PROVE  CString(s) = SubSeq(s, 1, n - 1)
<1> DEFINE Ends(k) == s[k] = NUL /\ \A m \in 1 .. k - 1 : s[m] # NUL
           end     == CHOOSE k \in DOMAIN s : Ends(k)
<1>1. DOMAIN s = 1 .. Len(s) /\ n \in DOMAIN s /\ Ends(n)
  OBVIOUS
<1>2. end \in DOMAIN s /\ Ends(end)
  <2> HIDE DEF Ends
  <2>1. QED
    BY <1>1
<1> HIDE DEF end
<1>3. end = n
  <2>1. end \in Int /\ n \in Int /\ end >= 1 /\ n >= 1
    BY <1>1, <1>2
  <2>2. ~(end < n)
    <3> SUFFICES ASSUME end < n PROVE FALSE
      OBVIOUS
    <3>1. end \in 1 .. n - 1
      BY <2>1
    <3>2. QED
      BY <1>2, <3>1
  <2>3. ~(n < end)
    <3> SUFFICES ASSUME n < end PROVE FALSE
      OBVIOUS
    <3>1. n \in 1 .. end - 1
      BY <2>1
    <3>2. QED
      BY <1>2, <3>1
  <2>4. QED
    BY <2>1, <2>2, <2>3
<1>4. CString(s) = SubSeq(s, 1, end - 1)
  BY DEF CString, end
<1>5. QED
  BY <1>3, <1>4

LEMMA Joined ==
  ASSUME NEW s \in Seq(Int), NEW t \in Seq(Int)
  PROVE  /\ s \o t \in Seq(Int) /\ Len(s \o t) = Len(s) + Len(t)
         /\ \A k \in 1 .. Len(s) + Len(t) :
              (s \o t)[k] = IF k <= Len(s) THEN s[k] ELSE t[k - Len(s)]
OBVIOUS

\* When a conversion returns, its buffer holds the sign and the digits.
LEMMA Converted ==
  ASSUME ItoaInv, at = "done"
  PROVE  CString(str) = Sign \o Target
<1> DEFINE s == str
           T == Target
           R == Sign \o T
<1>1. /\ value \in 0 .. UINT - 1 /\ base \in {Decimal, Hex}
      /\ s \in Seq(Int) /\ p \in Nat /\ p1 \in Nat /\ Skip \in Nat /\ p >= Skip
      /\ Negative => Len(s) >= 1 /\ s[1] = MINUS
  BY Call
<1>2. /\ Len(s) = p + 1 /\ s[p + 1] = NUL
      /\ p > Skip /\ p1 >= Skip /\ p2 \in Int /\ p1 + p2 = Skip + p - 1
      /\ Len(T) = p - Skip /\ p1 >= p2
      /\ \A q \in Skip .. p - 1 :
           s[q + 1] = IF q < p1 \/ q > p2 THEN T[q + 1 - Skip] ELSE T[p - q]
  BY DEF ItoaInv, Exchanging
<1>3. T \in Seq(Int) /\ \A k \in 1 .. Len(T) : T[k] # NUL
  <2>1. Magnitude \in 0 .. UINT
    BY <1>1, MagnitudeType
  <2>2. QED
    BY <1>1, <2>1, NumeralSeq DEF Target
<1>4. /\ Sign \in Seq(Int) /\ Len(Sign) = Skip /\ Skip \in {0, 1}
      /\ Skip = 1 => Sign[1] = MINUS /\ s[1] = MINUS
  <2>1. CASE Negative
    BY <1>1, <2>1 DEF Sign, Skip, MINUS
  <2>2. CASE ~Negative
    BY <2>2 DEF Sign, Skip
  <2>3. QED
    BY <2>1, <2>2
<1> DEFINE S == Sign
<1> HIDE DEF s, T, S
<1>5. \A q \in Skip .. p - 1 : s[q + 1] = T[q + 1 - Skip]
  <2> TAKE q \in Skip .. p - 1
  <2>1. ~(q < p1 \/ q > p2) => p - q = q + 1 - Skip
    BY <1>1, <1>2
  <2>2. QED
    BY <1>2, <2>1
<1>6. /\ R \in Seq(Int) /\ Len(R) = p
      /\ \A k \in 1 .. p : R[k] = IF k <= Skip THEN S[k] ELSE T[k - Skip]
  <2>1. S \in Seq(Int) /\ Len(S) = Skip /\ R = S \o T
    BY <1>4 DEF S
  <2>2. Len(S) + Len(T) = p
    BY <1>1, <1>2, <2>1
  <2> HIDE DEF R
  <2>3. R \in Seq(Int) /\ Len(R) = Len(S) + Len(T)
        /\ \A k \in 1 .. Len(S) + Len(T) : R[k] = IF k <= Len(S) THEN S[k] ELSE T[k - Len(S)]
    BY <1>3, <2>1, Joined
  <2>4. QED
    BY <2>1, <2>2, <2>3
<1> HIDE DEF R
<1>7. \A k \in 1 .. p : s[k] = R[k] /\ s[k] # NUL
  <2> TAKE k \in 1 .. p
  <2>1. CASE k <= Skip
    <3>1. k = 1 /\ Skip = 1
      BY <1>4, <2>1
    <3>2. QED
      BY <1>4, <1>6, <2>1, <3>1 DEF S, MINUS, NUL
  <2>2. CASE ~(k <= Skip)
    <3>1. /\ k - 1 \in Skip .. p - 1 /\ k - Skip \in 1 .. Len(T)
          /\ (k - 1) + 1 = k /\ (k - 1) + 1 - Skip = k - Skip
      BY <1>1, <1>2, <2>2
    <3>2. s[k] = T[k - Skip] /\ T[k - Skip] # NUL
      <4>1. s[(k - 1) + 1] = T[(k - 1) + 1 - Skip]
        BY <1>5, <3>1
      <4>2. QED
        BY <1>3, <3>1, <4>1
    <3>3. QED
      BY <1>6, <2>2, <3>2
  <2>3. QED
    BY <2>1, <2>2
<1>8. CString(s) = SubSeq(s, 1, p)
  <2>1. p + 1 \in 1 .. Len(s) /\ (p + 1) - 1 = p
    BY <1>1, <1>2
  <2>2. QED
    BY <1>1, <1>2, <1>7, <2>1, CStringTo
<1>9. SubSeq(s, 1, p) = R
  <2>1. /\ SubSeq(s, 1, p) \in Seq(Int) /\ Len(SubSeq(s, 1, p)) = p
        /\ \A k \in 1 .. p : SubSeq(s, 1, p)[k] = s[k]
    BY <1>1, <1>2
  <2> DEFINE u == SubSeq(s, 1, p)
  <2> HIDE DEF u
  <2>2. u \in Seq(Int) /\ Len(u) = Len(R) /\ \A k \in 1 .. Len(u) : u[k] = R[k]
    BY <1>6, <1>7, <2>1 DEF u
  <2>3. u = R
    BY <1>6, <2>2, SameSeq
  <2>4. QED
    BY <2>3 DEF u
<1>10. QED
  BY <1>8, <1>9 DEF s, R, T, S


-----------------------------------------------------------------------------
(* The pieces of the text.                                                 *)

\* The conversions up to position k that take an argument.
Takers(k) == {n \in 1 .. k : TakesArg(n)}

LEMMA TakersNext ==
  ASSUME NEW k \in Nat
  PROVE  /\ IsFiniteSet(Takers(k)) /\ Cardinality(Takers(k)) \in Nat
         /\ Cardinality(Takers(k + 1)) =
              Cardinality(Takers(k)) + (IF TakesArg(k + 1) THEN 1 ELSE 0)
<1>1. IsFiniteSet(Takers(k)) /\ Cardinality(Takers(k)) \in Nat
  <2>1. IsFiniteSet(1 .. k) /\ Takers(k) \subseteq 1 .. k
    BY FS_Interval DEF Takers
  <2>2. QED
    BY <2>1, FS_Subset, FS_CardinalityType
<1>2. Takers(k + 1) = Takers(k) \cup (IF TakesArg(k + 1) THEN {k + 1} ELSE {})
  <2>1. 1 .. k + 1 = (1 .. k) \cup {k + 1}
    OBVIOUS
  <2>2. QED
    BY <2>1 DEF Takers
<1>3. k + 1 \notin Takers(k)
  BY DEF Takers
<1>4. CASE TakesArg(k + 1)
  <2>1. Takers(k + 1) = Takers(k) \cup {k + 1}
    BY <1>2, <1>4
  <2>2. Cardinality(Takers(k) \cup {k + 1}) = Cardinality(Takers(k)) + 1
    BY <1>1, <1>3, FS_AddElement
  <2>3. QED
    BY <1>1, <1>4, <2>1, <2>2
<1>5. CASE ~TakesArg(k + 1)
  <2>1. Takers(k + 1) = Takers(k)
    BY <1>2, <1>5
  <2>2. QED
    BY <1>1, <1>5, <2>1
<1>6. QED
  BY <1>4, <1>5

LEMMA TakersNone == Cardinality(Takers(0)) = 0
<1>1. Takers(0) = {}
  BY DEF Takers
<1>2. QED
  BY <1>1, FS_EmptySet

LEMMA TakersGrow ==
  ASSUME NEW k \in Nat, NEW l \in Nat, k <= l
  PROVE  Cardinality(Takers(k)) <= Cardinality(Takers(l))
<1>1. Takers(k) \subseteq Takers(l)
  BY DEF Takers
<1>2. IsFiniteSet(Takers(l))
  BY TakersNext
<1>3. QED
  BY <1>1, <1>2, FS_Subset

\* A position of the text, by the number of '%' before it.
LEMMA PieceAt ==
  ASSUME NEW n \in Nat \ {0}
  PROVE  /\ Piece(n) = IF TakesArg(n)
                       THEN Shown(text[n], args[Cardinality(Takers(n))])
                       ELSE IF Introduced(n) \/ text[n] = PERCENT THEN <<>>
                       ELSE <<text[n]>>
         /\ PercentsBefore(n) % 2 = 0 => ~Introduced(n) /\ ~TakesArg(n)
BY DEF Piece, Takers, Introduced, TakesArg

\* Of n and n + 1, when n is a '%' that is not introduced.
LEMMA PercentAt ==
  ASSUME NEW n \in Nat \ {0}, PercentsBefore(n) % 2 = 0, text[n] = PERCENT
  PROVE  /\ Piece(n) = <<>> /\ ~TakesArg(n)
         /\ Introduced(n + 1)
<1>1. ~Introduced(n) /\ ~TakesArg(n)
  BY PieceAt
<1>2. PercentsBefore(n) \in Nat /\ PercentsBefore(n + 1) = PercentsBefore(n) + 1
  BY PercentsNext
<1>3. PercentsBefore(n + 1) % 2 = 1
  BY <1>2
<1>4. QED
  BY <1>1, <1>3, PieceAt DEF Introduced

\* The pieces up to k stay what they are when another argument is taken.
LEMMA SamePieces ==
  ASSUME NEW k \in Nat, text \in Seq(Chars), k <= Len(text), text' = text,
         \A j \in 1 .. Cardinality(Takers(k)) : args'[j] = args[j]
  PROVE  /\ Prefix(Pieces', k) = Prefix(Pieces, k)
         /\ Prefix(Taken', k) = Prefix(Taken, k)
<1>1. /\ \A n \in Nat : TakesArg(n)' <=> TakesArg(n)
      /\ \A n \in Nat : Introduced(n)' <=> Introduced(n)
      /\ \A n \in Nat : Takers(n)' = Takers(n)
  BY DEF TakesArg, Introduced, PercentsBefore, Takers
<1>2. ASSUME NEW n \in 1 .. k
      PROVE  Piece(n)' = Piece(n)
  <2>1. n \in Nat \ {0} /\ n <= k
    OBVIOUS
  <2>2. CASE TakesArg(n)
    <3>1. Cardinality(Takers(n)) \in 1 .. Cardinality(Takers(k))
      <4>1. n - 1 \in Nat /\ (n - 1) + 1 = n
        BY <2>1
      <4>2. Cardinality(Takers(n - 1)) \in Nat
            /\ Cardinality(Takers(n)) = Cardinality(Takers(n - 1)) + 1
        BY <2>2, <4>1, TakersNext
      <4>3. Cardinality(Takers(n)) <= Cardinality(Takers(k))
            /\ Cardinality(Takers(k)) \in Nat
        BY <2>1, TakersGrow, TakersNext
      <4>4. QED
        BY <4>2, <4>3
    <3>2. args'[Cardinality(Takers(n))] = args[Cardinality(Takers(n))]
      BY <3>1
    <3>3. Shown(text[n], args[Cardinality(Takers(n))])'
            = Shown(text[n], args[Cardinality(Takers(n))])
      <4>1. Cardinality(Takers(n))' = Cardinality(Takers(n))
        BY <1>1, <2>1
      <4>2. args[Cardinality(Takers(n))]' = args[Cardinality(Takers(n))]
        BY <3>2, <4>1
      <4>3. QED
        BY <4>2 DEF Shown
    <3>4. Piece(n) = Shown(text[n], args[Cardinality(Takers(n))])
      BY <2>2 DEF Piece, Takers
    <3>5. Piece(n)' = Shown(text[n], args[Cardinality(Takers(n))])'
      BY <1>1, <2>1, <2>2 DEF Piece, Takers
    <3>6. QED
      BY <3>3, <3>4, <3>5
  <2>3. CASE ~TakesArg(n)
    BY <1>1, <2>1, <2>3 DEF Piece
  <2>4. QED
    BY <2>2, <2>3
<1>3. \A n \in 1 .. k : n \in DOMAIN text
  OBVIOUS
<1>4. \A n \in 1 .. k : Pieces'[n] = Pieces[n] /\ Taken'[n] = Taken[n]
  <2> TAKE n \in 1 .. k
  <2>1. n \in DOMAIN text /\ n \in Nat
    BY <1>3
  <2>2. Pieces'[n] = Piece(n)' /\ Pieces[n] = Piece(n)
    BY <2>1 DEF Pieces
  <2>3. /\ Taken'[n] = IF TakesArg(n)' THEN Piece(n)' ELSE <<>>
        /\ Taken[n] = IF TakesArg(n) THEN Piece(n) ELSE <<>>
    BY <2>1 DEF Taken
  <2>4. QED
    BY <1>1, <1>2, <2>1, <2>2, <2>3
<1>5. QED
  <2> DEFINE P == Pieces
             Q == Pieces'
             R == Taken
             S == Taken'
  <2> HIDE DEF P, Q, R, S
  <2>1. \A n \in 1 .. k : Q[n] = P[n] /\ S[n] = R[n]
    BY <1>4 DEF P, Q, R, S
  <2>2. Prefix(Q, k) = Prefix(P, k) /\ Prefix(S, k) = Prefix(R, k)
    BY <2>1, PrefixSame
  <2>3. QED
    BY <2>2 DEF P, Q, R, S


LEMMA FlattenTwo ==
  ASSUME NEW P, NEW k \in Nat, FlattenSeq(Prefix(P, k)) \in Seq(Int),
         P[k + 1] = <<>>, NEW s \in Seq(Int), P[k + 2] = s
  PROVE  /\ FlattenSeq(Prefix(P, k + 2)) = FlattenSeq(Prefix(P, k)) \o s
         /\ FlattenSeq(Prefix(P, k + 2)) \in Seq(Int)
<1>1. <<>> \in Seq(Int) /\ k + 1 \in Nat /\ (k + 1) + 1 = k + 2
  OBVIOUS
<1>2. /\ FlattenSeq(Prefix(P, k + 1)) = FlattenSeq(Prefix(P, k)) \o <<>>
      /\ FlattenSeq(Prefix(P, k + 1)) \in Seq(Int)
  BY <1>1, FlattenNext
<1>3. FlattenSeq(Prefix(P, k + 1)) = FlattenSeq(Prefix(P, k))
  <2>1. \A t \in Seq(Int) : t \o <<>> = t
    OBVIOUS
  <2>2. QED
    BY <1>2, <2>1
<1>4. /\ FlattenSeq(Prefix(P, (k + 1) + 1)) = FlattenSeq(Prefix(P, k + 1)) \o P[(k + 1) + 1]
      /\ FlattenSeq(Prefix(P, (k + 1) + 1)) \in Seq(Int)
  <2>1. P[(k + 1) + 1] \in Seq(Int)
    BY <1>1
  <2>2. QED
    BY <1>1, <1>2, <2>1, FlattenNext
<1>5. QED
  BY <1>1, <1>3, <1>4

-----------------------------------------------------------------------------
(* The walk and what it has printed.                                       *)

Argument == Int \cup Seq(Int)

\* A number is being converted for the conversion at i, and is the last argument.
Converting ==
  /\ Conversion \in Numbers /\ fn = Converter(Conversion) /\ base = BaseOf(Conversion)
  /\ Len(args) >= 1 /\ args[Len(args)] = value

\* Within the text the walk has printed the pieces up to i, and it has taken an
\* argument for each conversion among them, and for the one at i.
Printed ==
  /\ Len(args) = Cardinality(Takers(i)) + (IF pc = "number" THEN 1 ELSE 0)
  /\ out \in Seq(Int) /\ out = FlattenSeq(Prefix(Pieces, i))
  /\ FlattenSeq(Prefix(Taken, i)) \in Seq(Int)
  /\ characters = Len(FlattenSeq(Prefix(Taken, i)))

ExpandInv ==
  /\ Len(text) <= MaxFormat
  /\ pc \in {"walk", "number", "done"} /\ (pc = "number" <=> at # "idle")
  /\ pc = "number" => Converting
  /\ pc = "done" => Read(i) = NUL
  /\ args \in Seq(Argument)
  /\ i <= Len(text) => Printed

LEMMA InitExpandInv == Init => ExpandInv
<1> SUFFICES ASSUME Init
             PROVE  ExpandInv
  OBVIOUS
<1>1. PICK n \in 0 .. MaxFormat : text \in [1 .. n -> Chars]
  BY DEF Init
<1>2. n \in Nat /\ MaxFormat \in Nat /\ n <= MaxFormat
  BY <1>1, FormatAssumption
<1>3. Len(text) = n
  BY <1>1, <1>2
<1>4. /\ i = 0 /\ args = <<>> /\ out = <<>> /\ characters = 0 /\ pc = "walk" /\ at = "idle"
  BY DEF Init, ItoaInit
<1>5. Printed
  <2>1. Len(args) = 0 /\ <<>> \in Seq(Int) /\ Len(<<>>) = 0
    BY <1>4
  <2>2. FlattenSeq(Prefix(Pieces, 0)) = <<>> /\ FlattenSeq(Prefix(Taken, 0)) = <<>>
    BY FlattenNone
  <2> DEFINE P == Pieces
             T == Taken
             N == Cardinality(Takers(0))
             e == <<>>
  <2>3. N = 0 /\ FlattenSeq(Prefix(P, 0)) = e /\ FlattenSeq(Prefix(T, 0)) = e
    BY <2>2, TakersNone
  <2>6. args = e /\ out = e /\ e \in Seq(Int) /\ Len(e) = 0
    BY <1>4, <2>1
  <2> HIDE DEF P, T, N, e
  <2>4. /\ Len(args) = N + (IF pc = "number" THEN 1 ELSE 0)
        /\ out \in Seq(Int) /\ out = FlattenSeq(Prefix(P, 0))
        /\ FlattenSeq(Prefix(T, 0)) \in Seq(Int)
        /\ characters = Len(FlattenSeq(Prefix(T, 0)))
    <3>1. Len(args) = N + (IF pc = "number" THEN 1 ELSE 0)
      <4>1. (IF pc = "number" THEN 1 ELSE 0) = 0 /\ Len(args) = 0 /\ N = 0
        BY <1>4, <2>3, <2>6
      <4>2. QED
        BY <4>1
    <3>2. out \in Seq(Int) /\ out = FlattenSeq(Prefix(P, 0))
      BY <2>3, <2>6
    <3>3. FlattenSeq(Prefix(T, 0)) \in Seq(Int) /\ Len(FlattenSeq(Prefix(T, 0))) = 0
      BY <2>3, <2>6
    <3>4. QED
      BY <1>4, <3>1, <3>2, <3>3
  <2>5. QED
    BY <1>4, <2>4 DEF Printed, P, T, N
<1>6. args \in Seq(Argument)
  BY <1>4
<1>7. QED
  BY <1>2, <1>3, <1>4, <1>5, <1>6 DEF ExpandInv

\* What the walk reads in the text.
LEMMA Reading ==
  ASSUME WalkInv, i <= Len(text)
  PROVE  /\ text \in Seq(Chars) /\ i \in Nat /\ Len(text) \in Nat
         /\ Chars \subseteq 1 .. 127
         /\ i < Len(text) => Read(i) = text[i + 1] /\ text[i + 1] \in Chars
         /\ i + 1 < Len(text) => Conversion = text[i + 2]
         /\ i = Len(text) => Read(i) = NUL
         /\ i + 1 = Len(text) => Conversion = NUL
         /\ PercentsBefore(i + 1) % 2 = 0
<1>1. text \in Seq(Chars) /\ i \in Nat /\ Len(text) \in Nat
      /\ (\A n \in 1 .. Len(text) : format[n] = text[n])
      /\ format[Len(text) + 1] = NUL /\ PercentsBefore(i + 1) % 2 = 0
  BY DEF WalkInv, TextInMemory, Paired
<1>2. Chars \subseteq 1 .. 127
  BY FormatAssumption
<1>3. i < Len(text) => i + 1 \in 1 .. Len(text)
  BY <1>1
<1>4. i + 1 < Len(text) => i + 2 \in 1 .. Len(text)
  BY <1>1
<1>5. i < Len(text) => text[i + 1] \in Chars
  BY <1>1, <1>3
<1>6. (i + 1) + 1 = i + 2
  BY <1>1
<1>7. Read(i) = format[i + 1] /\ Conversion = format[i + 2]
  BY <1>6 DEF Read, Conversion
<1>8. QED
  BY <1>1, <1>2, <1>3, <1>4, <1>5, <1>6, <1>7

\* What is printed up to k is not changed by another argument, and what the
\* positions behind k stand for depends on the new ones.
LEMMA SameText ==
  ASSUME NEW n \in Nat, text' = text
  PROVE  /\ TakesArg(n)' <=> TakesArg(n)
         /\ Introduced(n)' <=> Introduced(n)
         /\ Takers(n)' = Takers(n)
BY DEF TakesArg, Introduced, PercentsBefore, Takers

LEMMA StillPrinted ==
  ASSUME NEW k \in Nat, i = k, text \in Seq(Chars), text' = text, k <= Len(text),
         Printed, \A j \in 1 .. Cardinality(Takers(k)) : args'[j] = args[j]
  PROVE  /\ FlattenSeq(Prefix(Pieces', k)) = out /\ out \in Seq(Int)
         /\ FlattenSeq(Prefix(Taken', k)) \in Seq(Int)
         /\ Len(FlattenSeq(Prefix(Taken', k))) = characters
         /\ \A n \in 1 .. Len(text) :
              /\ Pieces'[n] = Piece(n)'
              /\ Taken'[n] = IF TakesArg(n) THEN Piece(n)' ELSE <<>>
<1>1. /\ Prefix(Pieces', k) = Prefix(Pieces, k)
      /\ Prefix(Taken', k) = Prefix(Taken, k)
  BY SamePieces
<1>2. /\ out \in Seq(Int) /\ out = FlattenSeq(Prefix(Pieces, k))
      /\ FlattenSeq(Prefix(Taken, k)) \in Seq(Int)
      /\ characters = Len(FlattenSeq(Prefix(Taken, k)))
  BY DEF Printed
<1>4. ASSUME NEW n \in 1 .. Len(text)
      PROVE  /\ Pieces'[n] = Piece(n)'
             /\ Taken'[n] = IF TakesArg(n) THEN Piece(n)' ELSE <<>>
  <2>1. n \in DOMAIN text /\ n \in Nat
    OBVIOUS
  <2>2. Pieces'[n] = Piece(n)'
    BY <2>1 DEF Pieces
  <2>3. Taken'[n] = IF TakesArg(n)' THEN Piece(n)' ELSE <<>>
    BY <2>1 DEF Taken
  <2>4. QED
    BY <2>1, <2>2, <2>3, SameText
<1>5. QED
  BY <1>1, <1>2, <1>4

LEMMA PlainStep ==
  ASSUME WalkInv, ExpandInv, Plain
  PROVE  ExpandInv'
<1> DEFINE c == Read(i)
<1>1. /\ pc = "walk" /\ at = "idle" /\ c \notin {NUL, PERCENT} /\ out' = Append(out, c)
      /\ characters' = characters /\ i' = i + 1
      /\ UNCHANGED <<at, text, format, args, pc>>
  BY DEF Plain, Walking, Counted, itoaVars
<1>2. Len(text) <= MaxFormat /\ args \in Seq(Argument)
  BY DEF ExpandInv
<1>3. i \in Nat /\ text \in Seq(Chars) /\ Len(text) \in Nat
  BY DEF WalkInv, TextInMemory
<1>4. ASSUME i + 1 <= Len(text)
      PROVE  Printed'
  <2>1. PICK k \in Nat : k = i
    BY <1>3
  <2>2. k <= Len(text) /\ k + 1 \in 1 .. Len(text) /\ k < Len(text) /\ k + 1 \in Nat \ {0}
    BY <1>3, <1>4, <2>1
  <2>m. PICK m \in Nat : m = k + 1 /\ m \in 1 .. Len(text)
    BY <2>2
  <2>3. c = text[k + 1] /\ c \in Int /\ PercentsBefore(k + 1) % 2 = 0
    <3>1. c = text[k + 1] /\ text[k + 1] \in Chars /\ Chars \subseteq 1 .. 127
          /\ PercentsBefore(k + 1) % 2 = 0
      BY <2>1, <2>2, Reading
    <3> HIDE DEF c
    <3>2. c \in 1 .. 127
      BY <3>1
    <3>3. QED
      BY <3>1, <3>2
  <2>4. Printed
    BY <2>1, <2>2 DEF ExpandInv
  <2>5. ~TakesArg(k + 1) /\ ~Introduced(k + 1)
    BY <2>2, <2>3, PieceAt
  <2> DEFINE P == Pieces'
             T == Taken'
  <2>6. /\ FlattenSeq(Prefix(P, k)) = out /\ out \in Seq(Int)
        /\ FlattenSeq(Prefix(T, k)) \in Seq(Int)
        /\ Len(FlattenSeq(Prefix(T, k))) = characters
        /\ \A n \in 1 .. Len(text) :
             /\ P[n] = Piece(n)'
             /\ T[n] = IF TakesArg(n) THEN Piece(n)' ELSE <<>>
    BY <1>1, <1>3, <2>1, <2>2, <2>4, StillPrinted
  <2>7. P[k + 1] = <<c>> /\ T[k + 1] = <<>>
    <3>1. ~TakesArg(m) /\ ~Introduced(m) /\ text[m] = c
      BY <2>3, <2>5, <2>m
    <3>2. ~TakesArg(m)' /\ ~Introduced(m)' /\ text'[m] = c
      BY <1>1, <3>1, SameText
    <3>3. Piece(m)' = <<c>>
      BY <1>1, <3>2 DEF Piece
    <3>4. P[m] = <<c>> /\ T[m] = <<>>
      BY <2>6, <2>m, <3>1, <3>3
    <3>5. QED
      BY <2>m, <3>4
  <2> HIDE DEF P, T, c
  <2>8. /\ FlattenSeq(Prefix(P, k + 1)) = out \o <<c>>
        /\ FlattenSeq(Prefix(P, k + 1)) \in Seq(Int)
    <3>1. P[k + 1] \in Seq(Int)
      BY <2>3, <2>7
    <3>2. QED
      BY <2>6, <2>7, <3>1, FlattenNext
  <2>9. /\ FlattenSeq(Prefix(T, k + 1)) = FlattenSeq(Prefix(T, k)) \o <<>>
        /\ FlattenSeq(Prefix(T, k + 1)) \in Seq(Int)
    <3>1. T[k + 1] \in Seq(Int)
      BY <2>7
    <3>2. QED
      BY <2>6, <2>7, <3>1, FlattenNext
  <2>10. FlattenSeq(Prefix(T, k + 1)) = FlattenSeq(Prefix(T, k))
    <3>1. \A s \in Seq(Int) : s \o <<>> = s
      OBVIOUS
    <3>2. QED
      BY <2>6, <2>9, <3>1
  <2>11. out' = out \o <<c>>
    <3>1. \A s \in Seq(Int), d \in Int : Append(s, d) = s \o <<d>>
      OBVIOUS
    <3>2. QED
      BY <1>1, <2>3, <2>6, <3>1 DEF c
  <2>12. Len(args') = Cardinality(Takers(m)') + (IF pc' = "number" THEN 1 ELSE 0)
    <3>1. Cardinality(Takers(k + 1)) = Cardinality(Takers(k)) /\ Cardinality(Takers(k)) \in Nat
      BY <2>5, TakersNext
    <3>2. Len(args) = Cardinality(Takers(k)) + 0
      BY <1>1, <2>1, <2>4 DEF Printed
    <3>3. pc' # "number" /\ args' = args /\ Takers(m)' = Takers(m)
      BY <1>1, SameText
    <3>4. QED
      BY <2>m, <3>1, <3>2, <3>3
  <2>13. i' = m /\ m = k + 1
    BY <1>1, <2>1, <2>m
  <2>14. QED
    BY <1>1, <2>6, <2>8, <2>9, <2>10, <2>11, <2>12, <2>13 DEF Printed, P, T
<1>5. i' <= Len(text') => Printed'
  BY <1>1, <1>4
<1>6. QED
  BY <1>1, <1>2, <1>5 DEF ExpandInv


\* A conversion that prints s: it takes an argument or s is empty.
LEMMA ConversionStep ==
  ASSUME WalkInv, ExpandInv, Read(i) = PERCENT,
         i' = AfterConversion, UNCHANGED <<text, format>>, pc' = "walk", at' = "idle",
         NEW s \in Seq(Int), out' = out \o s, characters' = characters + Len(s),
         args' \in Seq(Argument),
         NEW taken \in BOOLEAN,
         taken <=> Conversion \in Numbers \cup {string, char},
         i <= Len(text) =>
           /\ Len(args') = Cardinality(Takers(i)) + (IF taken THEN 1 ELSE 0)
           /\ \A j \in 1 .. Cardinality(Takers(i)) : args'[j] = args[j],
         s = IF taken THEN Shown(Conversion, args'[Len(args')]) ELSE <<>>
  PROVE  ExpandInv'
<1>1. i \in Nat /\ text \in Seq(Chars) /\ Len(text) \in Nat /\ i' = i + 2
  BY DEF WalkInv, TextInMemory, AfterConversion
<1>2. ASSUME i + 2 <= Len(text)
      PROVE  Printed'
  <2>1. PICK k \in Nat : k = i
    BY <1>1
  <2>2. PICK m \in Nat : m = k + 2
    OBVIOUS
  <2>3. /\ k <= Len(text) /\ k < Len(text) /\ k + 1 < Len(text)
        /\ k + 1 \in 1 .. Len(text) /\ k + 2 \in 1 .. Len(text)
        /\ k + 1 \in Nat \ {0} /\ k + 2 = (k + 1) + 1
    <3> DEFINE l == Len(text)
    <3>1. l \in Nat /\ k + 2 <= l
      BY <1>1, <1>2, <2>1
    <3> HIDE DEF l
    <3>2. k < l /\ k + 1 < l /\ k + 1 \in 1 .. l /\ k + 2 \in 1 .. l
      BY <3>1
    <3>3. QED
      BY <3>1, <3>2 DEF l
  <2>4. text[k + 1] = PERCENT /\ text[m] = Conversion /\ PercentsBefore(k + 1) % 2 = 0
    BY <2>1, <2>2, <2>3, Reading
  <2>5. ~TakesArg(k + 1) /\ Piece(k + 1) = <<>> /\ Introduced(m)
    BY <2>2, <2>3, <2>4, PercentAt
  <2>6. TakesArg(m) <=> taken
    BY <2>4, <2>5 DEF TakesArg
  <2>7. Printed
    BY <2>1, <2>3 DEF ExpandInv
  <2> DEFINE P == Pieces'
             T == Taken'
             N == Cardinality(Takers(k))
  <2>8. Len(args') = N + (IF taken THEN 1 ELSE 0)
        /\ \A j \in 1 .. N : args'[j] = args[j]
    BY <2>1, <2>3
  <2>9. /\ FlattenSeq(Prefix(P, k)) = out /\ out \in Seq(Int)
        /\ FlattenSeq(Prefix(T, k)) \in Seq(Int)
        /\ Len(FlattenSeq(Prefix(T, k))) = characters
        /\ \A n \in 1 .. Len(text) :
             /\ P[n] = Piece(n)'
             /\ T[n] = IF TakesArg(n) THEN Piece(n)' ELSE <<>>
    BY <1>1, <2>1, <2>3, <2>7, <2>8, StillPrinted
  <2>10. N \in Nat /\ Cardinality(Takers(k + 1)) = N
         /\ Cardinality(Takers(m)) = N + (IF taken THEN 1 ELSE 0)
    <3>1. N \in Nat /\ Cardinality(Takers(k + 1)) = N
      <4>1. Cardinality(Takers(k + 1)) = N + (IF TakesArg(k + 1) THEN 1 ELSE 0)
        BY TakersNext
      <4>2. N \in Nat
        BY TakersNext
      <4> HIDE DEF N
      <4>3. QED
        BY <2>5, <4>1, <4>2
    <3>2. Cardinality(Takers((k + 1) + 1))
            = Cardinality(Takers(k + 1)) + (IF TakesArg((k + 1) + 1) THEN 1 ELSE 0)
      BY <2>3, TakersNext
    <3>3. (k + 1) + 1 = m
      BY <2>2
    <3>4. QED
      BY <2>6, <3>1, <3>2, <3>3
  <2>11. P[k + 1] = <<>> /\ T[k + 1] = <<>>
    <3>1. PICK l \in Nat : l = k + 1 /\ l \in 1 .. Len(text)
      BY <2>3
    <3>2. ~TakesArg(l) /\ text[l] = PERCENT
      BY <2>4, <2>5, <3>1
    <3>3. ~TakesArg(l)' /\ text'[l] = PERCENT
      BY <3>2, SameText
    <3>4. Piece(l)' = <<>>
      BY <3>3 DEF Piece
    <3>5. P[l] = <<>> /\ T[l] = <<>>
      BY <2>9, <3>1, <3>2, <3>4
    <3>6. QED
      BY <3>1, <3>5
  <2>12. P[m] = s /\ T[m] = s
    <3>1. m \in 1 .. Len(text)
      BY <2>2, <2>3
    <3>2. P[m] = Piece(m)' /\ T[m] = IF TakesArg(m) THEN Piece(m)' ELSE <<>>
      BY <2>9, <3>1
    <3>3. /\ TakesArg(m)' <=> taken
          /\ Introduced(m)' /\ text'[m] = Conversion
          /\ Cardinality(Takers(m))' = Cardinality(Takers(m))
      <4>1. /\ TakesArg(m)' <=> TakesArg(m)
            /\ Introduced(m)' <=> Introduced(m)
            /\ Takers(m)' = Takers(m)
        BY SameText
      <4>2. text' = text
        OBVIOUS
      <4>3. QED
        BY <2>4, <2>5, <2>6, <4>1, <4>2
    <3>4. CASE taken
      <4>1. Cardinality(Takers(m))' = Len(args')
        BY <2>8, <2>10, <3>3, <3>4
      <4>2. Piece(m)' = Shown(text[m], args[Cardinality(Takers(m))])'
        BY <3>3, <3>4 DEF Piece, Takers
      <4>3. Shown(text[m], args[Cardinality(Takers(m))])' = Shown(Conversion, args'[Len(args')])
        <5>1. text'[m] = Conversion /\ args[Cardinality(Takers(m))]' = args'[Len(args')]
          BY <3>3, <4>1
        <5>2. QED
          BY <5>1 DEF Shown
      <4>4. Piece(m)' = s
        BY <3>4, <4>2, <4>3
      <4>5. QED
        BY <2>6, <3>2, <3>4, <4>4
    <3>5. CASE ~taken
      <4>1. Piece(m)' = <<>>
        BY <3>3, <3>5 DEF Piece
      <4>2. s = <<>>
        BY <3>5
      <4>3. QED
        BY <2>6, <3>2, <3>5, <4>1, <4>2
    <3>6. QED
      BY <3>4, <3>5
  <2> HIDE DEF P, T, N
  <2>13. /\ FlattenSeq(Prefix(P, k + 2)) = out \o s
         /\ FlattenSeq(Prefix(P, k + 2)) \in Seq(Int)
    BY <2>2, <2>9, <2>11, <2>12, FlattenTwo
  <2>14. /\ FlattenSeq(Prefix(T, k + 2)) = FlattenSeq(Prefix(T, k)) \o s
         /\ FlattenSeq(Prefix(T, k + 2)) \in Seq(Int)
    BY <2>2, <2>9, <2>11, <2>12, FlattenTwo
  <2>15. Len(FlattenSeq(Prefix(T, k + 2))) = characters'
    <3>1. Len(FlattenSeq(Prefix(T, k)) \o s) = Len(FlattenSeq(Prefix(T, k))) + Len(s)
      BY <2>9, Joined
    <3>2. QED
      BY <2>9, <2>14, <3>1
  <2>16. Len(args') = Cardinality(Takers(m)') + (IF pc' = "number" THEN 1 ELSE 0)
    <3>1. Takers(m)' = Takers(m)
      BY SameText
    <3>2. Len(args') = Cardinality(Takers(m)) + 0
      BY <2>8, <2>10
    <3>3. QED
      BY <3>1, <3>2
  <2>17. i' = m /\ m = k + 2
    BY <1>1, <2>1, <2>2
  <2>18. QED
    BY <2>13, <2>14, <2>15, <2>16, <2>17 DEF Printed, P, T
<1>3. i' <= Len(text') => Printed'
  BY <1>1, <1>2
<1>4. Len(text') <= MaxFormat
  BY DEF ExpandInv
<1>5. QED
  BY <1>3, <1>4 DEF ExpandInv


LEMMA UnknownStep ==
  ASSUME WalkInv, ExpandInv, Unknown
  PROVE  ExpandInv'
<1> DEFINE s == <<>>
<1>1. /\ pc = "walk" /\ at = "idle" /\ Read(i) = PERCENT
      /\ Conversion \notin Numbers \cup {string, char} /\ i' = AfterConversion
      /\ UNCHANGED <<at, text, format, characters, out, args, pc>>
  BY DEF Unknown, Walking, itoaVars
<1>2. args' \in Seq(Argument)
  BY <1>1 DEF ExpandInv
<1>3. ASSUME i <= Len(text)
      PROVE  /\ Len(args') = Cardinality(Takers(i)) + 0
             /\ out \in Seq(Int) /\ characters \in Nat
             /\ \A j \in 1 .. Cardinality(Takers(i)) : args'[j] = args[j]
  BY <1>1, <1>3 DEF ExpandInv, Printed
<1>4. i > Len(text) => ExpandInv'
  <2>1. i \in Nat /\ Len(text) \in Nat /\ i' = i + 2
    BY <1>1 DEF WalkInv, TextInMemory, AfterConversion
  <2>2. i > Len(text) => ~(i' <= Len(text'))
    BY <1>1, <2>1
  <2>3. Len(text') <= MaxFormat /\ pc' = "walk" /\ at' = "idle"
    BY <1>1 DEF ExpandInv
  <2>4. QED
    BY <1>2, <2>2, <2>3 DEF ExpandInv
<1>5. CASE i <= Len(text)
  <2>1. s \in Seq(Int) /\ Len(s) = 0
    OBVIOUS
  <2>2. out' = out \o s /\ characters' = characters + Len(s)
    <3>1. \A t \in Seq(Int) : t \o s = t
      OBVIOUS
    <3> HIDE DEF s
    <3>2. QED
      BY <1>1, <1>3, <1>5, <2>1, <3>1
  <2> DEFINE taken == FALSE
  <2>3. taken \in BOOLEAN /\ (taken <=> Conversion \in Numbers \cup {string, char})
        /\ s = IF taken THEN Shown(Conversion, args'[Len(args')]) ELSE <<>>
    BY <1>1
  <2>4. i <= Len(text) =>
          /\ Len(args') = Cardinality(Takers(i)) + (IF taken THEN 1 ELSE 0)
          /\ \A j \in 1 .. Cardinality(Takers(i)) : args'[j] = args[j]
    BY <1>3
  <2> HIDE DEF s, taken
  <2>5. QED
    BY <1>1, <1>2, <2>1, <2>2, <2>3, <2>4, ConversionStep
<1>6. QED
  <2>1. i \in Nat /\ Len(text) \in Nat
    BY DEF WalkInv, TextInMemory
  <2>2. QED
    BY <1>4, <1>5, <2>1

LEMMA AppendArg ==
  ASSUME NEW a \in Seq(Argument), NEW x \in Argument
  PROVE  /\ Append(a, x) \in Seq(Argument) /\ Len(Append(a, x)) = Len(a) + 1
         /\ Append(a, x)[Len(a) + 1] = x
         /\ \A j \in 1 .. Len(a) : Append(a, x)[j] = a[j]
<1> DEFINE A == Argument
<1> HIDE DEF A
<1>1. \A b \in Seq(A), y \in A : /\ Append(b, y) \in Seq(A) /\ Len(Append(b, y)) = Len(b) + 1
                                 /\ Append(b, y)[Len(b) + 1] = y
                                 /\ \A j \in 1 .. Len(b) : Append(b, y)[j] = b[j]
  OBVIOUS
<1>2. QED
  BY <1>1 DEF A

LEMMA StringStep ==
  ASSUME WalkInv, ExpandInv, String
  PROVE  ExpandInv'
<1>1. /\ pc = "walk" /\ at = "idle" /\ Read(i) = PERCENT
      /\ UNCHANGED <<at, pc>>
  BY DEF String, Walking, itoaVars
<1>2. PICK s : /\ s \in IF Conversion = string THEN Strings
                        ELSE IF Conversion = char THEN {<<c>> : c \in Chars} ELSE {}
               /\ Emit(s) /\ args' = Append(args, s)
  BY DEF String
<1>3. /\ out' = out \o s /\ characters' = characters + Len(s) /\ i' = AfterConversion
      /\ UNCHANGED <<text, format>>
  BY <1>2 DEF Emit
<1>4. Conversion \in {string, char} /\ s \in Seq(Int)
  <2>1. CASE Conversion = string
    <3>1. s \in Seq(1 .. 255)
      BY <1>2, <2>1, FormatAssumption
    <3>2. \A S, T, q : S \subseteq T /\ q \in Seq(S) => q \in Seq(T)
      OBVIOUS
    <3>3. 1 .. 255 \subseteq Int
      OBVIOUS
    <3>4. QED
      BY <2>1, <3>1, <3>2, <3>3
  <2>2. CASE Conversion # string
    <3>1. Conversion = char
      BY <1>2, <2>2
    <3>2. PICK c \in Chars : s = <<c>>
      BY <1>2, <2>2, <3>1
    <3>3. c \in Int
      BY FormatAssumption
    <3>4. QED
      BY <3>1, <3>2, <3>3
  <2>3. QED
    BY <2>1, <2>2
<1>5. args \in Seq(Argument) /\ s \in Argument
  BY <1>4 DEF ExpandInv, Argument
<1>6. /\ args' \in Seq(Argument) /\ Len(args') = Len(args) + 1
      /\ args'[Len(args) + 1] = s
      /\ \A j \in 1 .. Len(args) : args'[j] = args[j]
  BY <1>2, <1>5, AppendArg
<1> DEFINE taken == TRUE
<1>7. taken \in BOOLEAN /\ (taken <=> Conversion \in Numbers \cup {string, char})
  BY <1>4
<1>8. s = Shown(Conversion, args'[Len(args')])
  <2>1. args'[Len(args')] = s
    BY <1>6
  <2>2. Shown(Conversion, s) = s
    BY <1>4 DEF Shown, Signeds, x_upper, string, char
  <2>3. QED
    BY <2>1, <2>2
<1>9. i <= Len(text) =>
        /\ Len(args') = Cardinality(Takers(i)) + (IF taken THEN 1 ELSE 0)
        /\ \A j \in 1 .. Cardinality(Takers(i)) : args'[j] = args[j]
  <2> SUFFICES ASSUME i <= Len(text)
               PROVE  /\ Len(args') = Cardinality(Takers(i)) + 1
                      /\ \A j \in 1 .. Cardinality(Takers(i)) : args'[j] = args[j]
    OBVIOUS
  <2>1. Len(args) = Cardinality(Takers(i)) + 0
    BY <1>1 DEF ExpandInv, Printed
  <2>2. Cardinality(Takers(i)) \in Nat
    <3>1. PICK k \in Nat : k = i
      BY DEF WalkInv, TextInMemory
    <3>2. Cardinality(Takers(k)) \in Nat
      BY TakersNext
    <3>3. QED
      BY <3>1, <3>2
  <2>3. Len(args) = Cardinality(Takers(i))
    BY <2>1, <2>2
  <2>4. QED
    BY <1>6, <2>3
<1>10. s = IF taken THEN Shown(Conversion, args'[Len(args')]) ELSE <<>>
  BY <1>8
<1> HIDE DEF taken
<1>11. pc' = "walk" /\ at' = "idle"
  BY <1>1
<1>12. QED
  BY <1>1, <1>3, <1>4, <1>6, <1>7, <1>9, <1>10, <1>11, ConversionStep


\* What a finished conversion leaves in the buffer shows its argument.
LEMMA ShownNumber ==
  ASSUME ItoaInv, at = "done", Converting
  PROVE  LET s == IF Conversion = x_upper THEN Uppercase(CString(str)) ELSE CString(str)
         IN  s = Shown(Conversion, value) /\ s \in Seq(Int)
<1> DEFINE c == Conversion
           v == value
           half == UINT \div 2
<1>1. /\ c \in Numbers /\ fn = Converter(c) /\ base = BaseOf(c)
      /\ v \in 0 .. UINT - 1 /\ base \in {Decimal, Hex}
  BY Call DEF Converting
<1>2. CString(str) = Sign \o Target
  BY Converted
<1>3. UINT \in Nat /\ half \in Nat /\ v \in Nat /\ v \in 0 .. UINT /\ UINT - v \in 0 .. UINT
  BY <1>1, UintAssumption
<1>4. /\ c \in Signeds => fn = "itoa" /\ base = Decimal
      /\ c \notin Signeds => fn # "itoa"
      /\ c = 117 => base = Decimal
      /\ c \in {x_upper, 112, 120} => base = Hex
  BY <1>1 DEF Converter, BaseOf, Signeds, x_upper
<1>5. Negative <=> c \in Signeds /\ v >= half
  BY <1>4 DEF Negative, Signed
<1>6. \A t \in Seq(Int) : <<>> \o t = t
  OBVIOUS
<1>7. \A n \in 0 .. UINT, b \in {Decimal, Hex} : Numeral(n, b, 97) \in Seq(Int)
  BY NumeralSeq
<1>8. ~Negative => CString(str) = Numeral(v, base, 97) /\ CString(str) \in Seq(Int)
  BY <1>1, <1>2, <1>3, <1>6, <1>7 DEF Sign, Target, Magnitude
<1>9. Negative => /\ CString(str) = <<MINUS>> \o Numeral(UINT - v, base, 97)
                  /\ CString(str) \in Seq(Int)
  <2> SUFFICES ASSUME Negative
               PROVE  /\ CString(str) = <<MINUS>> \o Numeral(UINT - v, base, 97)
                      /\ CString(str) \in Seq(Int)
    OBVIOUS
  <2>1. CString(str) = <<MINUS>> \o Numeral(UINT - v, base, 97)
    BY <1>2 DEF Sign, Target, Magnitude
  <2>2. <<MINUS>> \in Seq(Int) /\ Numeral(UINT - v, base, 97) \in Seq(Int)
    BY <1>1, <1>3, <1>7 DEF MINUS
  <2>3. QED
    BY <2>1, <2>2, Joined
<1>10. CASE c \in Signeds
  <2>1. c # x_upper
    BY <1>10 DEF Signeds, x_upper
  <2>2. Shown(c, v) = IF v < half THEN Numeral(v, Decimal, 97)
                      ELSE <<MINUS>> \o Numeral(UINT - v, Decimal, 97)
    BY <1>10 DEF Shown, Signeds, x_upper
  <2>3. v < half <=> ~Negative
    <3> HIDE DEF v, half
    <3>1. QED
      BY <1>3, <1>5, <1>10
  <2>4. QED
    BY <1>4, <1>8, <1>9, <1>10, <2>1, <2>2, <2>3
<1>11. CASE c = 117
  <2>1. c # x_upper /\ c \notin Signeds
    BY <1>11 DEF Signeds, x_upper
  <2>2. Shown(c, v) = Numeral(v, Decimal, 97)
    BY <1>11, <2>1 DEF Shown, x_upper
  <2>3. QED
    BY <1>4, <1>5, <1>8, <1>11, <2>1, <2>2
<1>12. CASE c = x_upper
  <2>1. c \notin Signeds /\ c \in {x_upper, 112, 120}
    BY <1>12 DEF Signeds, x_upper
  <2>2. Shown(c, v) = Numeral(v, Hex, 65)
    BY <1>12, <2>1 DEF Shown, x_upper
  <2>3. Uppercase(CString(str)) = Numeral(v, Hex, 65)
    BY <1>3, <1>4, <1>5, <1>8, <2>1, NumeralUpper
  <2>4. Numeral(v, Hex, 65) \in Seq(Int)
    <3>1. Numeral(v, Hex, 65) \in Seq(Characters)
      BY <1>3, NumeralType
    <3>2. \A S, T, q : S \subseteq T /\ q \in Seq(S) => q \in Seq(T)
      OBVIOUS
    <3>3. Characters \subseteq Int
      BY DEF Characters
    <3>4. QED
      BY <3>1, <3>2, <3>3
  <2>5. QED
    BY <1>12, <2>2, <2>3, <2>4
<1>13. CASE c \in {112, 120}
  <2>1. c # x_upper /\ c \notin Signeds /\ c # 117 /\ c \in {x_upper, 112, 120}
    BY <1>13 DEF Signeds, x_upper
  <2>2. Shown(c, v) = Numeral(v, Hex, 97)
    BY <1>13, <2>1 DEF Shown, x_upper
  <2>3. QED
    BY <1>4, <1>5, <1>8, <2>1, <2>2
<1>14. QED
  BY <1>1, <1>10, <1>11, <1>12, <1>13 DEF Numbers

LEMMA NumberStep ==
  ASSUME WalkInv, ExpandInv, Number
  PROVE  ExpandInv' /\ ItoaInv'
<1>1. /\ pc = "walk" /\ at = "idle" /\ Conversion \in Numbers /\ pc' = "number"
      /\ UNCHANGED <<text, format, i, characters, out>>
  BY DEF Number, Walking
<1>2. PICK v \in Values[Len(text)] :
        /\ Convert(Converter(Conversion), v, BaseOf(Conversion))
        /\ args' = Append(args, v)
  BY DEF Number
<1>3. Len(text) \in 0 .. MaxFormat /\ i \in Nat /\ text \in Seq(Chars)
  BY FormatAssumption DEF WalkInv, TextInMemory, ExpandInv
<1>4. v \in 0 .. UINT - 1 /\ v \in Int
  BY <1>2, <1>3, FormatAssumption, UintAssumption
<1>5. BaseOf(Conversion) \in {Decimal, Hex}
  BY DEF BaseOf
<1>6. ItoaInv'
  BY <1>2, <1>4, <1>5, ConvertInv
<1>7. fn' = Converter(Conversion) /\ value' = v /\ base' = BaseOf(Conversion)
      /\ at' = "digits"
  BY <1>2 DEF Convert
<1>8. args \in Seq(Argument) /\ v \in Argument
  BY <1>4 DEF ExpandInv, Argument
<1>9. /\ args' \in Seq(Argument) /\ Len(args') = Len(args) + 1
      /\ args'[Len(args) + 1] = v /\ Len(args) \in Nat
      /\ \A j \in 1 .. Len(args) : args'[j] = args[j]
  BY <1>2, <1>8, AppendArg
<1>10. Converting'
  <2>1. Conversion' = Conversion
    BY <1>1 DEF Conversion, Read
  <2>2. Len(args') >= 1 /\ args'[Len(args')] = value'
    BY <1>7, <1>9
  <2>3. QED
    BY <1>1, <1>7, <2>1, <2>2 DEF Converting
<1>11. ASSUME i <= Len(text)
       PROVE  Printed'
  <2>1. PICK k \in Nat : k = i
    BY <1>3
  <2> DEFINE P == Pieces'
             T == Taken'
             N == Cardinality(Takers(k))
  <2>2. Printed /\ N \in Nat
    BY <1>11, TakersNext DEF ExpandInv
  <2>3. Len(args) = N
    <3>1. Len(args) = N + 0
      BY <1>1, <2>1, <2>2 DEF Printed
    <3>2. QED
      BY <2>2, <3>1
  <2>4. \A j \in 1 .. N : args'[j] = args[j]
    BY <1>9, <2>3
  <2>5. /\ FlattenSeq(Prefix(P, k)) = out /\ out \in Seq(Int)
        /\ FlattenSeq(Prefix(T, k)) \in Seq(Int)
        /\ Len(FlattenSeq(Prefix(T, k))) = characters
    BY <1>1, <1>3, <1>11, <2>1, <2>2, <2>4, StillPrinted
  <2>6. Takers(k)' = Takers(k)
    BY <1>1, SameText
  <2>7. Len(args') = Cardinality(Takers(k)') + (IF pc' = "number" THEN 1 ELSE 0)
    BY <1>1, <1>9, <2>3, <2>6
  <2> HIDE DEF P, T, N
  <2>8. QED
    BY <1>1, <2>1, <2>5, <2>7 DEF Printed, P, T
<1>12. QED
  BY <1>1, <1>3, <1>6, <1>7, <1>9, <1>10, <1>11 DEF ExpandInv

LEMMA PrintNumberStep ==
  ASSUME WalkInv, ItoaInv, ExpandInv, PrintNumber
  PROVE  ExpandInv'
<1> DEFINE s == IF Conversion = x_upper THEN Uppercase(CString(str)) ELSE CString(str)
<1>1. /\ pc = "number" /\ at = "done" /\ at' = "idle" /\ pc' = "walk"
      /\ UNCHANGED <<args, text, format>> /\ i' = AfterConversion
      /\ out' = out \o s /\ characters' = characters + Len(s)
  BY DEF PrintNumber, Emit
<1>2. Read(i) = PERCENT /\ Converting /\ args \in Seq(Argument)
  BY <1>1 DEF WalkInv, ExpandInv
<1>3. s = Shown(Conversion, value) /\ s \in Seq(Int)
  BY <1>1, <1>2, ShownNumber
<1> HIDE DEF s
<1> DEFINE taken == TRUE
<1>4. taken \in BOOLEAN /\ (taken <=> Conversion \in Numbers \cup {string, char})
  BY <1>2 DEF Converting
<1>5. s = IF taken THEN Shown(Conversion, args'[Len(args')]) ELSE <<>>
  BY <1>1, <1>2, <1>3 DEF Converting
<1>6. i <= Len(text) =>
        /\ Len(args') = Cardinality(Takers(i)) + (IF taken THEN 1 ELSE 0)
        /\ \A j \in 1 .. Cardinality(Takers(i)) : args'[j] = args[j]
  BY <1>1 DEF ExpandInv, Printed
<1> HIDE DEF taken
<1>7. QED
  BY <1>1, <1>2, <1>3, <1>4, <1>5, <1>6, ConversionStep

\* What the walk has printed and how it came to it stay the same.
LEMMA SamePrinted ==
  ASSUME ExpandInv, UNCHANGED <<text, format, i, characters, out, args, fn, value, base>>,
         pc' \in {"walk", "number", "done"}, pc' = "number" <=> pc = "number",
         pc' = "number" <=> at' # "idle", pc' = "done" => Read(i) = NUL
  PROVE  ExpandInv'
<1>1. Read(i)' = Read(i) /\ Conversion' = Conversion
  BY DEF Read, Conversion
<1>2. Converting' <=> Converting
  BY <1>1 DEF Converting
<1>3. Printed' <=> Printed
  <2>1. Pieces' = Pieces /\ Taken' = Taken /\ Takers(i)' = Takers(i)
    BY DEF Pieces, Taken, Takers, Piece, TakesArg, Introduced, PercentsBefore, Shown
  <2>2. QED
    BY <2>1 DEF Printed
<1>4. QED
  BY <1>1, <1>2, <1>3 DEF ExpandInv

\* The inductive invariant.
Inv == WalkInv /\ ItoaInv /\ ExpandInv

LEMMA NextInv == Inv /\ [Next]_vars => Inv'
<1> SUFFICES ASSUME Inv, [Next]_vars
             PROVE  Inv'
  OBVIOUS
<1>1. WalkInv'
  BY NextWalkInv DEF Inv
<1>2. ASSUME UNCHANGED itoaVars
      PROVE  ItoaInv'
  BY <1>2 DEF Inv, itoaVars, ItoaInv, Negative, Skip, Writing, Exchanging, Target, Magnitude
<1>3. CASE Plain
  BY <1>1, <1>2, <1>3, PlainStep DEF Inv, Plain
<1>4. CASE Unknown
  BY <1>1, <1>2, <1>4, UnknownStep DEF Inv, Unknown
<1>5. CASE String
  BY <1>1, <1>2, <1>5, StringStep DEF Inv, String
<1>6. CASE Number
  BY <1>1, <1>6, NumberStep DEF Inv
<1>7. CASE PrintNumber
  <2>1. ItoaInv'
    BY <1>7 DEF PrintNumber, ItoaInv
  <2>2. QED
    BY <1>1, <1>7, <2>1, PrintNumberStep DEF Inv
<1>8. CASE End
  <2>1. /\ pc = "walk" /\ at = "idle" /\ pc' = "done" /\ Read(i) = NUL
        /\ UNCHANGED <<itoaVars, text, format, i, characters, out, args>>
    BY <1>8 DEF End, Walking
  <2>2. ItoaInv' /\ at' = at /\ UNCHANGED <<fn, value, base>>
    BY <1>2, <2>1 DEF itoaVars
  <2>3. ExpandInv'
    BY <2>1, <2>2, SamePrinted DEF Inv
  <2>4. QED
    BY <1>1, <2>2, <2>3 DEF Inv
<1>9. CASE ItoaStep /\ UNCHANGED <<text, format, i, characters, out, args, pc>>
  <2>1. ItoaInv'
    BY <1>9, ItoaStepInv DEF Inv
  <2>2. at # "idle" /\ at' # "idle" /\ UNCHANGED <<fn, value, base>>
    BY <1>9 DEF ItoaStep, Digit, Terminate, Swap, Return
  <2>3. pc = "number" /\ pc' = "number"
    BY <1>9, <2>2 DEF Inv, ExpandInv
  <2>4. ExpandInv'
    BY <1>9, <2>2, <2>3, SamePrinted DEF Inv
  <2>5. QED
    BY <1>1, <2>1, <2>4 DEF Inv
<1>10. CASE UNCHANGED vars
  <2>1. UNCHANGED itoaVars /\ UNCHANGED <<text, format, i, characters, out, args, pc>>
    BY <1>10 DEF vars
  <2>2. ItoaInv' /\ UNCHANGED <<fn, value, base, at>>
    BY <1>2, <2>1 DEF itoaVars
  <2>3. ExpandInv'
    <3>1. /\ pc \in {"walk", "number", "done"} /\ (pc = "number" <=> at # "idle")
          /\ pc = "done" => Read(i) = NUL
      BY DEF Inv, ExpandInv
    <3>2. QED
      BY <2>1, <2>2, <3>1, SamePrinted DEF Inv
  <2>4. QED
    BY <1>1, <2>2, <2>3 DEF Inv
<1>11. QED
  BY <1>3, <1>4, <1>5, <1>6, <1>7, <1>8, <1>9, <1>10 DEF Next

LEMMA InvExpansion == Inv => PrintsExpansion
<1> SUFFICES ASSUME Inv, pc = "done", ~Unfinished
             PROVE  /\ out = FlattenSeq(Pieces)
                    /\ characters = Len(FlattenSeq(Taken))
  BY DEF PrintsExpansion, Pieces, Taken
<1>1. i <= Len(text) /\ i \in Nat /\ Len(text) \in Nat /\ text \in Seq(Chars)
  BY DEF Inv, WalkInv, TextInMemory, Paired
<1>2. Read(i) = NUL /\ Printed
  BY <1>1 DEF Inv, ExpandInv
<1>3. i = Len(text)
  <2> SUFFICES ASSUME i < Len(text)
               PROVE  FALSE
    BY <1>1
  <2>1. Read(i) \in Chars /\ Chars \subseteq 1 .. 127
    BY <1>1, Reading DEF Inv
  <2>2. QED
    BY <1>2, <2>1 DEF NUL
<1>4. Prefix(Pieces, Len(text)) = Pieces /\ Prefix(Taken, Len(text)) = Taken
  <2>1. DOMAIN text = 1 .. Len(text)
    BY <1>1
  <2>2. QED
    BY <2>1 DEF Prefix, Pieces, Taken
<1>5. QED
  BY <1>2, <1>3, <1>4 DEF Printed

\* For every format that is not left unfinished, with any arguments, printf
\* prints the format with each conversion in place of its argument, every number
\* by its numeral and the smallest int included, and returns how many characters
\* its conversions printed.
THEOREM SpecPrintsExpansion == Spec => []PrintsExpansion
<1>1. Init => Inv
  <2>1. Init => ItoaInv
    BY DEF Init, ItoaInit, ItoaInv
  <2>2. QED
    BY <2>1, InitWalkInv, InitExpandInv DEF Inv
<1>2. QED
  BY <1>1, NextInv, InvExpansion, PTL DEF Spec
=============================================================================
