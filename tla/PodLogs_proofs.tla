--------------------------- MODULE PodLogs_proofs ---------------------------
(***************************************************************************)
(* Proofs about the log view, for any length of the log, any number of     *)
(* lines sent and any column: the view has the lines received, the n-th    *)
(* column is found, and a longer log is shown with what was there before.  *)
(***************************************************************************)
EXTENDS PodLogs, FiniteSetTheorems, SequenceTheorems, TLAPS

-----------------------------------------------------------------------------
(***************************************************************************)
(* Induction, as a fact about sets of numbers, and the functions that it   *)
(* defines.                                                                *)
(***************************************************************************)
\* A set of numbers that is not empty has a least member.
LEMMA Least ==
  ASSUME NEW T \in SUBSET Nat, T # {}
  PROVE  \E n \in T : \A m \in T : n <= m
<1> DEFINE R == OpToRel(<, Nat)
<1>1. IsWellFoundedOn(R, Nat)
  BY NatLessThanWellFounded
<1>2. \A m, n \in Nat : << m, n >> \in R <=> m < n
  BY DEF OpToRel
<1> HIDE DEF R
<1>3. \E n \in T : \A m \in T : ~(<< m, n >> \in R)
  BY <1>1, WFMin
<1>4. PICK n \in T : \A m \in T : ~(<< m, n >> \in R)
  BY <1>3
<1>5. \A m \in T : m \in Nat /\ n \in Nat /\ ~(m < n)
  BY <1>2, <1>4, Zenon
<1> QED
  BY <1>5

\* What holds of 0, and of a position when it holds of the one before it, holds
\* of each position up to the last one.
LEMMA Induction ==
  ASSUME NEW N \in Nat, NEW T,
         0 \in T, \A k \in 1 .. N : k - 1 \in T => k \in T
  PROVE  \A k \in 0 .. N : k \in T
<1> SUFFICES ASSUME (0 .. N) \ T # {}
             PROVE  FALSE
  OBVIOUS
<1>1. (0 .. N) \ T \in SUBSET Nat
  OBVIOUS
<1>2. PICK n \in (0 .. N) \ T : \A m \in (0 .. N) \ T : n <= m
  BY <1>1, Least
<1>3. n # 0 /\ n \in 1 .. N /\ n - 1 \in 0 .. N
  BY <1>2
<1>4. n - 1 \in T
  BY <1>2, <1>3
<1> QED
  BY <1>2, <1>3, <1>4

Follows(f, a, step, n) ==
  f[0] = a /\ \A k \in 1 .. n : f[k] = step[<< k, f[k - 1] >>]

\* A first value and a step from each value to the next one define a function.
LEMMA Recursion ==
  ASSUME NEW N \in Nat, NEW A, NEW a \in A, NEW step \in [(1 .. N) \X A -> A]
  PROVE  \E f \in [0 .. N -> A] : Follows(f, a, step, N)
<1> DEFINE T == {n \in 0 .. N : \E f \in [0 .. n -> A] : Follows(f, a, step, n)}
<1>1. 0 \in T
  <2>1. [k \in 0 .. 0 |-> a] \in [0 .. 0 -> A] /\ Follows([k \in 0 .. 0 |-> a], a, step, 0)
    BY DEF Follows
  <2> QED
    BY <2>1
<1>2. ASSUME NEW n \in 1 .. N, n - 1 \in T
      PROVE  n \in T
  <2>1. PICK f \in [0 .. n - 1 -> A] : Follows(f, a, step, n - 1)
    BY <1>2
  <2> DEFINE g == [k \in 0 .. n |-> IF k = n THEN step[<< n, f[n - 1] >>] ELSE f[k]]
  <2>2. f[n - 1] \in A
    BY <2>1
  <2>3. step[<< n, f[n - 1] >>] \in A
    BY <2>2
  <2>4. \A k \in 0 .. n : k # n => k \in 0 .. n - 1
    OBVIOUS
  <2>5. g \in [0 .. n -> A]
    BY <2>1, <2>3, <2>4
  <2>6. g[n] = step[<< n, f[n - 1] >>] /\ \A k \in 0 .. n - 1 : g[k] = f[k]
    OBVIOUS
  <2>7. \A k \in 1 .. n : k - 1 \in 0 .. n - 1 /\ (k # n => k \in 1 .. n - 1 /\ k \in 0 .. n - 1)
    OBVIOUS
  <2> HIDE DEF g
  <2>8. g[0] = a
    BY <2>1, <2>6, 0 \in 0 .. n - 1 DEF Follows
  <2>9. ASSUME NEW k \in 1 .. n
        PROVE  g[k] = step[<< k, g[k - 1] >>]
    BY <2>1, <2>6, <2>7 DEF Follows
  <2> QED
    BY <2>5, <2>8, <2>9 DEF Follows
<1>3. N \in T
  <2> HIDE DEF T
  <2>1. \A k \in 0 .. N : k \in T
    BY <1>1, <1>2, Induction
  <2> QED
    BY <2>1
<1> QED
  BY <1>3

-----------------------------------------------------------------------------
(***************************************************************************)
(* Lines.                                                                  *)
(***************************************************************************)
Text     == Chars \ {"newline"}
Progress == [done : Seq(Seq(Text)), open : Seq(Text)]

Started == [done |-> << >>, open |-> << >>]
Read(was, c) ==
  IF c = "newline" THEN [done |-> Append(was.done, was.open), open |-> << >>]
  ELSE [done |-> was.done, open |-> Append(was.open, c)]

\* Reading one more character keeps the lines typed.
LEMMA ReadsOn ==
  ASSUME NEW was \in Progress, NEW c \in Chars
  PROVE  Read(was, c) \in Progress
<1>1. was.done \in Seq(Seq(Text)) /\ was.open \in Seq(Text)
  BY DEF Progress
<1>2. CASE c = "newline"
  <2>1. Append(was.done, was.open) \in Seq(Seq(Text)) /\ << >> \in Seq(Text)
    BY <1>1, AppendProperties
  <2> QED
    BY <1>2, <2>1 DEF Read, Progress
<1>3. CASE c # "newline"
  <2>1. c \in Text
    BY <1>3 DEF Text
  <2>2. Append(was.open, c) \in Seq(Text)
    BY <1>1, <2>1, AppendProperties
  <2> QED
    BY <1>1, <1>3, <2>2 DEF Read, Progress
<1> QED
  BY <1>2, <1>3

\* The loop over the text, as the equations it satisfies.
LEMMA SplitEquations ==
  ASSUME NEW text \in Seq(Chars)
  PROVE  /\ Split(text) \in [0 .. Len(text) -> Progress]
         /\ Split(text)[0] = Started
         /\ \A k \in 1 .. Len(text) : Split(text)[k] = Read(Split(text)[k - 1], text[k])
<1> DEFINE N == Len(text)
           Is(f) == f = [k \in 0 .. N |-> IF k = 0 THEN Started ELSE Read(f[k - 1], text[k])]
           step == [x \in (1 .. N) \X Progress |-> Read(x[2], text[x[1]])]
<1>1. N \in Nat /\ \A k \in 1 .. N : text[k] \in Chars
  BY LenProperties
<1>2. Started \in Progress
  BY DEF Started, Progress
<1>3. step \in [(1 .. N) \X Progress -> Progress]
  BY <1>1, ReadsOn
<1>4. \A k \in 1 .. N, was \in Progress : step[<< k, was >>] = Read(was, text[k])
  OBVIOUS
<1> HIDE DEF step, N
<1>5. PICK f \in [0 .. N -> Progress] : Follows(f, Started, step, N)
  BY <1>1, <1>2, <1>3, Recursion
<1>6. \A k \in 1 .. N : k \in 0 .. N /\ k - 1 \in 0 .. N /\ k # 0
  BY <1>1
<1>7. \A k \in 1 .. N : f[k] = Read(f[k - 1], text[k])
  BY <1>4, <1>5, <1>6 DEF Follows
<1>8. Is(f)
  BY <1>1, <1>5, <1>7 DEF Follows
<1>9. Split(text) = CHOOSE g : Is(g)
  BY DEF Split, Read, Started, N
<1>10. Is(Split(text))
  BY <1>8, <1>9
<1> HIDE DEF Is
<1>11. PICK g : g = Split(text) /\ Is(g)
  BY <1>10
<1>12. /\ g = [k \in 0 .. N |-> g[k]]
       /\ g[0] = Started /\ \A k \in 1 .. N : g[k] = Read(g[k - 1], text[k])
  BY <1>1, <1>6, <1>11 DEF Is
<1> DEFINE T == {k \in 0 .. N : g[k] \in Progress}
<1>13. 0 \in T
  BY <1>1, <1>2, <1>12
<1>14. \A k \in 1 .. N : k - 1 \in T => k \in T
  BY <1>1, <1>6, <1>12, ReadsOn
<1>15. \A k \in 0 .. N : k \in T
  <2> HIDE DEF T
  <2> QED
    BY <1>1, <1>13, <1>14, Induction
<1>16. \A k \in 0 .. N : g[k] \in Progress
  BY <1>15
<1> QED
  BY <1>11, <1>12, <1>16 DEF N

\* The lines of a text contain no newline.
LEMMA LinesType ==
  ASSUME NEW text \in Seq(Chars)
  PROVE  Lines(text) \in Seq(Seq(Text))
<1> DEFINE end == Split(text)[Len(text)]
<1>1. end \in Progress
  BY SplitEquations, LenProperties
<1>2. end.done \in Seq(Seq(Text)) /\ end.open \in Seq(Text)
  BY <1>1 DEF Progress
<1>3. << >> \in Seq(Seq(Text)) /\ << end.open >> \in Seq(Seq(Text))
  BY <1>2
<1> HIDE DEF end
<1>4. end.done \o (IF end.open = << >> THEN << >> ELSE << end.open >>) \in Seq(Seq(Text))
  BY <1>2, <1>3, ConcatProperties
<1> QED
  BY <1>4 DEF Lines, end

\* The lines of a text as its last position leaves them.
LEMMA LinesAre ==
  ASSUME NEW text \in Seq(Chars)
  PROVE  LET end == Split(text)[Len(text)]
         IN  /\ end \in Progress
             /\ end.open = << >> => Len(Lines(text)) = Len(end.done)
             /\ end.open # << >> => Len(Lines(text)) = Len(end.done) + 1
             /\ \A i \in 1 .. Len(end.done) : Lines(text)[i] = end.done[i]
<1> DEFINE end == Split(text)[Len(text)]
           rest == IF end.open = << >> THEN << >> ELSE << end.open >>
<1>1. end \in Progress
  BY SplitEquations, LenProperties
<1>2. end.done \in Seq(Seq(Text)) /\ end.open \in Seq(Text)
  BY <1>1 DEF Progress
<1>3. rest \in Seq(Seq(Text)) /\ Len(rest) = IF end.open = << >> THEN 0 ELSE 1
  BY <1>2
<1>4. Lines(text) = end.done \o rest
  BY DEF Lines
<1>5. Len(end.done) \in Nat /\ Len(rest) \in Nat
  BY <1>2, <1>3, LenProperties
<1> HIDE DEF end, rest
<1>6. /\ Len(Lines(text)) = Len(end.done) + Len(rest)
      /\ \A i \in 1 .. Len(end.done) : Lines(text)[i] = end.done[i]
  <2>1. /\ Len(end.done \o rest) = Len(end.done) + Len(rest)
        /\ \A i \in 1 .. Len(end.done) + Len(rest) : (end.done \o rest)[i] =
             IF i <= Len(end.done) THEN end.done[i] ELSE rest[i - Len(end.done)]
    BY <1>2, <1>3, ConcatProperties
  <2>2. \A i \in 1 .. Len(end.done) : i \in 1 .. Len(end.done) + Len(rest) /\ i <= Len(end.done)
    BY <1>5
  <2> QED
    BY <1>4, <2>1, <2>2
<1>7. /\ end.open = << >> => Len(Lines(text)) = Len(end.done)
      /\ end.open # << >> => Len(Lines(text)) = Len(end.done) + 1
  <2>1. /\ end.open = << >> => Len(rest) = 0
        /\ end.open # << >> => Len(rest) = 1
    BY <1>3
  <2>2. Len(rest) = 0 => Len(end.done) + Len(rest) = Len(end.done)
    BY <1>5
  <2> QED
    BY <1>6, <2>1, <2>2
<1> QED
  BY <1>1, <1>6, <1>7 DEF end

\* One more character ends no line that was ended before, and loses none.
Extends(now, was) ==
  /\ Len(was.done) <= Len(now.done)
  /\ \A i \in 1 .. Len(was.done) : now.done[i] = was.done[i]
  /\ was.open # << >> => Len(was.done) < Len(now.done) \/ now.open # << >>

LEMMA ReadExtends ==
  ASSUME NEW was \in Progress, NEW now \in Progress, Extends(now, was), NEW c \in Chars
  PROVE  Extends(Read(now, c), was)
<1>1. /\ was.done \in Seq(Seq(Text)) /\ was.open \in Seq(Text)
      /\ now.done \in Seq(Seq(Text)) /\ now.open \in Seq(Text)
  BY DEF Progress
<1>2. Len(was.done) \in Nat /\ Len(now.done) \in Nat
  BY <1>1, LenProperties
<1>3. CASE c = "newline"
  <2>1. Read(now, c).done = Append(now.done, now.open)
    BY <1>3 DEF Read
  <2>2. /\ Len(Read(now, c).done) = Len(now.done) + 1
        /\ \A i \in 1 .. Len(now.done) : Read(now, c).done[i] = now.done[i]
    BY <1>1, <2>1, AppendProperties
  <2> QED
    BY <1>2, <2>2 DEF Extends
<1>4. CASE c # "newline"
  <2>1. Read(now, c).done = now.done /\ Read(now, c).open = Append(now.open, c)
    BY <1>4 DEF Read
  <2>2. c \in Text
    BY <1>4 DEF Text
  <2>3. Read(now, c).open # << >>
    BY <1>1, <2>1, <2>2, AppendProperties
  <2> QED
    BY <2>1, <2>3 DEF Extends
<1> QED
  BY <1>3, <1>4

\* A longer text has the lines of the shorter one, but for its last line.
LEMMA LinesExtend ==
  ASSUME NEW short \in Seq(Chars), NEW long \in Seq(Chars), IsPrefix(short, long)
  PROVE  /\ Len(Lines(short)) <= Len(Lines(long))
         /\ \A i \in 1 .. Len(Lines(short)) - 1 : Lines(short)[i] = Lines(long)[i]
<1> DEFINE m == Len(short)
           n == Len(long)
           f == Split(short)
           g == Split(long)
<1>1. m \in Nat /\ n \in Nat /\ m <= n
  BY LenProperties DEF IsPrefix
<1>2. ASSUME NEW i \in 1 .. m
      PROVE  i \in 1 .. n /\ short[i] = long[i] /\ short[i] \in Chars
  <2>1. SubSeq(short, 1, m)[i] = short[i] /\ SubSeq(long, 1, m)[i] = long[i]
    BY <1>1
  <2> QED
    BY <1>1, <2>1 DEF IsPrefix
<1>3. /\ f \in [0 .. m -> Progress] /\ f[0] = Started
      /\ \A k \in 1 .. m : f[k] = Read(f[k - 1], short[k])
      /\ g \in [0 .. n -> Progress] /\ g[0] = Started
      /\ \A k \in 1 .. n : g[k] = Read(g[k - 1], long[k])
  BY SplitEquations
<1>4. \A k \in 1 .. n : long[k] \in Chars
  BY LenProperties
<1> HIDE DEF m, n, f, g
<1>5. f[m] = g[m]
  <2> DEFINE T == {k \in 0 .. m : f[k] = g[k]}
  <2>1. 0 \in T
    BY <1>1, <1>3
  <2>2. ASSUME NEW k \in 1 .. m, k - 1 \in T
        PROVE  k \in T
    <3>1. k \in 1 .. n /\ k \in 0 .. m /\ f[k - 1] = g[k - 1]
      BY <1>1, <2>2
    <3>2. f[k] = Read(f[k - 1], short[k])
      BY <1>3
    <3>3. g[k] = Read(g[k - 1], long[k])
      BY <1>3, <3>1
    <3> QED
      BY <1>2, <3>1, <3>2, <3>3
  <2>3. \A k \in 0 .. m : k \in T
    <3> HIDE DEF T
    <3> QED
      BY <1>1, <2>1, <2>2, Induction
  <2> QED
    BY <1>1, <2>3
<1>6. Extends(g[n], g[m])
  <2> DEFINE T == {k \in 0 .. n : k >= m => Extends(g[k], g[m])}
  <2>1. g[m] \in Progress
    BY <1>1, <1>3
  <2>2. Len(g[m].done) \in Nat
    BY <2>1, LenProperties DEF Progress
  <2>3. Extends(g[m], g[m])
    BY <2>2 DEF Extends
  <2>4. 0 \in T
    BY <1>1, <2>3
  <2>5. ASSUME NEW k \in 1 .. n, k - 1 \in T
        PROVE  k \in T
    <3>1. CASE k - 1 >= m
      <4>1. Extends(g[k - 1], g[m]) /\ g[k - 1] \in Progress
        BY <1>1, <1>3, <2>5, <3>1
      <4>2. Extends(g[k], g[m])
        BY <1>3, <1>4, <2>1, <4>1, ReadExtends
      <4> QED
        BY <1>1, <4>2
    <3>2. CASE k = m
      BY <1>1, <2>3, <3>2
    <3>3. CASE k < m
      BY <1>1, <3>3
    <3> QED
      BY <1>1, <3>1, <3>2, <3>3
  <2>6. \A k \in 0 .. n : k \in T
    <3> HIDE DEF T
    <3> QED
      BY <1>1, <2>4, <2>5, Induction
  <2> QED
    BY <1>1, <2>6
<1>7. /\ f[m] \in Progress
      /\ f[m].open = << >> => Len(Lines(short)) = Len(f[m].done)
      /\ f[m].open # << >> => Len(Lines(short)) = Len(f[m].done) + 1
      /\ \A i \in 1 .. Len(f[m].done) : Lines(short)[i] = f[m].done[i]
  BY LinesAre DEF f, m
<1>8. /\ g[n] \in Progress
      /\ g[n].open = << >> => Len(Lines(long)) = Len(g[n].done)
      /\ g[n].open # << >> => Len(Lines(long)) = Len(g[n].done) + 1
      /\ \A i \in 1 .. Len(g[n].done) : Lines(long)[i] = g[n].done[i]
  BY LinesAre DEF g, n
<1>9. Len(f[m].done) \in Nat /\ Len(g[n].done) \in Nat
  BY <1>7, <1>8, LenProperties DEF Progress
<1>10. Extends(g[n], f[m])
  BY <1>5, <1>6
<1>11. /\ Len(f[m].done) <= Len(g[n].done)
       /\ \A i \in 1 .. Len(f[m].done) : g[n].done[i] = f[m].done[i]
       /\ f[m].open # << >> => Len(f[m].done) < Len(g[n].done) \/ g[n].open # << >>
  BY <1>10 DEF Extends
<1>12. Len(Lines(short)) <= Len(Lines(long))
  <2>1. CASE f[m].open = << >>
    BY <1>7, <1>8, <1>9, <1>11, <2>1
  <2>2. CASE f[m].open # << >>
    BY <1>7, <1>8, <1>9, <1>11, <2>2
  <2> QED
    BY <2>1, <2>2
<1>13. ASSUME NEW i \in 1 .. Len(Lines(short)) - 1
       PROVE  Lines(short)[i] = Lines(long)[i]
  <2>1. Len(Lines(short)) <= Len(f[m].done) + 1 /\ Len(Lines(short)) \in Nat
    BY <1>7, <1>9
  <2>2. i \in 1 .. Len(f[m].done) /\ i \in 1 .. Len(g[n].done)
    BY <1>9, <1>11, <2>1
  <2> QED
    BY <1>7, <1>8, <1>11, <2>2
<1> QED
  BY <1>12, <1>13

-----------------------------------------------------------------------------
(***************************************************************************)
(* The view as the concatenation of what each line yields.                 *)
(***************************************************************************)
\* The concatenations of the first parts, of which FlattenSeq is the last.
LEMMA FlattenEquations ==
  ASSUME NEW X, NEW parts \in Seq(Seq(X))
  PROVE  \E f \in [0 .. Len(parts) -> Seq(X)] :
           /\ f[0] = << >>
           /\ \A k \in 1 .. Len(parts) : f[k] = f[k - 1] \o parts[k]
           /\ FlattenSeq(parts) = f[Len(parts)]
<1> DEFINE N == Len(parts)
           Is(g) == g = [i \in 1 .. N |-> IF i = 1 THEN parts[i] ELSE g[i - 1] \o parts[i]]
           step == [x \in (1 .. N) \X Seq(X) |-> x[2] \o parts[x[1]]]
<1>1. N \in Nat /\ \A k \in 1 .. N : parts[k] \in Seq(X)
  BY LenProperties
<1>2. << >> \in Seq(X)
  OBVIOUS
<1>3. \A k \in 1 .. N, was \in Seq(X) : was \o parts[k] \in Seq(X)
  BY <1>1, ConcatProperties
<1>4. step \in [(1 .. N) \X Seq(X) -> Seq(X)]
  BY <1>3
<1>5. \A k \in 1 .. N, was \in Seq(X) : step[<< k, was >>] = was \o parts[k]
  OBVIOUS
<1>6. FlattenSeq(parts) = IF N = 0 THEN parts ELSE (CHOOSE g : Is(g))[N]
  BY DEF FlattenSeq
<1> HIDE DEF step, N
<1>7. PICK f \in [0 .. N -> Seq(X)] : Follows(f, << >>, step, N)
  BY <1>1, <1>2, <1>4, Recursion
<1>8. \A k \in 1 .. N : k \in 0 .. N /\ k - 1 \in 0 .. N /\ k # 0
  BY <1>1
<1>9. f[0] = << >> /\ \A k \in 1 .. N : f[k] = f[k - 1] \o parts[k]
  BY <1>5, <1>7, <1>8 DEF Follows
<1>10. CASE N = 0
  <2>1. parts = << >>
    BY <1>10, EmptySeq DEF N
  <2> QED
    BY <1>6, <1>9, <1>10, <2>1 DEF N
<1>11. CASE N # 0
  <2> DEFINE h == [i \in 1 .. N |-> f[i]]
  <2>1. \A i \in 1 .. N : i # 1 => i - 1 \in 1 .. N
    BY <1>1
  <2>2. 1 \in 1 .. N => f[1] = parts[1]
    <3>1. 1 \in 1 .. N => f[1] = f[0] \o parts[1]
      BY <1>9, 1 - 1 = 0
    <3>2. 1 \in 1 .. N => << >> \o parts[1] = parts[1]
      BY <1>1, ConcatEmptySeq
    <3> QED
      BY <1>9, <3>1, <3>2
  <2>3. h = [i \in 1 .. N |-> IF i = 1 THEN parts[i] ELSE h[i - 1] \o parts[i]]
    BY <1>9, <2>1, <2>2
  <2>4. Is(h)
    BY <2>3
  <2> HIDE DEF h, Is
  <2>5. PICK g : g = (CHOOSE x : Is(x)) /\ Is(g)
    BY <2>4
  <2>6. \A i \in 1 .. N : g[i] = IF i = 1 THEN parts[i] ELSE g[i - 1] \o parts[i]
    BY <2>5 DEF Is
  <2> DEFINE T == {k \in 0 .. N : k # 0 => g[k] = f[k]}
  <2>7. 0 \in T
    BY <1>1
  <2>8. ASSUME NEW k \in 1 .. N, k - 1 \in T
        PROVE  k \in T
    <3>1. CASE k = 1
      BY <1>8, <2>2, <2>6, <3>1
    <3>2. CASE k # 1
      <4>1. g[k - 1] = f[k - 1]
        BY <2>8, <3>2
      <4>2. g[k] = g[k - 1] \o parts[k]
        BY <2>6, <3>2
      <4>3. f[k] = f[k - 1] \o parts[k]
        BY <1>9
      <4> QED
        BY <1>8, <4>1, <4>2, <4>3
    <3> QED
      BY <3>1, <3>2
  <2>9. \A k \in 0 .. N : k \in T
    <3> HIDE DEF T
    <3> QED
      BY <1>1, <2>7, <2>8, Induction
  <2>10. g[N] = f[N]
    BY <1>1, <1>11, <2>9
  <2>11. FlattenSeq(parts) = f[N]
    BY <1>6, <1>11, <2>5, <2>10
  <2> QED
    BY <1>9, <2>11 DEF N
<1> QED
  BY <1>10, <1>11

Begins(long, short) ==
  /\ Len(short) <= Len(long)
  /\ \A i \in 1 .. Len(short) : long[i] = short[i]

LenSum(r, s, t) == Len(r) = Len(s) + Len(t)

\* A concatenation begins with its first part and is as long as both.
LEMMA Joined ==
  ASSUME NEW X, NEW s \in Seq(X), NEW t \in Seq(X)
  PROVE  s \o t \in Seq(X) /\ LenSum(s \o t, s, t) /\ Begins(s \o t, s)
<1>1. Len(s) \in Nat /\ Len(t) \in Nat
  BY LenProperties
<1>2. /\ s \o t \in Seq(X) /\ Len(s \o t) = Len(s) + Len(t)
      /\ \A i \in 1 .. Len(s) + Len(t) : (s \o t)[i] = IF i <= Len(s) THEN s[i] ELSE t[i - Len(s)]
  BY ConcatProperties
<1>3. \A i \in 1 .. Len(s) : i \in 1 .. Len(s) + Len(t) /\ i <= Len(s)
  BY <1>1
<1> QED
  BY <1>1, <1>2, <1>3 DEF Begins, LenSum

\* What a sequence begins with, its extensions begin with.
LEMMA BeginsOn ==
  ASSUME NEW X, NEW q \in Seq(X), NEW s \in Seq(X), NEW t \in Seq(X), Begins(s, q)
  PROVE  Begins(s \o t, q)
<1>1. Len(q) \in Nat /\ Len(s) \in Nat
  BY LenProperties
<1>2. Begins(s \o t, s) /\ s \o t \in Seq(X)
  BY Joined
<1>3. Len(s \o t) \in Nat
  BY <1>2, LenProperties
<1> QED
  BY <1>1, <1>2, <1>3 DEF Begins

\* Parts of at most one element are not longer, together, than their number;
\* parts of one element are just as many.
LEMMA FlattenShort ==
  ASSUME NEW X, NEW parts \in Seq(Seq(X)),
         \A i \in 1 .. Len(parts) : Len(parts[i]) <= 1
  PROVE  /\ FlattenSeq(parts) \in Seq(X)
         /\ Len(FlattenSeq(parts)) <= Len(parts)
         /\ (\A i \in 1 .. Len(parts) : Len(parts[i]) = 1) =>
              Len(FlattenSeq(parts)) = Len(parts)
<1> DEFINE N == Len(parts)
           Full == \A i \in 1 .. N : Len(parts[i]) = 1
<1>1. N \in Nat /\ \A k \in 1 .. N : parts[k] \in Seq(X) /\ Len(parts[k]) \in Nat
  BY LenProperties
<1>2. PICK f \in [0 .. N -> Seq(X)] :
        /\ f[0] = << >>
        /\ \A k \in 1 .. N : f[k] = f[k - 1] \o parts[k]
        /\ FlattenSeq(parts) = f[N]
  BY FlattenEquations
<1>3. \A i \in 1 .. N : Len(parts[i]) <= 1
  OBVIOUS
<1> HIDE DEF N
<1> DEFINE T == {k \in 0 .. N : Len(f[k]) <= k /\ (Full => Len(f[k]) = k)}
<1>4. 0 \in T
  BY <1>1, <1>2
<1>5. ASSUME NEW k \in 1 .. N, k - 1 \in T
      PROVE  k \in T
  <2>1. k - 1 \in 0 .. N /\ k \in 0 .. N
    BY <1>1
  <2>2. f[k - 1] \in Seq(X) /\ Len(f[k - 1]) \in Nat
    BY <1>2, <2>1, LenProperties
  <2>4. Len(f[k - 1]) <= k - 1 /\ (Full => Len(f[k - 1]) = k - 1)
    BY <1>5
  <2>5. Len(parts[k]) \in Nat /\ Len(parts[k]) <= 1 /\ (Full => Len(parts[k]) = 1)
    BY <1>1, <1>3
  <2>3. LenSum(f[k], f[k - 1], parts[k])
    <3>1. f[k] = f[k - 1] \o parts[k] /\ parts[k] \in Seq(X)
      BY <1>1, <1>2
    <3> QED
      BY <2>2, <3>1, Joined, Zenon
  <2> HIDE DEF Full
  <2>6. PICK now, was, one : /\ now = Len(f[k]) /\ was = Len(f[k - 1]) /\ one = Len(parts[k])
                             /\ now = was + one
    BY <2>3 DEF LenSum
  <2>7. was \in Nat /\ one \in Nat /\ was <= k - 1 /\ one <= 1 /\ (Full => was = k - 1 /\ one = 1)
    BY <2>2, <2>4, <2>5, <2>6
  <2>8. now <= k /\ (Full => now = k)
    <3>1. now = was + one
      BY <2>6
    <3>2. k \in Nat /\ was \in Nat /\ one \in Nat /\ was <= k - 1 /\ one <= 1
      BY <1>1, <2>7
    <3>3. now <= k
      BY <3>1, <3>2
    <3>4. ASSUME Full
          PROVE  now = k
      <4>1. was = k - 1 /\ one = 1
        BY <2>7, <3>4
      <4> QED
        BY <3>1, <3>2, <4>1
    <3> QED
      BY <3>3, <3>4
  <2>9. Len(f[k]) <= k /\ (Full => Len(f[k]) = k)
    BY <2>6, <2>8
  <2> QED
    BY <2>1, <2>9
<1>6. \A k \in 0 .. N : k \in T
  <2> HIDE DEF T
  <2> QED
    BY <1>1, <1>4, <1>5, Induction
<1>7. f[N] \in Seq(X) /\ Len(f[N]) <= N /\ (Full => Len(f[N]) = N)
  BY <1>1, <1>2, <1>6
<1> QED
  BY <1>2, <1>7 DEF N

\* Beginning with a sequence, element by element, is having it as a prefix.
LEMMA PrefixIs ==
  ASSUME NEW X, NEW s \in Seq(X), NEW t \in Seq(X), Begins(t, s)
  PROVE  IsPrefix(s, t)
<1>1. Len(s) \in Nat /\ Len(t) \in Nat /\ \A i \in 1 .. Len(t) : t[i] \in X
  BY LenProperties
<1>2. Len(s) <= Len(t) /\ \A i \in 1 .. Len(s) : t[i] = s[i] /\ i \in 1 .. Len(t)
  BY <1>1 DEF Begins
<1>3. SubSeq(t, 1, Len(s)) = SubSeq(s, 1, Len(s))
  <2>1. SubSeq(t, 1, Len(s)) = [i \in 1 .. Len(s) |-> t[i]]
    BY <1>1
  <2>2. SubSeq(s, 1, Len(s)) = [i \in 1 .. Len(s) |-> s[i]]
    BY <1>1
  <2> QED
    BY <1>2, <2>1, <2>2
<1> QED
  BY <1>2, <1>3 DEF IsPrefix

\* Front leaves out the last element.
LEMMA FrontIs ==
  ASSUME NEW X, NEW s \in Seq(X), Len(s) # 0
  PROVE  /\ Front(s) \in Seq(X) /\ Len(Front(s)) = Len(s) - 1
         /\ \A i \in 1 .. Len(s) - 1 : Front(s)[i] = s[i]
<1>1. Len(s) \in Nat \ {0} /\ \A i \in 1 .. Len(s) : s[i] \in X
  BY LenProperties
<1>2. \A i \in 1 .. Len(s) - 1 : s[i] \in X
  BY <1>1
<1>3. /\ SubSeq(s, 1, Len(s) - 1) \in Seq(X)
      /\ Len(SubSeq(s, 1, Len(s) - 1)) = IF 1 <= Len(s) - 1 THEN Len(s) - 1 - 1 + 1 ELSE 0
      /\ \A i \in 1 .. Len(s) - 1 - 1 + 1 : SubSeq(s, 1, Len(s) - 1)[i] = s[1 + i - 1]
  <2>1. 1 \in Int /\ Len(s) - 1 \in Int
    BY <1>1
  <2> QED
    BY <1>2, <2>1, SubSeqProperties
<1>4. Len(SubSeq(s, 1, Len(s) - 1)) = Len(s) - 1
  <2>1. (IF 1 <= Len(s) - 1 THEN Len(s) - 1 - 1 + 1 ELSE 0) = Len(s) - 1
    <3>1. \A n \in Nat \ {0} : (IF 1 <= n - 1 THEN n - 1 - 1 + 1 ELSE 0) = n - 1
      OBVIOUS
    <3> QED
      BY <1>1, <3>1
  <2>2. Len(SubSeq(s, 1, Len(s) - 1)) = IF 1 <= Len(s) - 1 THEN Len(s) - 1 - 1 + 1 ELSE 0
    BY <1>3
  <2> QED
    BY <2>1, <2>2, Zenon
<1>5. ASSUME NEW i \in 1 .. Len(s) - 1
      PROVE  SubSeq(s, 1, Len(s) - 1)[i] = s[i]
  <2>1. i \in 1 .. Len(s) - 1 - 1 + 1 /\ 1 + i - 1 = i
    BY <1>1
  <2> QED
    BY <1>3, <2>1
<1> QED
  BY <1>3, <1>4, <1>5 DEF Front

\* When more parts follow, and the last of the shorter list may have changed,
\* all but the last element of its concatenation is still there.
LEMMA FlattenExtends ==
  ASSUME NEW X, NEW parts \in Seq(Seq(X)), NEW more \in Seq(Seq(X)),
         \A i \in 1 .. Len(parts) : Len(parts[i]) <= 1,
         Len(parts) <= Len(more),
         \A i \in 1 .. Len(parts) - 1 : parts[i] = more[i],
         FlattenSeq(parts) # << >>
  PROVE  IsPrefix(Front(FlattenSeq(parts)), FlattenSeq(more))
<1> DEFINE m == Len(parts)
           n == Len(more)
<1>1. /\ m \in Nat /\ \A k \in 1 .. m : parts[k] \in Seq(X) /\ Len(parts[k]) \in Nat
      /\ n \in Nat /\ \A k \in 1 .. n : more[k] \in Seq(X)
  BY LenProperties
<1>2. PICK f \in [0 .. m -> Seq(X)] :
        /\ f[0] = << >>
        /\ \A k \in 1 .. m : f[k] = f[k - 1] \o parts[k]
        /\ FlattenSeq(parts) = f[m]
  BY FlattenEquations
<1>3. PICK g \in [0 .. n -> Seq(X)] :
        /\ g[0] = << >>
        /\ \A k \in 1 .. n : g[k] = g[k - 1] \o more[k]
        /\ FlattenSeq(more) = g[n]
  BY FlattenEquations
<1>4. m <= n /\ \A i \in 1 .. m : i # m => parts[i] = more[i]
  <2>1. \A i \in 1 .. m : i # m => i \in 1 .. Len(parts) - 1
    BY <1>1
  <2> QED
    BY <2>1
<1>5. /\ \A i \in 1 .. m : Len(parts[i]) <= 1
      /\ f[m] # << >>
  BY <1>2
<1> HIDE DEF m, n
<1>6. m # 0
  BY <1>2, <1>5
<1> DEFINE last == m - 1
<1>7. last \in 0 .. m /\ last \in 0 .. n /\ last = m - 1 /\ m \in 1 .. m
  BY <1>1, <1>4, <1>6
<1> HIDE DEF last
<1>8. f[last] = g[last]
  <2> DEFINE T == {k \in 0 .. last : f[k] = g[k]}
  <2>1. 0 \in T
    BY <1>2, <1>3, <1>7
  <2>2. ASSUME NEW k \in 1 .. last, k - 1 \in T
        PROVE  k \in T
    <3>1. k \in 1 .. m /\ k \in 1 .. n /\ k # m /\ f[k - 1] = g[k - 1]
      BY <1>1, <1>4, <1>7, <2>2
    <3>2. f[k] = f[k - 1] \o parts[k]
      BY <1>2, <3>1
    <3>3. g[k] = g[k - 1] \o more[k]
      BY <1>3, <3>1
    <3>4. parts[k] = more[k]
      BY <1>4, <3>1
    <3>5. f[k] = g[k] /\ k \in 0 .. last
      <4>1. f[k] = g[k]
        BY <3>1, <3>2, <3>3, <3>4, Zenon
      <4> QED
        BY <4>1
    <3> QED
      BY <3>5
  <2>3. last \in Nat
    BY <1>7
  <2>4. \A k \in 0 .. last : k \in T
    <3> HIDE DEF T
    <3> QED
      BY <2>1, <2>2, <2>3, Induction
  <2> QED
    BY <2>3, <2>4
<1>9. f[last] \in Seq(X) /\ Len(f[last]) \in Nat
  BY <1>2, <1>7, LenProperties
\* The longer concatenation begins with this one.
<1>10. Begins(g[n], f[last])
  <2> DEFINE T == {k \in 0 .. n : k >= last => Begins(g[k], f[last])}
  <2>1. Begins(g[last], f[last])
    BY <1>8, <1>9 DEF Begins
  <2>2. 0 \in T
    <3>1. 0 >= last => last = 0
      BY <1>7
    <3> QED
      BY <1>1, <2>1, <3>1
  <2>3. ASSUME NEW k \in 1 .. n, k - 1 \in T
        PROVE  k \in T
    <3>1. CASE k - 1 >= last
      <4>1. Begins(g[k - 1], f[last])
        BY <2>3, <3>1
      <4>2. k - 1 \in 0 .. n /\ k \in 0 .. n
        BY <1>1
      <4>3. g[k - 1] \in Seq(X) /\ more[k] \in Seq(X)
        BY <1>1, <1>3, <4>2
      <4>4. g[k] = g[k - 1] \o more[k]
        BY <1>3
      <4>5. Begins(g[k], f[last])
        <5>1. Begins(g[k - 1] \o more[k], f[last])
          BY <1>9, <4>1, <4>3, BeginsOn
        <5> QED
          BY <4>4, <5>1, Zenon
      <4> QED
        BY <4>2, <4>5
    <3>2. CASE ~(k - 1 >= last)
      <4>1. k >= last => k = last
        BY <1>7, <3>2
      <4> QED
        BY <1>1, <2>1, <4>1
    <3> QED
      BY <3>1, <3>2
  <2>4. \A k \in 0 .. n : k \in T
    <3> HIDE DEF T
    <3> QED
      BY <1>1, <2>2, <2>3, Induction
  <2>5. n >= last /\ n \in 0 .. n
    BY <1>1, <1>7
  <2>6. Begins(g[n], f[last])
    <3> QED
      BY <2>4, <2>5
  <2> QED
    BY <2>6
\* The shorter one has at most one element more.
<1>11. /\ f[m] \in Seq(X) /\ Len(f[m]) \in Nat \ {0}
       /\ Len(f[m]) - 1 <= Len(f[last])
       /\ \A i \in 1 .. Len(f[m]) - 1 : f[m][i] = f[last][i]
  <2>1. f[m] = f[last] \o parts[m]
    BY <1>2, <1>7
  <2>2. parts[m] \in Seq(X) /\ Len(parts[m]) \in Nat /\ Len(parts[m]) <= 1
    BY <1>1, <1>5, <1>7
  <2>3. f[m] \in Seq(X) /\ LenSum(f[m], f[last], parts[m]) /\ Begins(f[m], f[last])
    BY <1>9, <2>1, <2>2, Joined, Zenon
  <2>4. Len(f[m]) \in Nat \ {0}
    BY <1>5, <2>3, EmptySeq
  <2>5. Len(f[m]) - 1 <= Len(f[last])
    BY <1>9, <2>2, <2>3 DEF LenSum
  <2>6. \A i \in 1 .. Len(f[m]) - 1 : i \in 1 .. Len(f[last])
    BY <1>9, <2>4, <2>5
  <2> QED
    BY <2>3, <2>4, <2>5, <2>6 DEF Begins
<1>12. g[n] \in Seq(X) /\ Len(g[n]) \in Nat
  BY <1>1, <1>3, LenProperties
<1> DEFINE front == Front(f[m])
<1>13. /\ front \in Seq(X) /\ Len(front) = Len(f[m]) - 1
       /\ \A i \in 1 .. Len(f[m]) - 1 : front[i] = f[m][i]
  BY <1>11 DEF Front
<1> HIDE DEF front
<1>14. Len(front) \in Nat /\ Len(front) <= Len(g[n])
  BY <1>9, <1>10, <1>11, <1>12, <1>13 DEF Begins
<1>15. \A i \in 1 .. Len(front) : front[i] = g[n][i]
  <2> SUFFICES ASSUME NEW i \in 1 .. Len(front)
               PROVE  front[i] = g[n][i]
    OBVIOUS
  <2>1. i \in 1 .. Len(f[m]) - 1 /\ i \in 1 .. Len(f[last])
    BY <1>9, <1>11, <1>13, <1>14
  <2> QED
    BY <1>10, <1>11, <1>13, <2>1 DEF Begins
<1>16. IsPrefix(front, g[n])
  <2>1. Begins(g[n], front)
    BY <1>14, <1>15 DEF Begins
  <2> QED
    BY <1>12, <1>13, <2>1, PrefixIs
<1> QED
  BY <1>2, <1>3, <1>16 DEF front

-----------------------------------------------------------------------------
(***************************************************************************)
(* The loop of nthSubstr.                                                  *)
(***************************************************************************)
Search == [curN : Nat, last : Nat]

FirstRound(line, p) == [curN |-> 1, last |-> Find(line, p, 1)]

Round(n, line, p, was) ==
  IF was.curN >= n THEN was
  ELSE IF Find(line, p, was.last + 1) = NoPos THEN [curN |-> n, last |-> NoPos]
  ELSE [curN |-> IF EndsColumn(Find(line, p, was.last + 1), was.last)
                 THEN was.curN + 1 ELSE was.curN,
        last |-> Find(line, p, was.last + 1)]

\* std::string::find yields the first position of the delimiter.
LEMMA FindIs ==
  ASSUME NEW X, NEW line \in Seq(X), NEW p, NEW from \in Nat \ {0}
  PROVE  /\ Find(line, p, from) \in Nat
         /\ Find(line, p, from) = NoPos =>
              \A k \in from .. Len(line) : line[k] # p
         /\ Find(line, p, from) # NoPos =>
              /\ Find(line, p, from) \in from .. Len(line)
              /\ line[Find(line, p, from)] = p
              /\ \A k \in from .. Find(line, p, from) - 1 : line[k] # p
<1> DEFINE hits == {k \in from .. Len(line) : line[k] = p}
<1>1. Find(line, p, from) = IF hits = {} THEN 0 ELSE Min(hits)
  BY DEF Find, NoPos
<1>2. Len(line) \in Nat /\ hits \in SUBSET Nat
  BY LenProperties
<1>3. CASE hits = {}
  BY <1>1, <1>3 DEF NoPos
<1>4. CASE hits # {}
  <2>1. \E n \in hits : \A m \in hits : n <= m
    <3> HIDE DEF hits
    <3> QED
      BY <1>2, <1>4, Least
  <2>2. Min(hits) \in hits /\ \A m \in hits : Min(hits) <= m
    <3> HIDE DEF hits
    <3> QED
      BY <2>1 DEF Min
  <2>3. PICK first : first = Min(hits)
    OBVIOUS
  <2>4. first \in from .. Len(line) /\ line[first] = p /\ first # 0
    BY <2>2, <2>3
  <2>5. \A k \in from .. first - 1 : line[k] # p
    <3> SUFFICES ASSUME NEW k \in from .. first - 1, line[k] = p
                 PROVE  FALSE
      OBVIOUS
    <3>1. k \in hits
      BY <1>2, <2>4
    <3>2. first <= k
      BY <2>2, <2>3, <3>1
    <3> QED
      BY <2>4, <3>2
  <2>6. Find(line, p, from) = first
    BY <1>1, <1>4, <2>3
  <2> QED
    BY <2>4, <2>5, <2>6 DEF NoPos
<1> QED
  BY <1>3, <1>4

\* A round of the loop keeps its two variables typed.
LEMMA RoundType ==
  ASSUME NEW X, NEW line \in Seq(X), NEW p, NEW n \in Nat, NEW was \in Search
  PROVE  Round(n, line, p, was) \in Search
<1>1. was.curN \in Nat /\ was.last \in Nat
  BY DEF Search
<1>2. Find(line, p, was.last + 1) \in Nat
  BY <1>1, FindIs
<1> QED
  BY <1>1, <1>2 DEF Round, Search, NoPos

\* The loop over the delimiters, as the equations it satisfies.
LEMMA RoundsEquations ==
  ASSUME NEW X, NEW line \in Seq(X), NEW p, NEW n \in Nat
  PROVE  /\ Rounds(n, line, p) \in [0 .. Len(line) -> Search]
         /\ Rounds(n, line, p)[0] = FirstRound(line, p)
         /\ \A k \in 1 .. Len(line) :
              Rounds(n, line, p)[k] = Round(n, line, p, Rounds(n, line, p)[k - 1])
<1> DEFINE N == Len(line)
           first == FirstRound(line, p)
           Is(f) == f = [k \in 0 .. N |-> IF k = 0 THEN first ELSE Round(n, line, p, f[k - 1])]
           step == [x \in (1 .. N) \X Search |-> Round(n, line, p, x[2])]
<1>1. N \in Nat
  BY LenProperties
<1>2. first \in Search
  BY FindIs DEF FirstRound, Search
<1>3. step \in [(1 .. N) \X Search -> Search]
  BY RoundType
<1>4. \A k \in 1 .. N, was \in Search : step[<< k, was >>] = Round(n, line, p, was)
  OBVIOUS
<1>5. Rounds(n, line, p) = CHOOSE g : Is(g)
  BY DEF Rounds, Round, FirstRound
<1> HIDE DEF step, N, first
<1>6. PICK f \in [0 .. N -> Search] : Follows(f, first, step, N)
  BY <1>1, <1>2, <1>3, Recursion
<1>7. \A k \in 1 .. N : k \in 0 .. N /\ k - 1 \in 0 .. N /\ k # 0
  BY <1>1
<1>8. f[0] = first /\ \A k \in 1 .. N : f[k] = Round(n, line, p, f[k - 1])
  BY <1>4, <1>6, <1>7 DEF Follows
<1>9. Is(f)
  BY <1>1, <1>8
<1> HIDE DEF Is
<1>10. PICK g : g = Rounds(n, line, p) /\ Is(g)
  BY <1>5, <1>9
<1>11. /\ g = [k \in 0 .. N |-> g[k]]
       /\ g[0] = first /\ \A k \in 1 .. N : g[k] = Round(n, line, p, g[k - 1])
  BY <1>1, <1>7, <1>10 DEF Is
<1> DEFINE T == {k \in 0 .. N : g[k] \in Search}
<1>12. 0 \in T
  BY <1>1, <1>2, <1>11
<1>13. ASSUME NEW k \in 1 .. N, k - 1 \in T
       PROVE  k \in T
  <2>1. g[k - 1] \in Search /\ k \in 0 .. N
    BY <1>7, <1>13
  <2>2. g[k] = Round(n, line, p, g[k - 1])
    BY <1>11
  <2>3. Round(n, line, p, g[k - 1]) \in Search
    BY <2>1, RoundType
  <2> QED
    BY <2>1, <2>2, <2>3
<1>14. \A k \in 0 .. N : k \in T
  <2> HIDE DEF T
  <2> QED
    BY <1>1, <1>12, <1>13, Induction
<1>15. \A k \in 0 .. N : g[k] \in Search
  BY <1>14
<1> QED
  BY <1>10, <1>11, <1>15 DEF N, first

\* Where the runs of adjacent delimiters begin, and how many up to a position.
RunsOf(line, p) ==
  {k \in DOMAIN line : /\ line[k] = p
                       /\ k = 1 \/ line[k - 1] # p}
UpTo(line, p, k) == {j \in RunsOf(line, p) : j <= k}
Counted(line, p, k) == Cardinality(UpTo(line, p, k))

\* A line has finitely many runs of delimiters, so that they can be counted.
LEMMA RunsFinite ==
  ASSUME NEW X, NEW line \in Seq(X), NEW p
  PROVE  /\ RunsOf(line, p) \in SUBSET (1 .. Len(line))
         /\ IsFiniteSet(RunsOf(line, p)) /\ Cardinality(RunsOf(line, p)) \in Nat
         /\ \A k : IsFiniteSet(UpTo(line, p, k)) /\ Counted(line, p, k) \in Nat
<1>1. RunsOf(line, p) \in SUBSET (1 .. Len(line))
  BY LenProperties DEF RunsOf
<1>2. IsFiniteSet(1 .. Len(line))
  BY LenProperties, FS_Interval
<1>3. IsFiniteSet(RunsOf(line, p)) /\ Cardinality(RunsOf(line, p)) \in Nat
  BY <1>1, <1>2, FS_Subset, FS_CardinalityType
<1>4. ASSUME NEW k
      PROVE  IsFiniteSet(UpTo(line, p, k)) /\ Counted(line, p, k) \in Nat
  <2>1. UpTo(line, p, k) \in SUBSET RunsOf(line, p)
    BY DEF UpTo
  <2> QED
    BY <1>3, <2>1, FS_Subset, FS_CardinalityType DEF Counted
<1> QED
  BY <1>1, <1>3, <1>4

\* From one delimiter to the next one: the next one begins a run, and is
\* counted, unless it is adjacent.
LEMMA NextDelimiter ==
  ASSUME NEW X, NEW line \in Seq(X), NEW p,
         NEW last \in 1 .. Len(line), line[last] = p,
         NEW found \in last + 1 .. Len(line), line[found] = p,
         \A k \in last + 1 .. found - 1 : line[k] # p
  PROVE  /\ found - last > 1 =>
              /\ found \in RunsOf(line, p)
              /\ Counted(line, p, found) = Counted(line, p, last) + 1
         /\ ~(found - last > 1) => Counted(line, p, found) = Counted(line, p, last)
<1>1. Len(line) \in Nat /\ DOMAIN line = 1 .. Len(line)
  BY LenProperties
<1>2. last \in Nat \ {0} /\ found \in Nat /\ last < found /\ found \in DOMAIN line
  BY <1>1
<1>3. \A j \in RunsOf(line, p) : j \in Nat /\ line[j] = p
  BY <1>1 DEF RunsOf
<1>4. \A j \in RunsOf(line, p) : j <= found /\ j # found => j <= last
  <2> SUFFICES ASSUME NEW j \in RunsOf(line, p), j <= found, j # found, ~(j <= last)
               PROVE  FALSE
    OBVIOUS
  <2>1. j \in last + 1 .. found - 1
    BY <1>2, <1>3
  <2> QED
    BY <1>3, <2>1
<1>5. \A j \in RunsOf(line, p) : j <= last => j <= found /\ j # found
  BY <1>2, <1>3
<1>6. ~(found \in UpTo(line, p, last))
  BY <1>2 DEF UpTo
<1>7. IsFiniteSet(UpTo(line, p, last))
  BY RunsFinite
<1>8. CASE found - last > 1
  <2>1. found - 1 \in last + 1 .. found - 1 /\ found # 1
    BY <1>2, <1>8
  <2>2. found \in RunsOf(line, p)
    BY <1>2, <2>1 DEF RunsOf
  <2>3. UpTo(line, p, found) = UpTo(line, p, last) \cup {found}
    <3>1. found <= found
      BY <1>2
    <3>2. \A j \in RunsOf(line, p) : j <= found <=> j <= last \/ j = found
      BY <1>4, <1>5, <3>1, Zenon
    <3> QED
      BY <2>2, <3>2, Zenon DEF UpTo
  <2>4. Counted(line, p, found) = Counted(line, p, last) + 1
    BY <1>6, <1>7, <2>3, FS_AddElement DEF Counted
  <2> QED
    BY <1>8, <2>2, <2>4
<1>9. CASE ~(found - last > 1)
  <2>1. found - 1 = last /\ found # 1
    BY <1>2, <1>9
  <2>2. found \notin RunsOf(line, p)
    BY <2>1 DEF RunsOf
  <2>3. UpTo(line, p, found) = UpTo(line, p, last)
    BY <1>2, <1>4, <1>5, <2>2 DEF UpTo
  <2> QED
    BY <1>9, <2>3 DEF Counted
<1> QED
  BY <1>8, <1>9

\* The first delimiter begins the first run.
LEMMA FirstDelimiter ==
  ASSUME NEW X, NEW line \in Seq(X), NEW p,
         NEW found \in 1 .. Len(line), line[found] = p,
         \A k \in 1 .. found - 1 : line[k] # p
  PROVE  found \in RunsOf(line, p) /\ Counted(line, p, found) = 1
<1>1. Len(line) \in Nat /\ DOMAIN line = 1 .. Len(line)
  BY LenProperties
<1>2. found \in RunsOf(line, p)
  BY <1>1 DEF RunsOf
<1>3. \A j \in RunsOf(line, p) : j <= found => j = found
  <2> SUFFICES ASSUME NEW j \in RunsOf(line, p), j <= found, j # found
               PROVE  FALSE
    OBVIOUS
  <2>1. j \in 1 .. found - 1 /\ line[j] = p
    BY <1>1 DEF RunsOf
  <2> QED
    BY <2>1
<1>4. UpTo(line, p, found) = {found}
  <2>1. found <= found
    BY <1>1
  <2>2. \A j \in RunsOf(line, p) : j <= found <=> j = found
    BY <1>3, <2>1, Zenon
  <2> QED
    BY <1>2, <2>2, Zenon DEF UpTo
<1> QED
  BY <1>2, <1>4, FS_Singleton DEF Counted

\* No delimiter after this one: all runs are counted.
LEMMA LastDelimiter ==
  ASSUME NEW X, NEW line \in Seq(X), NEW p, NEW last \in Nat,
         \A k \in last + 1 .. Len(line) : line[k] # p
  PROVE  Counted(line, p, last) = Cardinality(RunsOf(line, p))
<1>1. Len(line) \in Nat /\ DOMAIN line = 1 .. Len(line)
  BY LenProperties
<1>2. ASSUME NEW j \in RunsOf(line, p)
      PROVE  j <= last
  <2>1. j \in 1 .. Len(line) /\ line[j] = p
    BY <1>1 DEF RunsOf
  <2> QED
    BY <1>1, <2>1
<1>3. UpTo(line, p, last) = RunsOf(line, p)
  BY <1>2 DEF UpTo
<1> QED
  BY <1>3 DEF Counted

Col(n) == IF n = 0 THEN 1 ELSE n

\* The loop is at a delimiter, and has counted the runs up to it.
Searching(n, line, p, k, at) ==
  /\ at.curN < n
  /\ at.last \in 1 .. Len(line) /\ at.last > k
  /\ line[at.last] = p
  /\ Counted(line, p, at.last) = at.curN

\* There is no n-th run.
Absent(n, line, p, at) ==
  /\ at.last = NoPos
  /\ Cardinality(RunsOf(line, p)) < Col(n)
  /\ at.curN < n => \A k \in 1 .. Len(line) : line[k] # p

\* The loop has ended where the n-th run begins.
Reached(n, line, p, at) ==
  /\ at.curN >= n
  /\ at.last \in RunsOf(line, p)
  /\ Counted(line, p, at.last) = Col(n)

\* Before the first round the loop is at the first delimiter, if there is one.
LEMMA FirstRoundIs ==
  ASSUME NEW X, NEW line \in Seq(X), NEW p, NEW n \in Nat
  PROVE  LET at == FirstRound(line, p)
         IN  Searching(n, line, p, 0, at) \/ Absent(n, line, p, at) \/ Reached(n, line, p, at)
<1> DEFINE at == FirstRound(line, p)
           found == Find(line, p, 1)
<1>1. at.curN = 1 /\ at.last = found
  BY DEF FirstRound
<1>2. Len(line) \in Nat
  BY LenProperties
<1>3. /\ found = NoPos => \A k \in 1 .. Len(line) : line[k] # p
      /\ found # NoPos => /\ found \in 1 .. Len(line)
                          /\ line[found] = p
                          /\ \A k \in 1 .. found - 1 : line[k] # p
  BY FindIs
<1> HIDE DEF at, found
<1>4. CASE found = NoPos
  <2>1. \A k \in 1 .. Len(line) : line[k] # p
    BY <1>3, <1>4
  <2>2. RunsOf(line, p) = {}
    BY <2>1, LenProperties DEF RunsOf
  <2>3. Cardinality(RunsOf(line, p)) = 0
    BY <2>2, FS_EmptySet
  <2> QED
    BY <1>1, <1>4, <2>1, <2>3 DEF Absent, Col, at
<1>5. CASE found # NoPos
  <2>1. found \in RunsOf(line, p) /\ Counted(line, p, found) = 1
    BY <1>3, <1>5, FirstDelimiter
  <2>2. CASE 1 < n
    BY <1>1, <1>2, <1>3, <1>5, <2>1, <2>2 DEF Searching, at
  <2>3. CASE ~(1 < n)
    BY <1>1, <2>1, <2>3 DEF Reached, Col, at
  <2> QED
    BY <2>2, <2>3
<1> QED
  BY <1>4, <1>5

\* One round: the search goes on further along the line, or has ended.
LEMMA RoundIs ==
  ASSUME NEW X, NEW line \in Seq(X), NEW p, NEW n \in Nat,
         NEW k \in 1 .. Len(line), NEW was \in Search,
         \/ Searching(n, line, p, k - 1, was)
         \/ Absent(n, line, p, was)
         \/ Reached(n, line, p, was)
  PROVE  LET at == Round(n, line, p, was)
         IN  Searching(n, line, p, k, at) \/ Absent(n, line, p, at) \/ Reached(n, line, p, at)
<1> DEFINE at == Round(n, line, p, was)
           found == Find(line, p, was.last + 1)
<1>1. Len(line) \in Nat /\ was.curN \in Nat /\ was.last \in Nat
  BY LenProperties DEF Search
<1>2. /\ found = NoPos => \A j \in was.last + 1 .. Len(line) : line[j] # p
      /\ found # NoPos => /\ found \in was.last + 1 .. Len(line)
                          /\ line[found] = p
                          /\ \A j \in was.last + 1 .. found - 1 : line[j] # p
  <2>1. was.last + 1 \in Nat \ {0}
    BY <1>1
  <2> QED
    BY <2>1, FindIs
<1>3. /\ was.curN >= n => at = was
      /\ ~(was.curN >= n) /\ found = NoPos => at = [curN |-> n, last |-> NoPos]
      /\ ~(was.curN >= n) /\ found # NoPos =>
           at = [curN |-> IF EndsColumn(found, was.last) THEN was.curN + 1 ELSE was.curN,
                 last |-> found]
  BY DEF Round
<1> HIDE DEF at, found
<1>4. CASE Reached(n, line, p, was)
  BY <1>3, <1>4 DEF Reached, at
<1>5. CASE Absent(n, line, p, was)
  <2>1. CASE was.curN >= n
    BY <1>3, <1>5, <2>1 DEF at
  <2>2. CASE ~(was.curN >= n)
    <3>1. was.last = 0 /\ \A j \in 1 .. Len(line) : line[j] # p
      BY <1>1, <1>5, <2>2 DEF Absent, NoPos
    <3>2. found = NoPos
      BY <1>2, <3>1
    <3>3. at.curN = n /\ at.last = NoPos
      BY <1>3, <2>2, <3>2
    <3>4. Absent(n, line, p, at)
      BY <1>5, <3>3 DEF Absent
    <3> QED
      BY <3>4 DEF at
  <2> QED
    BY <2>1, <2>2
<1>6. CASE Searching(n, line, p, k - 1, was)
  <2>1. /\ was.curN < n /\ ~(was.curN >= n)
        /\ was.last \in 1 .. Len(line) /\ was.last > k - 1
        /\ line[was.last] = p
        /\ Counted(line, p, was.last) = was.curN
    BY <1>1, <1>6 DEF Searching
  <2>2. CASE found = NoPos
    <3>1. at.curN = n /\ at.last = NoPos
      BY <1>3, <2>1, <2>2
    <3>2. Cardinality(RunsOf(line, p)) = was.curN
      BY <1>1, <1>2, <2>1, <2>2, LastDelimiter
    <3>3. Cardinality(RunsOf(line, p)) < Col(n)
      BY <1>1, <2>1, <3>2 DEF Col
    <3>4. Absent(n, line, p, at)
      BY <3>1, <3>3 DEF Absent
    <3> QED
      BY <3>4 DEF at
  <2>3. CASE found # NoPos
    <3>1. /\ at.curN = IF EndsColumn(found, was.last) THEN was.curN + 1 ELSE was.curN
          /\ at.last = found
      BY <1>3, <2>1, <2>3
    <3>2. /\ found \in 1 .. Len(line) /\ found \in was.last + 1 .. Len(line)
          /\ line[found] = p /\ found > k
      BY <1>1, <1>2, <2>1, <2>3
    <3>3. /\ found - was.last > 1 =>
               /\ found \in RunsOf(line, p)
               /\ Counted(line, p, found) = was.curN + 1
          /\ ~(found - was.last > 1) => Counted(line, p, found) = was.curN
      BY <1>2, <2>1, <2>3, <3>2, NextDelimiter
    <3>4. CASE found - was.last > 1
      <4>1. at.curN = was.curN + 1
        BY <3>1, <3>4 DEF EndsColumn
      <4>2. CASE was.curN + 1 < n
        <5>1. Searching(n, line, p, k, at)
          BY <3>1, <3>2, <3>3, <3>4, <4>1, <4>2 DEF Searching
        <5> QED
          BY <5>1 DEF at
      <4>3. CASE ~(was.curN + 1 < n)
        <5>1. was.curN + 1 = n /\ n # 0 /\ at.curN >= n
          BY <1>1, <2>1, <4>1, <4>3
        <5>2. Reached(n, line, p, at)
          BY <3>1, <3>3, <3>4, <5>1 DEF Reached, Col
        <5> QED
          BY <5>2 DEF at
      <4> QED
        BY <4>2, <4>3
    <3>5. CASE ~(found - was.last > 1)
      <4>1. at.curN = was.curN
        BY <3>1, <3>5 DEF EndsColumn
      <4>2. Searching(n, line, p, k, at)
        BY <2>1, <3>1, <3>2, <3>3, <3>5, <4>1 DEF Searching
      <4> QED
        BY <4>2 DEF at
    <3> QED
      BY <3>4, <3>5
  <2> QED
    BY <2>2, <2>3
<1> QED
  BY <1>4, <1>5, <1>6

\* nthSubstr finds where the n-th run of delimiters begins, and npos when there
\* are fewer, for every line, delimiter and number.
THEOREM NthSubstrIs ==
  ASSUME NEW X, NEW line \in Seq(X), NEW p, NEW n \in Nat
  PROVE  \/ /\ NthSubstr(n, line, p) = NoPos
            /\ Cardinality(RunsOf(line, p)) < Col(n)
         \/ /\ NthSubstr(n, line, p) \in RunsOf(line, p)
            /\ Counted(line, p, NthSubstr(n, line, p)) = Col(n)
<1> DEFINE N == Len(line)
           Holds(k, at) == \/ Searching(n, line, p, k, at)
                           \/ Absent(n, line, p, at)
                           \/ Reached(n, line, p, at)
<1>1. N \in Nat
  BY LenProperties
<1>2. PICK f : f = Rounds(n, line, p)
  OBVIOUS
<1>3. /\ f \in [0 .. N -> Search] /\ f[0] = FirstRound(line, p)
      /\ \A k \in 1 .. N : f[k] = Round(n, line, p, f[k - 1])
  BY <1>2, RoundsEquations
<1>4. NthSubstr(n, line, p) = f[N].last
  BY <1>2 DEF NthSubstr
<1> DEFINE T == {k \in 0 .. N : Holds(k, f[k])}
<1>5. 0 \in T
  <2>1. Holds(0, f[0])
    BY <1>3, FirstRoundIs
  <2> HIDE DEF Holds
  <2> QED
    BY <1>1, <2>1
<1>6. ASSUME NEW k \in 1 .. N, k - 1 \in T
      PROVE  k \in T
  <2>1. Holds(k - 1, f[k - 1])
    BY <1>6
  <2>2. f[k - 1] \in Search /\ k \in 0 .. N
    BY <1>1, <1>3
  <2>3. Holds(k, Round(n, line, p, f[k - 1]))
    BY <2>1, <2>2, RoundIs
  <2>4. Holds(k, f[k])
    <3> HIDE DEF Holds
    <3> QED
      BY <1>3, <2>3
  <2> HIDE DEF Holds
  <2> QED
    BY <2>2, <2>4
<1>7. Holds(N, f[N])
  <2>1. \A k \in 0 .. N : k \in T
    <3> HIDE DEF T, N
    <3> QED
      BY <1>1, <1>5, <1>6, Induction
  <2> HIDE DEF Holds, N
  <2> QED
    BY <1>1, <2>1
<1>8. ~Searching(n, line, p, N, f[N])
  <2> SUFFICES ASSUME Searching(n, line, p, N, f[N])
               PROVE  FALSE
    OBVIOUS
  <2>1. f[N].last \in 1 .. N /\ f[N].last > N
    BY DEF Searching
  <2> QED
    BY <1>1, <2>1
<1> QED
  BY <1>4, <1>7, <1>8 DEF Absent, Reached

\* Of two runs, the one further on is counted later: a number names one run.
LEMMA OneRun ==
  ASSUME NEW X, NEW line \in Seq(X), NEW p,
         NEW i \in RunsOf(line, p), NEW j \in RunsOf(line, p),
         Counted(line, p, i) = Counted(line, p, j)
  PROVE  i = j
<1>1. RunsOf(line, p) \in SUBSET (1 .. Len(line)) /\ Len(line) \in Nat
  BY RunsFinite, LenProperties
<1>2. \A k \in RunsOf(line, p) : k \in Nat
  BY <1>1
<1>3. ASSUME NEW k \in RunsOf(line, p), NEW l \in RunsOf(line, p), k < l
      PROVE  Counted(line, p, k) # Counted(line, p, l)
  <2>1. \A m \in RunsOf(line, p) : m <= k => m <= l
    BY <1>2, <1>3
  <2>2. UpTo(line, p, k) \in SUBSET UpTo(line, p, l)
    BY <2>1 DEF UpTo
  <2>3. l <= l /\ ~(l <= k)
    BY <1>2, <1>3
  <2>4. l \in UpTo(line, p, l) /\ l \notin UpTo(line, p, k)
    BY <2>3 DEF UpTo
  <2>5. IsFiniteSet(UpTo(line, p, l))
    BY RunsFinite
  <2> QED
    BY <2>2, <2>4, <2>5, FS_Subset DEF Counted
<1>4. ~(i < j) /\ ~(j < i)
  BY <1>3
<1> QED
  BY <1>2, <1>4

-----------------------------------------------------------------------------
(***************************************************************************)
(* What a read shows.  These operators are those of PodLogs with the       *)
(* settings as an argument.                                                *)
(***************************************************************************)
ParserOf(st, lines) ==
  IF st.logParser = "Auto" THEN DetectLogType(lines) ELSE st.logParser

FromColumnOf(st, line) ==
  LET start == NthSubstr(st.csvColumn, line, st.csvDelimiter)
  IN  IF start = NoPos THEN << >> ELSE << SubSeq(line, start, Len(line)) >>

ParsedOf(st, parser, line) ==
  CASE parser = "JSON" -> << FieldOf(line) >>
    [] parser = "CSV"  -> FromColumnOf(st, line)
    [] parser = "Text" -> << line >>

PartsOf(st, text) ==
  LET lines == Fetched(text)
  IN  [i \in DOMAIN lines |-> ParsedOf(st, ParserOf(st, lines), lines[i])]

LEMMA ShownIs == \A text : Shown(text) = FlattenSeq(PartsOf(settings, text))
  BY DEF Shown, PartsOf, Parsed, ParsedOf, ParserFor, ParserOf, FromColumn, FromColumnOf

\* The server sends the last lines, and all of them if they are few.
LEMMA FetchedIs ==
  ASSUME NEW text \in Seq(Chars)
  PROVE  /\ Fetched(text) \in Seq(Seq(Text))
         /\ Len(Fetched(text)) <= TailLines
         /\ Len(Lines(text)) <= TailLines => Fetched(text) = Lines(text)
<1> DEFINE lines == Lines(text)
<1>1. lines \in Seq(Seq(Text)) /\ Len(lines) \in Nat /\ \A i \in 1 .. Len(lines) : lines[i] \in Seq(Text)
  BY LinesType, LenProperties
<1>2. TailLines \in Nat \ {0}
  BY BoundsAssumption
<1> DEFINE first == IF Len(lines) > TailLines THEN Len(lines) - TailLines + 1 ELSE 1
<1>3. Fetched(text) = SubSeq(lines, first, Len(lines))
  BY DEF Fetched
<1>4. /\ first \in Nat \ {0} /\ Len(lines) - first + 1 <= TailLines
      /\ Len(lines) <= TailLines => first = 1
  BY <1>1, <1>2
<1> HIDE DEF lines, first
<1>5. \A i \in first .. Len(lines) : lines[i] \in Seq(Text)
  BY <1>1, <1>4
<1>6. /\ SubSeq(lines, first, Len(lines)) \in Seq(Seq(Text))
      /\ Len(SubSeq(lines, first, Len(lines))) =
           IF first <= Len(lines) THEN Len(lines) - first + 1 ELSE 0
  BY <1>1, <1>4, <1>5, SubSeqProperties
<1>7. Len(Fetched(text)) <= TailLines
  <2>1. CASE first <= Len(lines)
    BY <1>3, <1>4, <1>6, <2>1
  <2>2. CASE ~(first <= Len(lines))
    BY <1>2, <1>3, <1>6, <2>2
  <2> QED
    BY <2>1, <2>2
<1>8. Len(lines) <= TailLines => Fetched(text) = lines
  BY <1>1, <1>3, <1>4, SubSeqFull
<1> QED
  BY <1>3, <1>6, <1>7, <1>8 DEF lines

\* Whatever the settings say, one of three parsers is used.
LEMMA ParserIs ==
  ASSUME NEW st \in Settings, NEW lines
  PROVE  ParserOf(st, lines) \in {"JSON", "CSV", "Text"}
  BY DEF ParserOf, Settings, Parsers, DetectLogType

\* A line yields one text; with the CSV parser it may yield none.
LEMMA ParsedIs ==
  ASSUME NEW st \in Settings, NEW parser \in {"JSON", "CSV", "Text"}, NEW line \in Seq(Text)
  PROVE  /\ ParsedOf(st, parser, line) \in Seq(Seq(Text))
         /\ Len(ParsedOf(st, parser, line)) <= 1
         /\ parser # "CSV" => Len(ParsedOf(st, parser, line)) = 1
<1>1. \A t \in Seq(Text) : << t >> \in Seq(Seq(Text)) /\ Len(<< t >>) = 1
  OBVIOUS
<1>2. CASE parser = "JSON"
  <2>1. FieldOf(line) \in Seq(Text)
    <3>1. CASE line = << >>
      BY <3>1 DEF FieldOf
    <3>2. CASE line # << >>
      <4>1. Tail(line) \in Seq(Text) /\ << >> \in Seq(Text)
        BY <3>2, HeadTailProperties
      <4>2. FieldOf(line) = Tail(line) \/ FieldOf(line) = << >>
        BY DEF FieldOf
      <4> QED
        BY <4>1, <4>2, Zenon
    <3> QED
      BY <3>1, <3>2
  <2>2. ParsedOf(st, parser, line) = << FieldOf(line) >>
    BY <1>2 DEF ParsedOf
  <2> QED
    BY <1>1, <2>1, <2>2
<1>3. CASE parser = "Text"
  <2>1. ParsedOf(st, parser, line) = << line >>
    BY <1>3 DEF ParsedOf
  <2> QED
    BY <1>1, <2>1
<1>4. CASE parser = "CSV"
  <2>1. ParsedOf(st, parser, line) = FromColumnOf(st, line)
    BY <1>4 DEF ParsedOf
  <2>2. PICK start : start = NthSubstr(st.csvColumn, line, st.csvDelimiter)
    OBVIOUS
  <2>3. FromColumnOf(st, line) = IF start = NoPos THEN << >> ELSE << SubSeq(line, start, Len(line)) >>
    BY <2>2 DEF FromColumnOf
  <2>4. st.csvColumn \in Nat
    BY BoundsAssumption DEF Settings
  <2>5. start = NoPos \/ start \in RunsOf(line, st.csvDelimiter)
    BY <2>2, <2>4, NthSubstrIs
  <2>6. CASE start = NoPos
    <3>1. ParsedOf(st, parser, line) = << >>
      BY <2>1, <2>3, <2>6, Zenon
    <3>2. << >> \in Seq(Seq(Text)) /\ Len(<< >>) <= 1
      BY EmptySeq
    <3> QED
      BY <1>4, <3>1, <3>2, Zenon
  <2>7. CASE start # NoPos
    <3>1. start \in 1 .. Len(line) /\ Len(line) \in Nat
      BY <2>5, <2>7, RunsFinite, LenProperties
    <3>2. \A i \in start .. Len(line) : line[i] \in Text
      BY <3>1, LenProperties
    <3>3. SubSeq(line, start, Len(line)) \in Seq(Text)
      BY <3>1, <3>2, SubSeqProperties
    <3> QED
      <4>1. ParsedOf(st, parser, line) = << SubSeq(line, start, Len(line)) >>
        BY <2>1, <2>3, <2>7, Zenon
      <4>2. PICK t \in Seq(Text) : t = SubSeq(line, start, Len(line))
        BY <3>3
      <4>3. << t >> \in Seq(Seq(Text)) /\ Len(<< t >>) <= 1
        BY <1>1
      <4> QED
        BY <1>4, <4>1, <4>2, <4>3, Zenon
  <2> QED
    BY <2>6, <2>7
<1> QED
  BY <1>2, <1>3, <1>4

\* Each line received yields one part, of at most one line to show.
LEMMA PartsAre ==
  ASSUME NEW st \in Settings, NEW text \in Seq(Chars)
  PROVE  /\ PartsOf(st, text) \in Seq(Seq(Seq(Text)))
         /\ Len(PartsOf(st, text)) = Len(Fetched(text)) /\ Len(Fetched(text)) \in Nat
         /\ \A i \in 1 .. Len(Fetched(text)) :
              /\ Fetched(text)[i] \in Seq(Text)
              /\ PartsOf(st, text)[i] = ParsedOf(st, ParserOf(st, Fetched(text)), Fetched(text)[i])
              /\ Len(PartsOf(st, text)[i]) <= 1
              /\ ParserOf(st, Fetched(text)) # "CSV" => Len(PartsOf(st, text)[i]) = 1
<1> DEFINE lines == Fetched(text)
           parts == PartsOf(st, text)
           parser == ParserOf(st, lines)
<1>1. lines \in Seq(Seq(Text))
  BY FetchedIs
<1>2. /\ Len(lines) \in Nat /\ DOMAIN lines = 1 .. Len(lines)
      /\ \A i \in 1 .. Len(lines) : lines[i] \in Seq(Text)
  BY <1>1, LenProperties
<1>3. parser \in {"JSON", "CSV", "Text"}
  BY ParserIs
<1>4. parts = [i \in 1 .. Len(lines) |-> ParsedOf(st, parser, lines[i])]
  BY <1>2 DEF PartsOf
<1> HIDE DEF lines, parts, parser
<1>5. \A i \in 1 .. Len(lines) :
        /\ parts[i] = ParsedOf(st, parser, lines[i])
        /\ parts[i] \in Seq(Seq(Text)) /\ Len(parts[i]) <= 1
        /\ parser # "CSV" => Len(parts[i]) = 1
  BY <1>2, <1>3, <1>4, ParsedIs
<1>6. parts \in [1 .. Len(lines) -> Seq(Seq(Text))]
  BY <1>4, <1>5
<1>7. parts \in Seq(Seq(Seq(Text))) /\ Len(parts) = Len(lines)
  <2>1. parts \in Seq(Seq(Seq(Text)))
    BY <1>2, <1>6, SeqDef
  <2>2. DOMAIN parts = 1 .. Len(parts) /\ Len(parts) \in Nat
    BY <2>1, LenProperties
  <2>3. DOMAIN parts = 1 .. Len(lines)
    BY <1>6
  <2> QED
    <3>1. \A n \in Nat : Cardinality(1 .. n) = n
      BY FS_Interval
    <3>2. Cardinality(DOMAIN parts) = Len(parts) /\ Cardinality(DOMAIN parts) = Len(lines)
      BY <1>2, <2>2, <2>3, <3>1
    <3> QED
      BY <2>1, <3>2
<1> QED
  BY <1>2, <1>5, <1>7 DEF lines, parts, parser

\* What is shown is a sequence of lines, no more than the server sends.
LEMMA ShownType ==
  ASSUME NEW st \in Settings, NEW text \in Seq(Chars)
  PROVE  /\ FlattenSeq(PartsOf(st, text)) \in Seq(Seq(Text))
         /\ Len(FlattenSeq(PartsOf(st, text))) <= TailLines
         /\ ParserOf(st, Fetched(text)) # "CSV" =>
              Len(FlattenSeq(PartsOf(st, text))) = Len(Fetched(text))
<1> DEFINE parts == PartsOf(st, text)
<1>1. /\ parts \in Seq(Seq(Seq(Text)))
      /\ Len(parts) = Len(Fetched(text)) /\ Len(Fetched(text)) \in Nat
      /\ \A i \in 1 .. Len(parts) : Len(parts[i]) <= 1
      /\ ParserOf(st, Fetched(text)) # "CSV" => \A i \in 1 .. Len(parts) : Len(parts[i]) = 1
  BY PartsAre
<1> HIDE DEF parts
<1>2. /\ FlattenSeq(parts) \in Seq(Seq(Text))
      /\ Len(FlattenSeq(parts)) <= Len(parts)
      /\ (\A i \in 1 .. Len(parts) : Len(parts[i]) = 1) =>
           Len(FlattenSeq(parts)) = Len(parts)
  BY <1>1, FlattenShort
<1>3. Len(FlattenSeq(parts)) \in Nat /\ Len(Fetched(text)) <= TailLines /\ TailLines \in Nat
  BY <1>2, LenProperties, FetchedIs, BoundsAssumption
<1>4. Len(FlattenSeq(parts)) <= TailLines
  BY <1>1, <1>2, <1>3
<1>5. ParserOf(st, Fetched(text)) # "CSV" => Len(FlattenSeq(parts)) = Len(Fetched(text))
  BY <1>1, <1>2
<1> QED
  BY <1>2, <1>4, <1>5 DEF parts

\* Before anything is written there is nothing to show.
LEMMA NothingShown ==
  ASSUME NEW st \in Settings
  PROVE  FlattenSeq(PartsOf(st, << >>)) = << >>
<1>1. << >> \in Seq(Chars) /\ Len(<< >>) = 0
  BY EmptySeq
<1>2. Split(<< >>)[0] = Started
  BY <1>1, SplitEquations
<1>3. Len(Lines(<< >>)) = 0
  <2>1. Started.done = << >> /\ Started.open = << >>
    BY DEF Started
  <2> QED
    BY <1>1, <1>2, <2>1, LinesAre
<1>4. Len(Fetched(<< >>)) = 0
  <2>1. Fetched(<< >>) = Lines(<< >>)
    <3>1. Len(Lines(<< >>)) <= TailLines
      BY <1>3, BoundsAssumption
    <3> QED
      BY <1>1, <3>1, FetchedIs, Zenon
  <2> QED
    BY <1>3, <2>1
<1>5. PartsOf(st, << >>) \in Seq(Seq(Seq(Text))) /\ Len(PartsOf(st, << >>)) = 0
  BY <1>1, <1>4, PartsAre
<1>6. PartsOf(st, << >>) = << >>
  BY <1>5, EmptySeq
<1> QED
  BY <1>5, <1>6 DEF FlattenSeq

\* With the CSV parser each line yields what the reference definition says.
LEMMA CsvParts ==
  ASSUME NEW st \in Settings, NEW text \in Seq(Chars), st = settings,
         ParserOf(st, Fetched(text)) = "CSV"
  PROVE  PartsOf(st, text) =
           [i \in DOMAIN Fetched(text) |-> FromNthRun(Fetched(text)[i])]
<1>1. /\ Fetched(text) \in Seq(Seq(Text))
      /\ \A i \in DOMAIN Fetched(text) : Fetched(text)[i] \in Seq(Text)
  BY FetchedIs, LenProperties
<1>2. ASSUME NEW line \in Seq(Text)
      PROVE  ParsedOf(st, "CSV", line) = FromNthRun(line)
  <2>1. st.csvColumn \in Nat
    BY BoundsAssumption DEF Settings
  <2>2. Column = Col(st.csvColumn) /\ Runs(line) = RunsOf(line, st.csvDelimiter)
    BY DEF Column, Col, Runs, RunsOf
  <2>3. PICK start : start = NthSubstr(st.csvColumn, line, st.csvDelimiter)
    OBVIOUS
  <2>4. ParsedOf(st, "CSV", line) = IF start = NoPos THEN << >> ELSE << SubSeq(line, start, Len(line)) >>
    BY <2>3 DEF ParsedOf, FromColumnOf
  <2>5. \/ start = NoPos /\ Cardinality(Runs(line)) < Column
        \/ start \in Runs(line) /\ Counted(line, st.csvDelimiter, start) = Column
    BY <2>1, <2>2, <2>3, NthSubstrIs
  <2>6. CASE start = NoPos /\ Cardinality(Runs(line)) < Column
    BY <2>4, <2>6 DEF FromNthRun
  <2>7. CASE start \in Runs(line) /\ Counted(line, st.csvDelimiter, start) = Column
    <3>1. \A k : {j \in Runs(line) : j <= k} = UpTo(line, st.csvDelimiter, k)
      BY <2>2 DEF UpTo
    <3>2. \A k : Cardinality({j \in Runs(line) : j <= k}) = Counted(line, st.csvDelimiter, k)
      BY <3>1 DEF Counted
    <3>3. \A k \in Runs(line) : Counted(line, st.csvDelimiter, k) = Column => k = start
      BY <2>2, <2>7, OneRun
    <3>4. NthRun(line) = start
      BY <2>7, <3>2, <3>3 DEF NthRun
    <3>5. ~(Cardinality(Runs(line)) < Column)
      <4>1. UpTo(line, st.csvDelimiter, start) \in SUBSET RunsOf(line, st.csvDelimiter)
        BY DEF UpTo
      <4>2. /\ IsFiniteSet(RunsOf(line, st.csvDelimiter))
            /\ Cardinality(RunsOf(line, st.csvDelimiter)) \in Nat
            /\ Counted(line, st.csvDelimiter, start) \in Nat
        BY RunsFinite
      <4>3. Counted(line, st.csvDelimiter, start) <= Cardinality(RunsOf(line, st.csvDelimiter))
        BY <4>1, <4>2, FS_Subset DEF Counted
      <4> QED
        BY <2>2, <2>7, <4>2, <4>3
    <3>6. start # NoPos
      BY <2>2, <2>7, RunsFinite DEF NoPos
    <3> QED
      BY <2>4, <3>4, <3>5, <3>6 DEF FromNthRun
  <2> QED
    BY <2>5, <2>6, <2>7
<1>3. PartsOf(st, text) = [i \in DOMAIN Fetched(text) |-> ParsedOf(st, "CSV", Fetched(text)[i])]
  BY DEF PartsOf
<1> QED
  BY <1>1, <1>2, <1>3

\* Reading on shows again what was there, but for the last line.
LEMMA ReadOn ==
  ASSUME NEW st \in Settings, NEW short \in Seq(Chars), NEW long \in Seq(Chars),
         IsPrefix(short, long), Len(Lines(long)) <= TailLines,
         ParserOf(st, Fetched(short)) = ParserOf(st, Fetched(long)),
         FlattenSeq(PartsOf(st, short)) # << >>
  PROVE  IsPrefix(Front(FlattenSeq(PartsOf(st, short))), FlattenSeq(PartsOf(st, long)))
<1> DEFINE parts == PartsOf(st, short)
           more  == PartsOf(st, long)
           parser == ParserOf(st, Fetched(short))
<1>1. /\ Lines(short) \in Seq(Seq(Text)) /\ Len(Lines(short)) \in Nat
      /\ Lines(long) \in Seq(Seq(Text)) /\ Len(Lines(long)) \in Nat
      /\ TailLines \in Nat
  BY LinesType, LenProperties, BoundsAssumption
<1>2. /\ Len(Lines(short)) <= Len(Lines(long))
      /\ \A i \in 1 .. Len(Lines(short)) - 1 : Lines(short)[i] = Lines(long)[i]
  BY LinesExtend
<1>3. Fetched(short) = Lines(short) /\ Fetched(long) = Lines(long)
  BY <1>1, <1>2, FetchedIs
<1>4. /\ parts \in Seq(Seq(Seq(Text))) /\ Len(parts) = Len(Lines(short))
      /\ \A i \in 1 .. Len(Lines(short)) :
           Len(parts[i]) <= 1 /\ parts[i] = ParsedOf(st, parser, Lines(short)[i])
  BY <1>3, PartsAre
<1>5. /\ more \in Seq(Seq(Seq(Text))) /\ Len(more) = Len(Lines(long))
      /\ \A i \in 1 .. Len(Lines(long)) : more[i] = ParsedOf(st, parser, Lines(long)[i])
  BY <1>3, PartsAre
<1>6. \A i \in 1 .. Len(Lines(short)) - 1 : i \in 1 .. Len(Lines(short)) /\ i \in 1 .. Len(Lines(long))
  BY <1>1, <1>2
<1>7. \A i \in 1 .. Len(parts) - 1 : parts[i] = more[i]
  <2> SUFFICES ASSUME NEW i \in 1 .. Len(parts) - 1
               PROVE  parts[i] = more[i]
    OBVIOUS
  <2> HIDE DEF parts, more, parser
  <2>1. i \in 1 .. Len(Lines(short)) - 1
    BY <1>4
  <2>2. Lines(short)[i] = Lines(long)[i]
    BY <1>2, <2>1
  <2> QED
    BY <1>4, <1>5, <1>6, <2>1, <2>2
<1>8. Len(parts) <= Len(more) /\ \A i \in 1 .. Len(parts) : Len(parts[i]) <= 1
  BY <1>2, <1>4, <1>5
<1>9. FlattenSeq(parts) # << >>
  OBVIOUS
<1>10. IsPrefix(Front(FlattenSeq(parts)), FlattenSeq(more))
  <2> HIDE DEF parts, more, parser
  <2> QED
    BY <1>4, <1>5, <1>7, <1>8, <1>9, FlattenExtends
<1> QED
  BY <1>10

-----------------------------------------------------------------------------
(***************************************************************************)
(* The inductive invariant: the log that was read is the beginning of what *)
(* the pod has written, and the view is what that log shows, no matter     *)
(* what the reads before have shown.                                       *)
(***************************************************************************)
ViewInv ==
  /\ log \in Seq(Chars) /\ Len(log) <= MaxLog
  /\ read \in Seq(Chars) /\ IsPrefix(read, log)
  /\ settings \in Settings
  /\ crashed \in BOOLEAN
  /\ view = FlattenSeq(PartsOf(settings, read))

\* The invariant holds before anything is written or read.
LEMMA InitView == Init => ViewInv
<1> SUFFICES ASSUME Init
             PROVE  ViewInv
  OBVIOUS
<1>1. log = << >> /\ settings \in Settings /\ view = << >> /\ read = << >> /\ crashed = FALSE
  BY DEF Init
<1>2. << >> \in Seq(Chars) /\ Len(<< >>) = 0 /\ IsPrefix(<< >>, << >>)
  BY EmptySeq DEF IsPrefix
<1>3. Len(log) <= MaxLog
  BY <1>1, <1>2, BoundsAssumption
<1>4. view = FlattenSeq(PartsOf(settings, read))
  BY <1>1, NothingShown
<1> QED
  BY <1>1, <1>2, <1>3, <1>4 DEF ViewInv

\* Each step keeps the invariant: the pod only appends to its log, and a read
\* replaces the view as a whole.
LEMMA NextView == ViewInv /\ [Next]_vars => ViewInv'
<1> SUFFICES ASSUME ViewInv, [Next]_vars
             PROVE  ViewInv'
  OBVIOUS
<1>1. /\ log \in Seq(Chars) /\ Len(log) <= MaxLog
      /\ read \in Seq(Chars) /\ IsPrefix(read, log)
      /\ settings \in Settings /\ crashed \in BOOLEAN
      /\ view = FlattenSeq(PartsOf(settings, read))
  BY DEF ViewInv
<1>2. Len(log) \in Nat /\ Len(read) \in Nat /\ IsPrefix(log, log) /\ MaxLog \in Nat
  BY <1>1, LenProperties, BoundsAssumption DEF IsPrefix
<1>3. ASSUME NEW c \in Chars, PodWrites(c)
      PROVE  ViewInv'
  <2>1. Len(log) < MaxLog /\ log' = Append(log, c)
        /\ settings' = settings /\ view' = view /\ read' = read /\ crashed' = crashed
    BY <1>3 DEF PodWrites
  <2>2. /\ log' \in Seq(Chars) /\ Len(log') = Len(log) + 1
        /\ \A i \in 1 .. Len(log) : log'[i] = log[i]
    BY <1>1, <2>1, AppendProperties
  <2>3. Len(log') <= MaxLog
    BY <1>2, <2>1, <2>2
  <2>4. IsPrefix(read, log')
    <3>1. Len(read) <= Len(log) /\ SubSeq(read, 1, Len(read)) = SubSeq(log, 1, Len(read))
      BY <1>1 DEF IsPrefix
    <3>2. SubSeq(log', 1, Len(read)) = SubSeq(log, 1, Len(read))
      <4>1. \A i \in 1 .. Len(read) : log'[i] = log[i]
        BY <1>2, <2>2, <3>1
      <4> QED
        BY <1>1, <1>2, <2>2, <3>1, <4>1
    <3> QED
      BY <1>2, <2>2, <3>1, <3>2 DEF IsPrefix
  <2>5. IsPrefix(read', log')
    BY <2>1, <2>4
  <2> QED
    BY <1>1, <2>1, <2>2, <2>3, <2>5 DEF ViewInv
<1>4. ASSUME BtnLog
      PROVE  ViewInv'
  <2>1. log' = log /\ settings' = settings
    BY <1>4 DEF BtnLog
  <2>2. CASE LogAll(Shown(log)) /\ read' = log /\ UNCHANGED crashed
    <3>1. view' = FlattenSeq(PartsOf(settings, log))
      BY <2>2, ShownIs DEF LogAll
    <3>2. view' = FlattenSeq(PartsOf(settings', read'))
      BY <2>1, <2>2, <3>1
    <3> QED
      BY <1>1, <1>2, <2>1, <2>2, <3>2 DEF ViewInv
  <2>3. CASE crashed' = TRUE /\ UNCHANGED << view, read >>
    BY <1>1, <2>1, <2>3 DEF ViewInv
  <2> QED
    BY <1>4, <2>2, <2>3 DEF BtnLog
<1>5. CASE UNCHANGED vars
  BY <1>1, <1>5 DEF ViewInv, vars
<1> QED
  BY <1>3, <1>4, <1>5 DEF Next

LEMMA ViewCorrect == Spec => []ViewInv
  BY InitView, NextView, PTL DEF Spec

\* The log, the settings and the view keep their types: the view never has more
\* lines than the server sends, since each read clears what was shown before.
THEOREM Typed == Spec => []TypeOK
<1>1. ViewInv => TypeOK
  <2> SUFFICES ASSUME ViewInv
               PROVE  TypeOK
    OBVIOUS
  <2>1. /\ log \in Seq(Chars) /\ Len(log) <= MaxLog
        /\ read \in Seq(Chars) /\ IsPrefix(read, log)
        /\ settings \in Settings /\ crashed \in BOOLEAN
        /\ view = FlattenSeq(PartsOf(settings, read))
    BY DEF ViewInv
  <2>2. view \in Seq(Seq(Text)) /\ Len(view) <= TailLines
    BY <2>1, ShownType
  <2> QED
    BY <2>1, <2>2 DEF TypeOK, Text
<1> QED
  BY <1>1, ViewCorrect, PTL

\* The parsers other than CSV show one line for each line received, for any log,
\* any number of lines sent and whatever was shown before.
THEOREM LinesKept == Spec => []NoLineLost
<1>1. ViewInv => NoLineLost
  <2> SUFFICES ASSUME ViewInv, ParserUsed # "CSV"
               PROVE  Len(view) = Len(Fetched(read))
    BY DEF NoLineLost
  <2>1. /\ read \in Seq(Chars) /\ settings \in Settings
        /\ view = FlattenSeq(PartsOf(settings, read))
    BY DEF ViewInv
  <2>2. ParserOf(settings, Fetched(read)) # "CSV"
    BY DEF ParserUsed, ParserFor, ParserOf
  <2> QED
    BY <2>1, <2>2, ShownType
<1> QED
  BY <1>1, ViewCorrect, PTL

\* The CSV parser shows each line from its n-th run of delimiters on and leaves
\* out those with fewer runs, for every line, delimiter and column number: the
\* loop of nthSubstr agrees with its reference definition.
THEOREM ColumnShown == Spec => []CsvShownFromColumn
<1>1. ViewInv => CsvShownFromColumn
  <2> SUFFICES ASSUME ViewInv, ParserUsed = "CSV"
               PROVE  view = FlattenSeq([i \in DOMAIN Fetched(read) |-> FromNthRun(Fetched(read)[i])])
    BY DEF CsvShownFromColumn
  <2>1. /\ read \in Seq(Chars) /\ settings \in Settings
        /\ view = FlattenSeq(PartsOf(settings, read))
    BY DEF ViewInv
  <2>2. ParserOf(settings, Fetched(read)) = "CSV"
    BY DEF ParserUsed, ParserFor, ParserOf
  <2>3. PartsOf(settings, read) = [i \in DOMAIN Fetched(read) |-> FromNthRun(Fetched(read)[i])]
    BY <2>1, <2>2, CsvParts
  <2> QED
    BY <2>1, <2>3, Zenon
<1> QED
  BY <1>1, ViewCorrect, PTL

\* Reading a longer log shows again, in the same place, all that was shown but
\* the last line, as long as the server sends the whole log and the parser found
\* is the same.
THEOREM Extended == Spec => RereadExtends
<1> DEFINE A == Len(Lines(log)) <= TailLines /\ ParserUsed = ParserFor(Fetched(log)) =>
                  IsPrefix(Complete(view), view')
<1>1. ViewInv /\ [Next]_vars => [A]_vars
  <2> SUFFICES ASSUME ViewInv, Next,
                      Len(Lines(log)) <= TailLines, ParserUsed = ParserFor(Fetched(log))
               PROVE  IsPrefix(Complete(view), view')
    OBVIOUS
  <2>1. /\ log \in Seq(Chars) /\ read \in Seq(Chars) /\ IsPrefix(read, log)
        /\ settings \in Settings
        /\ view = FlattenSeq(PartsOf(settings, read))
    BY DEF ViewInv
  <2>2. view \in Seq(Seq(Text)) /\ Len(view) \in Nat
    BY <2>1, ShownType, LenProperties
  <2>3. CASE view' = view
    <3>1. CASE view = << >>
      BY <2>3, <3>1 DEF Complete, IsPrefix
    <3>2. CASE view # << >>
      <4>1. Len(view) # 0
        BY <2>2, <3>2, EmptySeq
      <4>2. PICK front : front = Front(view)
        OBVIOUS
      <4>3. /\ front \in Seq(Seq(Text)) /\ Len(front) = Len(view) - 1
            /\ \A i \in 1 .. Len(view) - 1 : front[i] = view[i]
        BY <2>2, <4>1, <4>2, FrontIs
      <4>4. IsPrefix(front, view)
        <5>1. Begins(view, front)
          BY <2>2, <4>1, <4>3 DEF Begins
        <5> QED
          BY <2>2, <4>3, <5>1, PrefixIs
      <4> QED
        BY <2>3, <3>2, <4>2, <4>4 DEF Complete
    <3> QED
      BY <3>1, <3>2
  <2>4. CASE LogAll(Shown(log))
    <3>1. view' = FlattenSeq(PartsOf(settings, log))
      BY <2>4, ShownIs DEF LogAll
    <3>2. CASE view = << >>
      <4>1. view' \in Seq(Seq(Text))
        BY <2>1, <3>1, ShownType
      <4>2. Complete(view) = << >>
        BY <3>2 DEF Complete
      <4>3. IsPrefix(<< >>, view')
        BY <4>1, LenProperties, EmptySeq DEF IsPrefix
      <4> QED
        BY <4>2, <4>3
    <3>3. CASE view # << >>
      <4>1. ParserOf(settings, Fetched(read)) = ParserOf(settings, Fetched(log))
        BY DEF ParserUsed, ParserFor, ParserOf
      <4>2. IsPrefix(Front(view), view')
        BY <2>1, <3>1, <3>3, <4>1, ReadOn
      <4> QED
        BY <3>3, <4>2 DEF Complete
    <3> QED
      BY <3>2, <3>3
  <2> QED
    BY <2>3, <2>4 DEF Next, BtnLog, PodWrites
<1> QED
  BY <1>1, ViewCorrect, PTL DEF Spec, RereadExtends
=============================================================================
