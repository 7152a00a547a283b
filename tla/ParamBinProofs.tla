---------------------------- MODULE ParamBinProofs ----------------------------
(***************************************************************************)
(* What the PC tool exports, both decoders read back as it was meant, and  *)
(* the two decoders agree on every other file: for every number of         *)
(* parameters, all limits of the lengths and all names.  With the same     *)
(* lemmas about texts joined from parts: a file's name is kept on its way  *)
(* through queries, forms and paths (FileNames).                           *)
(***************************************************************************)
EXTENDS ParamBin, FileNames, FiniteSetTheorems, SequenceTheorems, TLAPS

(* Natural numbers, by the least counterexample.                           *)
LEMMA Counting ==
  ASSUME NEW T, 0 \in T, \A n \in Nat : n \in T => n + 1 \in T
  PROVE  Nat \subseteq T
<1> SUFFICES ASSUME Nat \ T # {} PROVE FALSE
  OBVIOUS
<1>1. PICK n \in Nat \ T : \A m \in Nat \ T : <<m, n>> \notin OpToRel(<, Nat)
  BY NatLessThanWellFounded, WFMin
<1>2. n # 0 /\ n \in Nat
  BY <1>1
<1>3. n - 1 \in Nat /\ n - 1 < n
  BY <1>2
<1>4. n - 1 \in T
  BY <1>1, <1>3 DEF OpToRel
<1>5. (n - 1) + 1 = n
  BY <1>2
<1> QED BY <1>1, <1>3, <1>4, <1>5

-----------------------------------------------------------------------------
(* FlattenSeq, a part at a time.                                           *)

Recursion(f, parts, n) ==
  f = [i \in 1 .. n |-> IF i = 1 THEN parts[i] ELSE f[i - 1] \o parts[i]]

\* There is the function by which FlattenSeq is defined.
LEMMA RecursionExists ==
  ASSUME NEW parts, NEW n \in Nat
  PROVE  \E f : Recursion(f, parts, n)
<1> DEFINE T == {k \in Nat : \E f : Recursion(f, parts, k)}
<1>1. 0 \in T
  <2> DEFINE f == [i \in 1 .. 0 |-> 0]
  <2>1. \A i : i \notin 1 .. 0
    OBVIOUS
  <2>2. f = [i \in 1 .. 0 |-> IF i = 1 THEN parts[i] ELSE f[i - 1] \o parts[i]]
    BY <2>1
  <2> QED BY <2>2 DEF Recursion
<1>2. ASSUME NEW k \in Nat, k \in T PROVE k + 1 \in T
  <2>1. PICK f : Recursion(f, parts, k)
    BY <1>2
  <2> DEFINE g == [i \in 1 .. k + 1 |-> IF i = 1 THEN parts[i] ELSE f[i - 1] \o parts[i]]
  <2>2. \A i \in 1 .. k : g[i] = f[i]
    <3>1. \A i \in 1 .. k : f[i] = IF i = 1 THEN parts[i] ELSE f[i - 1] \o parts[i]
      BY <2>1 DEF Recursion
    <3>2. \A i \in 1 .. k : i \in 1 .. k + 1
      OBVIOUS
    <3> QED BY <3>1, <3>2
  <2>3. \A i \in 1 .. k + 1 : i # 1 => g[i - 1] = f[i - 1]
    <3> TAKE i \in 1 .. k + 1
    <3> HAVE i # 1
    <3>1. i - 1 \in 1 .. k
      OBVIOUS
    <3> QED BY <2>2, <3>1
  <2>4. \A i \in 1 .. k + 1 :
          (IF i = 1 THEN parts[i] ELSE f[i - 1] \o parts[i])
            = (IF i = 1 THEN parts[i] ELSE g[i - 1] \o parts[i])
    BY <2>3
  <2>5. Recursion(g, parts, k + 1)
    <3> HIDE DEF g
    <3>1. g = [i \in 1 .. k + 1 |-> IF i = 1 THEN parts[i] ELSE f[i - 1] \o parts[i]]
      BY DEF g
    <3> QED BY <2>4, <3>1 DEF Recursion
  <2> QED BY <2>5
<1> QED BY <1>1, <1>2, Counting

LEMMA FlattenIs ==
  ASSUME NEW parts, Len(parts) \in Nat \ {0}
  PROVE  \E f : Recursion(f, parts, Len(parts)) /\ FlattenSeq(parts) = f[Len(parts)]
<1> DEFINE f == CHOOSE g : Recursion(g, parts, Len(parts))
<1>1. Recursion(f, parts, Len(parts))
  BY RecursionExists
<1>2. FlattenSeq(parts) = f[Len(parts)]
  BY DEF FlattenSeq, Recursion
<1> QED BY <1>1, <1>2

\* A prefix.
LEMMA Prefix ==
  ASSUME NEW S, NEW s \in Seq(S), NEW n \in 0 .. Len(s)
  PROVE  /\ SubSeq(s, 1, n) \in Seq(S) /\ Len(SubSeq(s, 1, n)) = n
         /\ \A i \in 1 .. n : SubSeq(s, 1, n)[i] = s[i]
<1>1. Len(s) \in Nat /\ \A i \in 1 .. Len(s) : s[i] \in S
  BY LenProperties
<1>2. \A i \in 1 .. n : s[i] \in S
  BY <1>1
<1> QED BY <1>1, <1>2, SubSeqProperties

LEMMA FlattenNone == FlattenSeq(<<>>) = <<>>
  BY DEF FlattenSeq

\* The first n parts, one after the other.
Flat(parts, n) == FlattenSeq(SubSeq(parts, 1, n))

\* The first n parts are the function's value at n.
LEMMA FlatIs ==
  ASSUME NEW S, NEW parts \in Seq(Seq(S)), NEW f, Recursion(f, parts, Len(parts)),
         NEW n \in 1 .. Len(parts)
  PROVE  Flat(parts, n) = f[n]
<1> DEFINE first == SubSeq(parts, 1, n)
<1>1. Len(parts) \in Nat
  BY LenProperties
<1>2. Len(first) = n /\ \A i \in 1 .. n : first[i] = parts[i]
  BY <1>1, Prefix
<1> HIDE DEF first
<1>3. PICK g : Recursion(g, first, n) /\ FlattenSeq(first) = g[n]
  <2>1. Len(first) = n
    BY <1>2
  <2>2. Len(first) \in Nat \ {0}
    BY <1>1, <2>1
  <2>3. \E g : Recursion(g, first, Len(first)) /\ FlattenSeq(first) = g[Len(first)]
    BY <2>2, FlattenIs, Zenon
  <2> QED BY <2>1, <2>3, Zenon
<1> DEFINE T == {k \in Nat : k + 1 \in 1 .. n => g[k + 1] = f[k + 1]}
<1>4. 0 \in T
  BY <1>1, <1>2, <1>3 DEF Recursion
<1>5. ASSUME NEW k \in Nat, k \in T PROVE k + 1 \in T
  <2> SUFFICES ASSUME k + 2 \in 1 .. n PROVE g[k + 2] = f[k + 2]
    <3>1. (k + 1) + 1 = k + 2
      OBVIOUS
    <3> QED BY <3>1
  <2>0. k + 2 # 1 /\ (k + 2) - 1 = k + 1 /\ k + 2 \in 1 .. Len(parts)
    BY <1>1
  <2>1. g[k + 1] = f[k + 1]
    BY <1>1, <1>5
  <2>2. g[k + 2] = g[k + 1] \o first[k + 2]
    BY <2>0, <1>3 DEF Recursion
  <2>3. f[k + 2] = f[k + 1] \o parts[k + 2]
    BY <2>0 DEF Recursion
  <2> QED BY <1>2, <2>1, <2>2, <2>3
<1>6. \A k \in Nat : k \in T
  <2> HIDE DEF T
  <2> QED BY <1>4, <1>5, Counting
<1>7. n - 1 \in Nat /\ (n - 1) + 1 = n
  BY <1>1
<1>8. g[n] = f[n]
  BY <1>6, <1>7
<1> QED BY <1>3, <1>8 DEF Flat, first

\* Flattened parts, from one to the next.
LEMMA FlatStep ==
  ASSUME NEW S, NEW parts \in Seq(Seq(S))
  PROVE  /\ Flat(parts, 0) = <<>>
         /\ Flat(parts, Len(parts)) = FlattenSeq(parts)
         /\ \A n \in 1 .. Len(parts) : Flat(parts, n) = Flat(parts, n - 1) \o parts[n]
<1>1. Len(parts) \in Nat /\ \A i \in 1 .. Len(parts) : parts[i] \in Seq(S)
  BY LenProperties
<1>2. Flat(parts, 0) = <<>>
  <2>1. SubSeq(parts, 1, 0) = <<>>
    BY SubSeqEmpty
  <2> QED BY <2>1, FlattenNone DEF Flat
<1>3. Flat(parts, Len(parts)) = FlattenSeq(parts)
  BY SubSeqFull DEF Flat
<1>4. ASSUME NEW n \in 1 .. Len(parts)
      PROVE  Flat(parts, n) = Flat(parts, n - 1) \o parts[n]
  <2>1. PICK f : Recursion(f, parts, Len(parts))
    BY <1>1, RecursionExists
  <2>2. Flat(parts, n) = f[n]
    BY <2>1, FlatIs
  <2>3. CASE n = 1
    <3>1. f[n] = parts[n]
      BY <1>1, <2>1, <2>3 DEF Recursion
    <3>2. <<>> \o parts[n] = parts[n]
      BY <1>1, ConcatEmptySeq
    <3> QED BY <1>2, <2>2, <2>3, <3>1, <3>2
  <2>4. CASE n # 1
    <3>1. n - 1 \in 1 .. Len(parts)
      BY <1>1, <2>4
    <3>2. Flat(parts, n - 1) = f[n - 1]
      BY <2>1, <3>1, FlatIs
    <3>3. f[n] = f[n - 1] \o parts[n]
      BY <1>1, <2>1, <2>4 DEF Recursion
    <3> QED BY <2>2, <3>2, <3>3
  <2> QED BY <2>3, <2>4
<1> QED BY <1>2, <1>3, <1>4

\* The same, about the numbers up to a length.
LEMMA CountingTo ==
  ASSUME NEW N \in Nat, NEW T, 0 \in T, \A n \in 1 .. N : n - 1 \in T => n \in T
  PROVE  \A n \in 0 .. N : n \in T
<1> DEFINE U == {n \in Nat : n <= N => n \in T}
<1>1. 0 \in U
  OBVIOUS
<1>2. ASSUME NEW n \in Nat, n \in U PROVE n + 1 \in U
  <2> SUFFICES ASSUME n + 1 <= N PROVE n + 1 \in T
    OBVIOUS
  <2>1. n + 1 \in 1 .. N /\ (n + 1) - 1 = n /\ n \in T
    BY <1>2
  <2> QED BY <2>1
<1>3. Nat \subseteq U
  <2> HIDE DEF U
  <2> QED BY <1>1, <1>2, Counting
<1> QED BY <1>3

(* A little arithmetic.                                                    *)
LEMMA Within == \A a, b \in Nat : \A i \in 1 .. a : i \in 1 .. a + b
  OBVIOUS
LEMMA StillFits == \A a, b, c, d \in Nat : a + b <= c => a + b <= c + d
  OBVIOUS
LEMMA OneMore ==
  \A a, b, c \in Nat : \A d \in Int : a <= d /\ b <= c => a + b <= d + c
  OBVIOUS

\* Where the n-th part begins, counted from 0.
At(parts, n) == Len(Flat(parts, n - 1))

\* Flattened parts of a set's elements are a sequence of these.
LEMMA FlatType ==
  ASSUME NEW S, NEW parts \in Seq(Seq(S))
  PROVE  /\ FlattenSeq(parts) \in Seq(S)
         /\ \A n \in 0 .. Len(parts) : Flat(parts, n) \in Seq(S) /\ Len(Flat(parts, n)) \in Nat
         /\ \A n \in 1 .. Len(parts) : Len(Flat(parts, n)) = At(parts, n) + Len(parts[n])
<1>1. /\ Flat(parts, 0) = <<>> /\ Flat(parts, Len(parts)) = FlattenSeq(parts)
      /\ \A m \in 1 .. Len(parts) : Flat(parts, m) = Flat(parts, m - 1) \o parts[m]
  BY FlatStep
<1>2. Len(parts) \in Nat /\ \A n \in 1 .. Len(parts) : parts[n] \in Seq(S)
  BY LenProperties
<1> DEFINE T == {n \in 0 .. Len(parts) : Flat(parts, n) \in Seq(S)}
<1>3. 0 \in T
  <2>1. <<>> \in Seq(S)
    BY EmptySeq
  <2>2. Flat(parts, 0) \in Seq(S)
    BY <1>1, <2>1, Zenon
  <2>3. 0 \in 0 .. Len(parts)
    BY <1>2
  <2> QED BY <2>2, <2>3, Zenon
<1>4. ASSUME NEW n \in 1 .. Len(parts), n - 1 \in T PROVE n \in T
  <2>1. Flat(parts, n) = Flat(parts, n - 1) \o parts[n]
    BY <1>1
  <2>2. Flat(parts, n - 1) \in Seq(S) /\ parts[n] \in Seq(S)
    BY <1>2, <1>4
  <2>3. (Flat(parts, n - 1) \o parts[n]) \in Seq(S)
    BY <2>2, ConcatProperties
  <2>4. Flat(parts, n) \in Seq(S)
    BY <2>1, <2>3, Zenon
  <2>5. n \in 0 .. Len(parts)
    BY <1>2
  <2> QED BY <2>4, <2>5, Zenon
<1>5. \A n \in 0 .. Len(parts) : n \in T
  <2> HIDE DEF T
  <2> QED BY <1>2, <1>3, <1>4, CountingTo
<1>6. \A n \in 0 .. Len(parts) : Flat(parts, n) \in Seq(S) /\ Len(Flat(parts, n)) \in Nat
  BY <1>5, LenProperties
<1>7. FlattenSeq(parts) \in Seq(S)
  BY <1>2, <1>6, <1>1
<1>8. ASSUME NEW n \in 1 .. Len(parts)
      PROVE  Len(Flat(parts, n)) = At(parts, n) + Len(parts[n])
  <2>1. Flat(parts, n) = Flat(parts, n - 1) \o parts[n]
    BY <1>1
  <2>2. Flat(parts, n - 1) \in Seq(S) /\ parts[n] \in Seq(S)
    BY <1>2, <1>6
  <2> QED BY <2>1, <2>2, ConcatProperties DEF At
<1> QED BY <1>6, <1>7, <1>8

\* Each part is where At has it.
LEMMA FlatAt ==
  ASSUME NEW S, NEW parts \in Seq(Seq(S)), NEW n \in 1 .. Len(parts)
  PROVE  /\ At(parts, n) \in Nat /\ Len(parts[n]) \in Nat
         /\ At(parts, n) + Len(parts[n]) <= Len(FlattenSeq(parts))
         /\ \A j \in 1 .. Len(parts[n]) : FlattenSeq(parts)[At(parts, n) + j] = parts[n][j]
<1>1. /\ Flat(parts, 0) = <<>> /\ Flat(parts, Len(parts)) = FlattenSeq(parts)
      /\ \A m \in 1 .. Len(parts) : Flat(parts, m) = Flat(parts, m - 1) \o parts[m]
  BY FlatStep
<1>2. /\ Len(parts) \in Nat /\ n - 1 \in 0 .. Len(parts) /\ n \in 0 .. Len(parts)
      /\ \A m \in 1 .. Len(parts) : parts[m] \in Seq(S) /\ Len(parts[m]) \in Nat
  BY LenProperties
<1>3. At(parts, n) \in Nat
  BY <1>2, FlatType DEF At
<1> DEFINE Holds(whole) ==
             /\ At(parts, n) + Len(parts[n]) <= Len(whole)
             /\ \A j \in 1 .. Len(parts[n]) : whole[At(parts, n) + j] = parts[n][j]
           T == {m \in 0 .. Len(parts) : m >= n => Holds(Flat(parts, m))}
<1>4. 0 \in T
  BY <1>2
<1>5. ASSUME NEW m \in 1 .. Len(parts), m - 1 \in T PROVE m \in T
  <2> SUFFICES ASSUME m >= n PROVE Holds(Flat(parts, m))
    BY <1>2
  <2>1. Flat(parts, m - 1) \in Seq(S) /\ parts[m] \in Seq(S)
    BY <1>2, FlatType
  <2>0. Len(Flat(parts, m - 1)) \in Nat /\ Len(parts[m]) \in Nat
    BY <2>1, LenProperties
  <2>2. /\ Flat(parts, m) = Flat(parts, m - 1) \o parts[m]
        /\ Len(Flat(parts, m)) = Len(Flat(parts, m - 1)) + Len(parts[m])
        /\ \A i \in 1 .. Len(Flat(parts, m - 1)) + Len(parts[m]) :
             Flat(parts, m)[i] = IF i <= Len(Flat(parts, m - 1)) THEN Flat(parts, m - 1)[i]
                                 ELSE parts[m][i - Len(Flat(parts, m - 1))]
    <3>1. Flat(parts, m) = Flat(parts, m - 1) \o parts[m]
      BY <1>1
    <3>2. /\ Len(Flat(parts, m - 1) \o parts[m]) = Len(Flat(parts, m - 1)) + Len(parts[m])
          /\ \A i \in 1 .. Len(Flat(parts, m - 1)) + Len(parts[m]) :
               (Flat(parts, m - 1) \o parts[m])[i] =
                 IF i <= Len(Flat(parts, m - 1)) THEN Flat(parts, m - 1)[i]
                 ELSE parts[m][i - Len(Flat(parts, m - 1))]
      BY <2>1, ConcatProperties
    <3> QED BY <3>1, <3>2, Zenon
  <2>3. CASE m = n
    <3>1. Len(Flat(parts, m - 1)) = At(parts, n)
      BY <2>3 DEF At
    <3>2. ASSUME NEW j \in 1 .. Len(parts[n])
          PROVE  Flat(parts, m)[At(parts, n) + j] = parts[n][j]
      <4>1. /\ At(parts, n) + j \in 1 .. At(parts, n) + Len(parts[n])
            /\ ~(At(parts, n) + j <= At(parts, n)) /\ (At(parts, n) + j) - At(parts, n) = j
        BY <1>2, <1>3
      <4> QED BY <2>2, <2>3, <3>1, <4>1
    <3>3. Len(Flat(parts, m)) = At(parts, n) + Len(parts[n])
      BY <2>2, <2>3, <3>1
    <3>4. At(parts, n) + Len(parts[n]) <= Len(Flat(parts, m))
      BY <1>2, <1>3, <3>3
    <3> QED BY <3>2, <3>4
  <2>4. CASE m # n
    <3>1. m - 1 >= n
      BY <1>2, <2>4
    <3>2. Holds(Flat(parts, m - 1))
      BY <1>5, <3>1
    <3>3. ASSUME NEW j \in 1 .. Len(parts[n])
          PROVE  Flat(parts, m)[At(parts, n) + j] = parts[n][j]
      <4>1. At(parts, n) + j \in 1 .. Len(Flat(parts, m - 1))
        BY <1>2, <1>3, <2>1, <3>2
      <4>2. At(parts, n) + j \in 1 .. Len(Flat(parts, m - 1)) + Len(parts[m])
        BY <2>0, <4>1, Within, Zenon
      <4>3. Flat(parts, m)[At(parts, n) + j] = Flat(parts, m - 1)[At(parts, n) + j]
        BY <2>0, <2>2, <4>1, <4>2
      <4> QED BY <3>2, <4>3
    <3>4. At(parts, n) + Len(parts[n]) <= Len(Flat(parts, m))
      <4>1. At(parts, n) + Len(parts[n]) <= Len(Flat(parts, m - 1)) /\ Len(parts[n]) \in Nat
        BY <1>2, <3>2
      <4>2. Len(Flat(parts, m)) = Len(Flat(parts, m - 1)) + Len(parts[m])
        BY <2>2
      <4> QED BY <1>3, <2>0, <4>1, <4>2, StillFits, Zenon
    <3> QED BY <3>3, <3>4
  <2> QED BY <2>3, <2>4
<1>6. Len(parts) \in T
  <2>1. \A m \in 0 .. Len(parts) : m \in T
    <3> HIDE DEF T
    <3> QED BY <1>2, <1>4, <1>5, CountingTo
  <2> QED BY <1>2, <2>1
<1>7. Holds(FlattenSeq(parts))
  BY <1>2, <1>6, <1>1
<1> QED BY <1>2, <1>3, <1>7

\* Nothing is between the parts.
LEMMA FlatOnto ==
  ASSUME NEW S, NEW parts \in Seq(Seq(S)), NEW i \in 1 .. Len(FlattenSeq(parts))
  PROVE  \E n \in 1 .. Len(parts) : \E j \in 1 .. Len(parts[n]) : i = At(parts, n) + j
<1>1. /\ Flat(parts, 0) = <<>> /\ Flat(parts, Len(parts)) = FlattenSeq(parts)
      /\ \A m \in 1 .. Len(parts) : Flat(parts, m) = Flat(parts, m - 1) \o parts[m]
  BY FlatStep
<1>2. Len(parts) \in Nat /\ \A m \in 1 .. Len(parts) : Len(parts[m]) \in Nat
  BY LenProperties
<1>3. \A m \in 0 .. Len(parts) : Len(Flat(parts, m)) \in Nat
  BY FlatType
<1> DEFINE Found == \E n \in 1 .. Len(parts) : \E j \in 1 .. Len(parts[n]) : i = At(parts, n) + j
           T == {m \in 0 .. Len(parts) : i <= Len(Flat(parts, m)) => Found}
<1>4. i \in Nat \ {0}
  <2>1. Len(FlattenSeq(parts)) \in Nat
    BY <1>2, <1>3, <1>1
  <2> QED BY <2>1
<1>5. 0 \in T
  <2>1. Len(Flat(parts, 0)) = 0
    BY <1>1
  <2> QED BY <1>2, <1>4, <2>1
<1>6. ASSUME NEW m \in 1 .. Len(parts), m - 1 \in T PROVE m \in T
  <2> SUFFICES ASSUME i <= Len(Flat(parts, m)), i > Len(Flat(parts, m - 1)) PROVE Found
    BY <1>2, <1>3, <1>4, <1>6
  <2>1. Len(Flat(parts, m)) = At(parts, m) + Len(parts[m]) /\ At(parts, m) \in Nat
    BY FlatType, FlatAt
  <2>2. i - At(parts, m) \in 1 .. Len(parts[m])
    <3>1. i > At(parts, m)
      BY DEF At
    <3>2. Len(parts[m]) \in Nat /\ i <= At(parts, m) + Len(parts[m])
      BY <1>2, <2>1
    <3> QED BY <1>4, <2>1, <3>1, <3>2
  <2>3. i = At(parts, m) + (i - At(parts, m))
    BY <1>4, <2>1
  <2> QED BY <2>2, <2>3
<1>7. Len(parts) \in T
  <2>1. \A m \in 0 .. Len(parts) : m \in T
    <3> HIDE DEF T
    <3> QED BY <1>2, <1>5, <1>6, CountingTo
  <2> QED BY <1>2, <2>1
<1> QED BY <1>7, <1>1

\* The parts' lengths bound where each begins.
LEMMA FlatBound ==
  ASSUME NEW S, NEW parts \in Seq(Seq(S)), NEW most \in Nat,
         \A n \in 1 .. Len(parts) : Len(parts[n]) <= most
  PROVE  \A n \in 0 .. Len(parts) : Len(Flat(parts, n)) <= n * most
<1>1. /\ Flat(parts, 0) = <<>> /\ Flat(parts, Len(parts)) = FlattenSeq(parts)
      /\ \A m \in 1 .. Len(parts) : Flat(parts, m) = Flat(parts, m - 1) \o parts[m]
  BY FlatStep
<1>2. Len(parts) \in Nat /\ \A m \in 1 .. Len(parts) : Len(parts[m]) \in Nat
  BY LenProperties
<1>3. /\ \A n \in 0 .. Len(parts) : Len(Flat(parts, n)) \in Nat
      /\ \A n \in 1 .. Len(parts) :
           Len(Flat(parts, n)) = Len(Flat(parts, n - 1)) + Len(parts[n])
  BY FlatType DEF At
<1> DEFINE T == {n \in 0 .. Len(parts) : Len(Flat(parts, n)) <= n * most}
<1>4. 0 \in T
  BY <1>2, <1>1
<1>5. ASSUME NEW n \in 1 .. Len(parts), n - 1 \in T PROVE n \in T
  <2>1. (n - 1) * most + most = n * most
    BY <1>2
  <2>2. (n - 1) * most \in Int /\ n * most \in Int
    BY <1>2
  <2>3. Len(Flat(parts, n - 1)) \in Nat /\ Len(parts[n]) \in Nat /\ Len(parts[n]) <= most
    BY <1>2, <1>3
  <2>4. Len(Flat(parts, n)) <= n * most
    <3>1. Len(Flat(parts, n)) = Len(Flat(parts, n - 1)) + Len(parts[n])
      BY <1>3
    <3>2. Len(Flat(parts, n - 1)) <= (n - 1) * most
      BY <1>5
    <3> HIDE <1>3, <1>5
    <3>3. Len(Flat(parts, n - 1)) + Len(parts[n]) <= (n - 1) * most + most
      BY <2>2, <2>3, <3>2, OneMore, Zenon
    <3> QED BY <2>1, <3>1, <3>3, Zenon
  <2> QED BY <1>2, <2>4
<1> QED
  <2> HIDE DEF T
  <2>1. \A m \in 0 .. Len(parts) : m \in T
    BY <1>2, <1>4, <1>5, CountingTo
  <2> QED BY <2>1 DEF T

\* Parts of one length.
LEMMA FlatEven ==
  ASSUME NEW S, NEW parts \in Seq(Seq(S)), NEW size \in Nat,
         \A n \in 1 .. Len(parts) : Len(parts[n]) = size
  PROVE  \A n \in 0 .. Len(parts) : Len(Flat(parts, n)) = n * size
<1>1. /\ Flat(parts, 0) = <<>> /\ Flat(parts, Len(parts)) = FlattenSeq(parts)
      /\ \A m \in 1 .. Len(parts) : Flat(parts, m) = Flat(parts, m - 1) \o parts[m]
  BY FlatStep
<1>2. Len(parts) \in Nat
  BY LenProperties
<1>3. /\ \A n \in 0 .. Len(parts) : Len(Flat(parts, n)) \in Nat
      /\ \A n \in 1 .. Len(parts) :
           Len(Flat(parts, n)) = Len(Flat(parts, n - 1)) + Len(parts[n])
  BY FlatType DEF At
<1> DEFINE T == {n \in 0 .. Len(parts) : Len(Flat(parts, n)) = n * size}
<1>4. 0 \in T
  BY <1>2, <1>1
<1>5. ASSUME NEW n \in 1 .. Len(parts), n - 1 \in T PROVE n \in T
  <2>1. (n - 1) * size + size = n * size
    BY <1>2
  <2>2. Len(Flat(parts, n)) = n * size
    BY <1>3, <1>5, <2>1
  <2> QED BY <1>2, <2>2
<1> QED
  <2> HIDE DEF T
  <2>1. \A m \in 0 .. Len(parts) : m \in T
    BY <1>2, <1>4, <1>5, CountingTo
  <2> QED BY <2>1 DEF T

-----------------------------------------------------------------------------
(* Reading a payload.                                                      *)

Octet == 0 .. 255

LEMMA OctetIs ==
  Octet \subseteq Nat /\ \A x \in Octet : x <= 1 <=> x \in {0, 1}
  BY DEF Octet

LEMMA Limits ==
  /\ Count \in Nat /\ NameChars \in Nat /\ NameBytes \in Nat
  /\ BoardChars \in Nat /\ BoardBytes \in Nat /\ MaxFile \in Nat
  /\ Count < 256 /\ BoardBytes < 65536 /\ Count * NameBytes < 65536
  BY LayoutAssumption

\* A byte before the end of the buffer is one; two make a word.
LEMMA ByteIs ==
  ASSUME NEW b \in Seq(Octet), NEW i \in 0 .. Len(b) - 1
  PROVE  Byte(b, i) = b[i + 1] /\ Byte(b, i) \in Octet
<1>1. Len(b) \in Nat /\ i + 1 \in 1 .. Len(b) /\ i < Len(b)
  BY LenProperties
<1>2. b[i + 1] \in Octet
  BY <1>1, LenProperties
<1> QED BY <1>1, <1>2 DEF Byte

LEMMA Le16Is ==
  ASSUME NEW b \in Seq(Octet), NEW i \in Nat, i + 1 < Len(b)
  PROVE  Le16(b, i) \in Nat /\ Le16(b, i) = b[i + 1] + 256 * b[i + 2]
<1>1. Len(b) \in Nat
  BY LenProperties
<1>2. i \in 0 .. Len(b) - 1 /\ i + 1 \in 0 .. Len(b) - 1 /\ (i + 1) + 1 = i + 2
  BY <1>1
<1>3. Byte(b, i) = b[i + 1] /\ Byte(b, i) \in Octet
  BY <1>2, ByteIs
<1>4. Byte(b, i + 1) = b[i + 2] /\ Byte(b, i + 1) \in Octet
  BY <1>2, ByteIs
<1>5. Byte(b, i) + 256 * Byte(b, i + 1) \in Nat
  <2>1. \A x, y \in Octet : x + 256 * y \in Nat
    BY DEF Octet
  <2> QED BY <1>3, <1>4, <2>1
<1> QED BY <1>3, <1>4, <1>5 DEF Le16

\* The lengths of a payload that has a header.
LEMMA HeaderFields ==
  ASSUME NEW b \in Seq(Octet), Len(b) >= PayloadHeaderLen
  PROVE  BoardLen(b) \in Nat /\ TableLen(b) \in Nat
<1>1. Len(b) \in Nat /\ Len(b) >= 20
  BY LenProperties DEF PayloadHeaderLen
<1>2. Le16(b, 8) \in Nat
  BY <1>1, Le16Is
<1>3. Le16(b, 10) \in Nat
  BY <1>1, Le16Is
<1> QED BY <1>2, <1>3 DEF BoardLen, TableLen

\* The fields of a record of a payload that holds all records.
LEMMA RecordFields ==
  ASSUME NEW b \in Seq(Octet), Len(b) >= BoardAt, NEW i \in 1 .. Count
  PROVE  /\ Byte(b, RecordAt(i)) \in Octet
         /\ Byte(b, RecordAt(i) + 1) \in Octet
         /\ Byte(b, RecordAt(i) + 2) \in Octet
         /\ NameAt(b, i) \in Nat /\ NameLen(b, i) \in Nat
<1>1. Len(b) \in Nat /\ Count \in Nat
  BY LenProperties, Limits
<1>2. /\ RecordAt(i) \in 0 .. Len(b) - 1 /\ RecordAt(i) + 1 \in 0 .. Len(b) - 1
      /\ RecordAt(i) + 2 \in 0 .. Len(b) - 1
      /\ RecordAt(i) + 8 \in Nat /\ (RecordAt(i) + 8) + 1 < Len(b)
      /\ RecordAt(i) + 10 \in Nat /\ (RecordAt(i) + 10) + 1 < Len(b)
  BY <1>1 DEF RecordAt, BoardAt, PayloadHeaderLen, RecordSize
<1>3. /\ Byte(b, RecordAt(i)) \in Octet
      /\ Byte(b, RecordAt(i) + 1) \in Octet
      /\ Byte(b, RecordAt(i) + 2) \in Octet
  BY <1>2, ByteIs
<1>4. NameAt(b, i) \in Nat
  BY <1>2, Le16Is DEF NameAt
<1>5. NameLen(b, i) \in Nat
  BY <1>2, Le16Is DEF NameLen
<1> QED BY <1>3, <1>4, <1>5

LEMMA LenBytes ==
  ASSUME NEW b, NEW at, NEW n \in Nat
  PROVE  Len(Bytes(b, at, n)) = n
  BY DEF Bytes

\* Each address once: no two of Count addresses below Count are equal, or all
\* of them are there.
LEMMA EachOnce ==
  ASSUME NEW a \in [1 .. Count -> Nat]
  PROVE  (\A i \in 1 .. Count : a[i] < Count /\ \A j \in 1 .. i - 1 : a[j] # a[i])
           <=> {a[i] : i \in 1 .. Count} = 0 .. Count - 1
<1> DEFINE Below == 0 .. Count - 1
           Used == {a[i] : i \in 1 .. Count}
<1>1. Count \in Nat
  BY Limits
<1>2. /\ IsFiniteSet(1 .. Count) /\ Cardinality(1 .. Count) = Count
      /\ IsFiniteSet(Below) /\ Cardinality(Below) = Count
  <2>1. IsFiniteSet(1 .. Count) /\ Cardinality(1 .. Count) = Count
    BY <1>1, FS_Interval
  <2>2. IsFiniteSet(Below) /\ Cardinality(Below) = Count
    <3>1. Count - 1 \in Int /\ 0 \in Int /\ (0 > Count - 1 => Count = 0)
          /\ (Count - 1) - 0 + 1 = Count
      BY <1>1
    <3>2. IsFiniteSet(0 .. Count - 1)
      BY <3>1, FS_Interval
    <3>3. Cardinality(0 .. Count - 1) = IF 0 > Count - 1 THEN 0 ELSE (Count - 1) - 0 + 1
      BY <3>1, FS_Interval
    <3> QED BY <3>1, <3>2, <3>3
  <2> QED BY <2>1, <2>2
<1> HIDE DEF Below
<1>3. ASSUME \A i \in 1 .. Count : a[i] < Count /\ \A j \in 1 .. i - 1 : a[j] # a[i]
      PROVE  Used = Below
  <2>1. a \in [1 .. Count -> Below]
    BY <1>1, <1>3 DEF Below
  <2>2. ASSUME NEW i \in 1 .. Count, NEW j \in 1 .. Count, a[i] = a[j]
        PROVE  i = j
    <3>1. ~(j < i) /\ ~(i < j)
      <4>1. j < i => j \in 1 .. i - 1
        BY <1>1
      <4>2. i < j => i \in 1 .. j - 1
        BY <1>1
      <4> QED BY <1>3, <2>2, <4>1, <4>2
    <3> QED BY <1>1, <3>1
  <2>3. a \in Injection(1 .. Count, Below)
    BY <2>1, <2>2, Zenon DEF Injection, IsInjective
  <2>4. a \in Surjection(1 .. Count, Below)
    BY <1>2, <2>3, FS_Injection
  <2> QED BY <2>1, <2>4 DEF Surjection
<1>4. ASSUME Used = Below, NEW i \in 1 .. Count
      PROVE  a[i] < Count /\ \A j \in 1 .. i - 1 : a[j] # a[i]
  <2>1. a \in [1 .. Count -> Below] /\ \A t \in Below : \E k \in 1 .. Count : a[k] = t
    BY <1>4
  <2>2. a \in Surjection(1 .. Count, Below)
    BY <2>1 DEF Surjection
  <2>3. a \in Injection(1 .. Count, Below)
    BY <1>2, <2>2, FS_SurjSameCardinalityImpliesInj
  <2>4. \A j \in 1 .. i - 1 : j \in 1 .. Count /\ j # i
    BY <1>1
  <2>5. \A j \in 1 .. i - 1 : a[j] # a[i]
    BY <2>1, <2>3, <2>4, Zenon DEF Injection, IsInjective
  <2>6. a[i] \in Below
    BY <2>1
  <2>7. a[i] < Count
    BY <1>1, <2>6 DEF Below
  <2> QED BY <2>5, <2>7
<1> QED BY <1>3, <1>4 DEF Below

\* A payload that either decoder takes has a header and all records.
LEMMA AllThere ==
  ASSUME NEW b \in Seq(Octet), Takes(b) \/ ToolTakes(b)
  PROVE  /\ Len(b) >= PayloadHeaderLen /\ Len(b) >= BoardAt
         /\ BoardLen(b) \in Nat /\ TableLen(b) \in Nat
<1>1. Len(b) >= PayloadHeaderLen /\ Len(b) >= TableAt(b) + TableLen(b) /\ Len(b) \in Nat
  BY LenProperties DEF Takes, ToolTakes, Complete
<1>2. BoardLen(b) \in Nat /\ TableLen(b) \in Nat
  BY <1>1, HeaderFields
<1>3. BoardAt \in Nat
  BY Limits DEF BoardAt, PayloadHeaderLen, RecordSize
<1> QED BY <1>1, <1>2, <1>3 DEF TableAt

\* The firmware and the tool look at the addresses differently.
LEMMA SameAddresses ==
  ASSUME NEW b \in Seq(Octet), Len(b) >= BoardAt
  PROVE  Unique(b) <=> {Byte(b, RecordAt(i)) : i \in 1 .. Count} = 0 .. Count - 1
<1> DEFINE a == [i \in 1 .. Count |-> Byte(b, RecordAt(i))]
<1>1. \A i \in 1 .. Count : Byte(b, RecordAt(i)) \in Nat
  BY RecordFields, OctetIs
<1>2. a \in [1 .. Count -> Nat] /\ \A i \in 1 .. Count : a[i] = Byte(b, RecordAt(i))
  BY <1>1
<1>3. \A i \in 1 .. Count : \A j \in 1 .. i - 1 : j \in 1 .. Count
  BY Limits
<1> HIDE DEF a
<1>4. Unique(b) <=> \A i \in 1 .. Count : a[i] < Count /\ \A j \in 1 .. i - 1 : a[j] # a[i]
  BY <1>2, <1>3 DEF Unique
<1>5. {Byte(b, RecordAt(i)) : i \in 1 .. Count} = {a[i] : i \in 1 .. Count}
  BY <1>2
<1> QED BY <1>2, <1>4, <1>5, EachOnce

\* What the tool takes, the firmware takes if its names fit.
LEMMA FirmwareTakes ==
  ASSUME NEW b \in Seq(Octet), ToolTakes(b), \A i \in 1 .. Count : NameLen(b, i) <= NameBytes
  PROVE  Takes(b)
<1>1. /\ Len(b) >= PayloadHeaderLen /\ SubSeq(b, 1, 4) = Magic
      /\ Le16(b, 4) = Schema /\ Byte(b, 6) = Count /\ Byte(b, 7) = RecordSize
      /\ BoardLen(b) # 0 /\ BoardLen(b) <= BoardBytes /\ Complete(b)
      /\ {Byte(b, RecordAt(i)) : i \in 1 .. Count} = 0 .. Count - 1
  BY DEF ToolTakes, Complete
<1>2. BoardLen(b) \in 1 .. BoardBytes
  BY <1>1, AllThere, Limits
<1>3. Unique(b)
  BY <1>1, AllThere, SameAddresses
<1>4. ASSUME NEW i \in 1 .. Count
      PROVE  /\ Byte(b, RecordAt(i) + 1) <= 1
             /\ Byte(b, RecordAt(i) + 2) \in {0, 1}
             /\ NameAt(b, i) + NameLen(b, i) <= TableLen(b)
  BY DEF ToolTakes
<1> QED BY <1>1, <1>2, <1>3, <1>4 DEF Takes

\* What the firmware takes, the tool takes if it is text.
LEMMA ToolTakesToo ==
  ASSUME NEW b \in Seq(Octet), Takes(b), IsUtf8(Bytes(b, BoardAt, BoardLen(b))),
         \A i \in 1 .. Count : IsUtf8(NameField(b, i))
  PROVE  ToolTakes(b)
<1>1. /\ Len(b) >= PayloadHeaderLen /\ SubSeq(b, 1, 4) = Magic
      /\ Le16(b, 4) = Schema /\ Byte(b, 6) = Count /\ Byte(b, 7) = RecordSize
      /\ BoardLen(b) \in 1 .. BoardBytes /\ Len(b) >= TableAt(b) + TableLen(b) /\ Unique(b)
  BY DEF Takes, Complete
<1>2. BoardLen(b) # 0 /\ BoardLen(b) <= BoardBytes
  BY <1>1, Limits
<1>3. {Byte(b, RecordAt(i)) : i \in 1 .. Count} = 0 .. Count - 1
  BY <1>1, AllThere, SameAddresses
<1>4. ASSUME NEW i \in 1 .. Count
      PROVE  /\ Byte(b, RecordAt(i) + 1) \in {0, 1}
             /\ Byte(b, RecordAt(i) + 2) \in {0, 1}
             /\ NameAt(b, i) + NameLen(b, i) <= TableLen(b)
  <2>1. Byte(b, RecordAt(i) + 1) \in Octet
    BY AllThere, RecordFields
  <2>2. /\ Byte(b, RecordAt(i) + 1) <= 1 /\ Byte(b, RecordAt(i) + 2) \in {0, 1}
        /\ NameAt(b, i) + NameLen(b, i) <= TableLen(b)
    BY DEF Takes
  <2>3. Byte(b, RecordAt(i) + 1) \in {0, 1}
    BY <2>1, <2>2, OctetIs
  <2> QED BY <2>2, <2>3
<1> QED BY <1>1, <1>2, <1>3, <1>4 DEF ToolTakes

\* Both make the same of a payload.
LEMMA ContentIs ==
  ASSUME NEW b
  PROVE  /\ BinContent(b).took = TRUE
         /\ BinContent(b).board = Bytes(b, BoardAt, BoardLen(b))
         /\ \A i \in 1 .. Count : BinContent(b).params[i].name = NameField(b, i)
  BY DEF BinContent, Took, Decoded

\* The two decoders on one file.
Agree(f, fw, tool) ==
  \/ fw = tool
  \/ /\ tool.took /\ fw = Refused
     /\ \/ f.size > MaxFile
        \/ \E i \in 1 .. Count : Len(tool.params[i].name) > NameBytes
  \/ /\ fw.took /\ tool = Refused
     /\ \/ ~IsUtf8(fw.board)
        \/ \E i \in 1 .. Count : ~IsUtf8(fw.params[i].name)

\* The two decoders on the same file, whatever it holds.
LEMMA Agreement ==
  ASSUME NEW f, f.size \in Nat, f.body \in Seq(Octet)
  PROVE  Agree(f, ParseFile(f), ToolParse(f))
<1> DEFINE b == f.body
           Sized == f.size \in HeaderSize + TagLen .. MaxFile
           Read == Authentic(f) /\ f.size >= HeaderSize + TagLen
<1>1. ParseFile(f) = IF Sized /\ Authentic(f) /\ Takes(b) THEN BinContent(b) ELSE Refused
  BY DEF ParseFile
<1>2. ToolParse(f) = IF Read /\ ToolTakes(b) THEN BinContent(b) ELSE Refused
  BY DEF ToolParse
<1>3. Sized <=> f.size >= HeaderSize + TagLen /\ ~(f.size > MaxFile)
  BY Limits DEF HeaderSize, TagLen
<1>4. /\ BinContent(b).took = TRUE
      /\ BinContent(b).board = Bytes(b, BoardAt, BoardLen(b))
      /\ \A i \in 1 .. Count : BinContent(b).params[i].name = NameField(b, i)
  BY ContentIs
<1>5. CASE ToolParse(f) = BinContent(b) /\ ParseFile(f) = Refused /\ Read /\ ToolTakes(b)
  <2> SUFFICES ASSUME ~(f.size > MaxFile),
                      \A i \in 1 .. Count : ~(Len(NameField(b, i)) > NameBytes)
               PROVE  ParseFile(f) = BinContent(b)
    BY <1>4, <1>5, Zenon DEF Agree
  <2>1. ASSUME NEW i \in 1 .. Count PROVE NameLen(b, i) <= NameBytes
    <3>1. NameLen(b, i) \in Nat
      BY <1>5, AllThere, RecordFields
    <3>2. Len(NameField(b, i)) = NameLen(b, i)
      BY <3>1, LenBytes DEF NameField
    <3> QED BY <3>1, <3>2, Limits
  <2>2. Takes(b)
    BY <1>5, <2>1, FirmwareTakes
  <2> QED BY <1>1, <1>3, <1>5, <2>2, Zenon
<1>6. CASE /\ ParseFile(f) = BinContent(b) /\ ToolParse(f) = Refused
           /\ Sized /\ Authentic(f) /\ Takes(b)
  <2> SUFFICES ASSUME IsUtf8(Bytes(b, BoardAt, BoardLen(b))),
                      \A i \in 1 .. Count : IsUtf8(NameField(b, i))
               PROVE  ToolParse(f) = BinContent(b)
    BY <1>4, <1>6, Zenon DEF Agree
  <2>1. ToolTakes(b)
    BY <1>6, ToolTakesToo
  <2> QED BY <1>2, <1>3, <1>6, <2>1, Zenon
<1>7. CASE ParseFile(f) = ToolParse(f)
  BY <1>7 DEF Agree
<1>8. CASE ParseFile(f) # ToolParse(f)
  <2> DEFINE P == Sized /\ Authentic(f) /\ Takes(b)
             T == Read /\ ToolTakes(b)
  <2>1. (ParseFile(f) = BinContent(b) /\ P) \/ (ParseFile(f) = Refused /\ ~P)
    BY <1>1
  <2>2. (ToolParse(f) = BinContent(b) /\ T) \/ (ToolParse(f) = Refused /\ ~T)
    BY <1>2
  <2>3. P => Sized /\ Authentic(f) /\ Takes(b)
    OBVIOUS
  <2>4. T => Read /\ ToolTakes(b)
    OBVIOUS
  <2> HIDE DEF P, T
  <2>5. CASE ParseFile(f) = BinContent(b) /\ P /\ ToolParse(f) = Refused
    BY <1>6, <2>3, <2>5, Zenon
  <2>6. CASE ToolParse(f) = BinContent(b) /\ T /\ ParseFile(f) = Refused
    BY <1>5, <2>4, <2>6, Zenon
  <2>7. CASE ParseFile(f) = BinContent(b) /\ ToolParse(f) = BinContent(b)
    BY <1>8, <2>7
  <2>8. CASE ParseFile(f) = Refused /\ ToolParse(f) = Refused
    BY <1>8, <2>8
  <2> HIDE DEF b
  <2> QED BY <2>1, <2>2, <2>5, <2>6, <2>7, <2>8
<1> QED BY <1>7, <1>8

-----------------------------------------------------------------------------
(* Writing a payload.                                                      *)

\* r begins with s.
Starts(r, s) == \A i \in 1 .. Len(s) : i \in 1 .. Len(r) /\ r[i] = s[i]
\* The word at place k of r.
WordAt(r, k, n) == r[k] + 256 * r[k + 1] = n

LEMMA WordBelow == \A x \in Nat : \A y \in Word : x <= y => x \in Word
  BY DEF Word
LEMMA WordParts == \A x, y \in Nat : \A z \in Word : x + y <= z => x \in Word /\ y \in Word
  BY DEF Word

\* The two bytes of a word, the low one first.
LEMMA U16Is ==
  ASSUME NEW n \in Word
  PROVE  \E low, high \in Octet : U16(n) = <<low, high>> /\ low + 256 * high = n
<1>1. n % 256 = n - 256 * (n \div 256) /\ n % 256 \in 0 .. 255 /\ (n \div 256) \in 0 .. 255
  BY SMTT(30) DEF Word
<1>2. (n \div 256) % 256 = n \div 256
  BY <1>1, SMTT(30)
<1>3. (n % 256) + 256 * ((n \div 256) % 256) = n
  BY <1>1, <1>2 DEF Word
<1>4. n % 256 \in Octet /\ ((n \div 256) % 256) \in Octet
  BY <1>1, <1>2 DEF Octet
<1> QED BY <1>3, <1>4, Zenon DEF U16

\* A join starts with the one and goes on with the other.
LEMMA Joined ==
  ASSUME NEW s \in Seq(Octet), NEW t \in Seq(Octet), NEW r, r = s \o t
  PROVE  /\ r \in Seq(Octet) /\ Len(r) = Len(s) + Len(t) /\ Starts(r, s)
         /\ \A i \in 1 .. Len(t) : r[Len(s) + i] = t[i]
<1>1. Len(s) \in Nat /\ Len(t) \in Nat
  BY LenProperties
<1>2. /\ r \in Seq(Octet) /\ Len(r) = Len(s) + Len(t)
      /\ \A i \in 1 .. Len(s) + Len(t) : r[i] = IF i <= Len(s) THEN s[i] ELSE t[i - Len(s)]
  BY ConcatProperties
<1>3. ASSUME NEW i \in 1 .. Len(s) PROVE i \in 1 .. Len(r) /\ r[i] = s[i]
  BY <1>1, <1>2
<1>4. ASSUME NEW i \in 1 .. Len(t) PROVE r[Len(s) + i] = t[i]
  <2>1. /\ Len(s) + i \in 1 .. Len(s) + Len(t) /\ ~(Len(s) + i <= Len(s))
        /\ (Len(s) + i) - Len(s) = i
    BY <1>1
  <2> QED BY <1>2, <2>1
<1> QED BY <1>2, <1>3, <1>4 DEF Starts

LEMMA StartsOn ==
  ASSUME NEW q, NEW r, NEW s, Starts(q, r), Starts(r, s)
  PROVE  Starts(q, s)
  BY DEF Starts

\* Two more bytes, and a word more.
LEMMA TwoMore ==
  ASSUME NEW k \in Nat, NEW s \in Seq(Octet), Len(s) = k,
         NEW t \in Seq(Octet), Len(t) = 2, NEW r, r = s \o t
  PROVE  /\ r \in Seq(Octet) /\ Len(r) = k + 2 /\ Starts(r, s)
         /\ r[k + 1] = t[1] /\ r[k + 2] = t[2]
<1>1. /\ r \in Seq(Octet) /\ Len(r) = Len(s) + Len(t) /\ Starts(r, s)
      /\ \A i \in 1 .. Len(t) : r[Len(s) + i] = t[i]
  BY Joined
<1>2. 1 \in 1 .. Len(t) /\ 2 \in 1 .. Len(t)
  OBVIOUS
<1>3. r[k + 1] = t[1] /\ r[k + 2] = t[2]
  BY <1>1, <1>2, Zenon
<1> QED BY <1>1, <1>3

LEMMA Pair ==
  ASSUME NEW x \in Octet, NEW y \in Octet, NEW t, t = <<x, y>>
  PROVE  t \in Seq(Octet) /\ Len(t) = 2 /\ t[1] = x /\ t[2] = y
  OBVIOUS

\* A word that is added stands after what there was,
LEMMA WordMore ==
  ASSUME NEW k \in Nat, NEW s \in Seq(Octet), Len(s) = k, NEW n \in Word,
         NEW r, r = s \o U16(n)
  PROVE  /\ r \in Seq(Octet) /\ Len(r) = k + 2 /\ Starts(r, s)
         /\ WordAt(r, k + 1, n)
<1>1. PICK low, high \in Octet : U16(n) = <<low, high>> /\ low + 256 * high = n
  BY U16Is
<1> DEFINE t == U16(n)
<1>2. t \in Seq(Octet) /\ Len(t) = 2 /\ t[1] = low /\ t[2] = high
  BY <1>1, Pair
<1>3. r = s \o t
  OBVIOUS
<1> HIDE DEF t
<1>4. /\ r \in Seq(Octet) /\ Len(r) = k + 2 /\ Starts(r, s)
      /\ r[k + 1] = t[1] /\ r[k + 2] = t[2]
  BY <1>2, <1>3, TwoMore
<1>5. (k + 1) + 1 = k + 2
  OBVIOUS
<1> QED BY <1>1, <1>2, <1>5, <1>4 DEF WordAt

\* and stays where it is as more is added.
LEMMA WordKept ==
  ASSUME NEW r, NEW s \in Seq(Octet), Starts(r, s), NEW n, NEW k \in Nat \ {0}, k + 1 <= Len(s),
         WordAt(s, k, n)
  PROVE  WordAt(r, k, n)
<1>1. Len(s) \in Nat
  BY LenProperties
<1>2. k \in 1 .. Len(s) /\ k + 1 \in 1 .. Len(s)
  BY <1>1
<1>3. r[k] = s[k] /\ r[k + 1] = s[k + 1]
  BY <1>2, Zenon DEF Starts
<1> QED BY <1>3, Zenon DEF WordAt

\* A record: four bytes and four words.
RecordOf(a, t, q, d, e, o, n) ==
  <<a, t, q, 0>> \o U16(d) \o U16(e) \o U16(o) \o U16(n)
\* What its bytes are.
RecordShape(r, a, t, q, d, e, o, n) ==
  /\ r \in Seq(Octet) /\ Len(r) = 12
  /\ r[1] = a /\ r[2] = t /\ r[3] = q
  /\ WordAt(r, 5, d) /\ WordAt(r, 7, e) /\ WordAt(r, 9, o) /\ WordAt(r, 11, n)

LEMMA RecordBytes ==
  ASSUME NEW a \in Octet, NEW t \in Octet, NEW q \in Octet,
         NEW d \in Word, NEW e \in Word, NEW o \in Word, NEW n \in Word,
         NEW r, r = RecordOf(a, t, q, d, e, o, n)
  PROVE  RecordShape(r, a, t, q, d, e, o, n)
<1> DEFINE s == <<a, t, q, 0>>
           sd == s \o U16(d)
           se == sd \o U16(e)
           so == se \o U16(o)
<1>1. s \in Seq(Octet) /\ Len(s) = 4 /\ s[1] = a /\ s[2] = t /\ s[3] = q
  BY DEF Octet
<1> HIDE DEF s
<1>2. sd \in Seq(Octet) /\ Len(sd) = 4 + 2 /\ Starts(sd, s) /\ WordAt(sd, 4 + 1, d)
  BY <1>1, WordMore
<1>3. Len(sd) = 6 /\ WordAt(sd, 5, d)
  BY <1>2
<1> HIDE DEF sd
<1>4. se \in Seq(Octet) /\ Len(se) = 6 + 2 /\ Starts(se, sd) /\ WordAt(se, 6 + 1, e)
  BY <1>2, <1>3, WordMore
<1>5. Len(se) = 8 /\ WordAt(se, 7, e)
  BY <1>4
<1> HIDE DEF se
<1>6. so \in Seq(Octet) /\ Len(so) = 8 + 2 /\ Starts(so, se) /\ WordAt(so, 8 + 1, o)
  BY <1>4, <1>5, WordMore
<1>7. Len(so) = 10 /\ WordAt(so, 9, o)
  BY <1>6
<1> HIDE DEF so
<1>8. r \in Seq(Octet) /\ Len(r) = 10 + 2 /\ Starts(r, so) /\ WordAt(r, 10 + 1, n)
  <2>1. r = so \o U16(n)
    BY DEF so, se, sd, s, RecordOf
  <2> QED BY <1>6, <1>7, <2>1, WordMore
<1>9. Starts(r, se) /\ Starts(r, sd) /\ Starts(r, s)
  BY <1>2, <1>4, <1>6, <1>8, StartsOn, Zenon
<1>10. WordAt(r, 9, o)
  <2>1. 9 \in Nat \ {0} /\ 9 + 1 <= Len(so)
    BY <1>7
  <2> QED BY <1>6, <1>7, <1>8, <2>1, WordKept, Zenon
<1>11. WordAt(r, 7, e)
  <2>1. 7 \in Nat \ {0} /\ 7 + 1 <= Len(se)
    BY <1>5
  <2> QED BY <1>4, <1>5, <1>9, <2>1, WordKept, Zenon
<1>12. WordAt(r, 5, d)
  <2>1. 5 \in Nat \ {0} /\ 5 + 1 <= Len(sd)
    BY <1>3
  <2> QED BY <1>2, <1>3, <1>9, <2>1, WordKept, Zenon
<1>13. r[1] = a /\ r[2] = t /\ r[3] = q
  BY <1>1, <1>9 DEF Starts
<1>14. Len(r) = 12 /\ WordAt(r, 11, n)
  BY <1>8
<1> QED BY <1>8, <1>10, <1>11, <1>12, <1>13, <1>14, Zenon DEF RecordShape

\* The same, for citing.
LEMMA RecordIs ==
  \A a, t, q \in Octet : \A d, e, o, n \in Word :
    RecordShape(RecordOf(a, t, q, d, e, o, n), a, t, q, d, e, o, n)
BY RecordBytes DEF RecordShape

\* The header of a payload.
HeadOf(boardLen, tableLen) ==
  Magic \o U16(Schema) \o <<Count, RecordSize>> \o U16(boardLen) \o U16(tableLen)
        \o [i \in 1 .. 8 |-> 0]

Sizes == <<Count, RecordSize>>

\* The fields of the header of a payload.
LEMMA HeadIs ==
  ASSUME NEW n \in Word, NEW m \in Word, NEW h, h = HeadOf(n, m)
  PROVE  /\ h \in Seq(Octet) /\ Len(h) = 20
         /\ \A i \in 1 .. 4 : h[i] = Magic[i]
         /\ WordAt(h, 5, Schema) /\ h[7] = Count /\ h[8] = RecordSize
         /\ WordAt(h, 9, n) /\ WordAt(h, 11, m)
<1> DEFINE s == Magic \o U16(Schema)
           sr == s \o <<Count, RecordSize>>
           sn == sr \o U16(n)
           sm == sn \o U16(m)
           zeros == [i \in 1 .. 8 |-> 0]
<1>1. Magic \in Seq(Octet) /\ Len(Magic) = 4
  BY DEF Magic, Octet
<1>2. Schema \in Word /\ Count \in Octet /\ RecordSize \in Octet
  BY Limits DEF Schema, RecordSize, Octet, Word
<1>3. s \in Seq(Octet) /\ Len(s) = 4 + 2 /\ Starts(s, Magic) /\ WordAt(s, 4 + 1, Schema)
  BY <1>1, <1>2, WordMore
<1> HIDE DEF s
<1>4. Len(s) = 6 /\ WordAt(s, 5, Schema)
  BY <1>3
<1>5. /\ sr \in Seq(Octet) /\ Len(sr) = 6 + 2 /\ Starts(sr, s)
      /\ sr[6 + 1] = Count /\ sr[6 + 2] = RecordSize
  <2>1. sr = s \o Sizes
    BY DEF sr, Sizes
  <2>2. Sizes \in Seq(Octet) /\ Len(Sizes) = 2 /\ Sizes[1] = Count /\ Sizes[2] = RecordSize
    BY <1>2, Pair DEF Sizes
  <2> HIDE DEF sr
  <2>3. s \in Seq(Octet) /\ Len(s) \in Nat
    BY <1>3, <1>4
  <2>4. sr \in Seq(Octet)
    BY <2>1, <2>2, <2>3, TwoMore
  <2>5. Len(sr) = Len(s) + Len(Sizes)
    BY <2>1, <2>2, <2>3, Joined, Zenon
  <2>6. Starts(sr, s)
    BY <2>1, <2>2, <2>3, TwoMore
  <2>7. sr[Len(s) + 1] = Sizes[1]
    BY <2>1, <2>2, <2>3, TwoMore
  <2>8. sr[Len(s) + 2] = Sizes[2]
    BY <2>1, <2>2, <2>3, TwoMore
  <2> QED BY <1>4, <2>2, <2>4, <2>5, <2>6, <2>7, <2>8
<1> HIDE DEF sr
<1>6. Len(sr) = 8 /\ sr[7] = Count /\ sr[8] = RecordSize
  BY <1>5
<1>7. sn \in Seq(Octet) /\ Len(sn) = 8 + 2 /\ Starts(sn, sr) /\ WordAt(sn, 8 + 1, n)
  BY <1>5, <1>6, WordMore
<1> HIDE DEF sn
<1>8. Len(sn) = 10 /\ WordAt(sn, 9, n)
  BY <1>7
<1>9. sm \in Seq(Octet) /\ Len(sm) = 10 + 2 /\ Starts(sm, sn) /\ WordAt(sm, 10 + 1, m)
  BY <1>7, <1>8, WordMore
<1> HIDE DEF sm
<1>10. Len(sm) = 12 /\ WordAt(sm, 11, m)
  BY <1>9
<1>11. zeros \in Seq(Octet) /\ Len(zeros) = 8
  <2>1. zeros \in [1 .. 8 -> Octet]
    BY DEF Octet
  <2> QED BY <2>1, SeqDef, LenProperties
<1> HIDE DEF zeros
<1>12. h \in Seq(Octet) /\ Len(h) = 20 /\ Starts(h, sm)
  <2>1. h = sm \o zeros
    BY DEF HeadOf, s, sr, sn, sm, zeros
  <2>2. h \in Seq(Octet) /\ Len(h) = Len(sm) + Len(zeros) /\ Starts(h, sm)
    BY <1>9, <1>11, <2>1, Joined
  <2> QED BY <1>10, <1>11, <2>2
<1>13. Starts(h, sn) /\ Starts(h, sr) /\ Starts(h, s) /\ Starts(h, Magic)
  BY <1>3, <1>5, <1>7, <1>9, <1>12, StartsOn, Zenon
<1>14. WordAt(h, 11, m)
  <2>1. 11 \in Nat \ {0} /\ 11 + 1 <= Len(sm)
    BY <1>10
  <2> QED BY <1>9, <1>10, <1>12, <2>1, WordKept, Zenon
<1>15. WordAt(h, 9, n)
  <2>1. 9 \in Nat \ {0} /\ 9 + 1 <= Len(sn)
    BY <1>8
  <2> QED BY <1>7, <1>8, <1>13, <2>1, WordKept, Zenon
<1>16. WordAt(h, 5, Schema)
  <2>1. 5 \in Nat \ {0} /\ 5 + 1 <= Len(s)
    BY <1>4
  <2> QED BY <1>3, <1>4, <1>13, <2>1, WordKept, Zenon
<1>17. h[7] = Count /\ h[8] = RecordSize
  BY <1>13, <1>6 DEF Starts
<1>18. \A i \in 1 .. 4 : h[i] = Magic[i]
  BY <1>1, <1>13 DEF Starts
<1> QED BY <1>12, <1>14, <1>15, <1>16, <1>17, <1>18

-----------------------------------------------------------------------------
(* A project that can be exported.                                         *)

Exportable(p) == p \in Projects /\ Valid(p.params) /\ ValidBoard(p.board)
NamesOf(params) == [i \in DOMAIN params |-> Utf8(params[i].name)]
RecordsOf(params) == [i \in DOMAIN params |-> Record(params, i)]

LEMMA SeqWider ==
  ASSUME NEW S, NEW T, S \subseteq T, NEW s \in Seq(S)
  PROVE  s \in Seq(T)
<1>1. Len(s) \in Nat /\ s \in [1 .. Len(s) -> S]
  BY LenProperties
<1>2. s \in [1 .. Len(s) -> T]
  BY <1>1
<1> QED BY <1>1, <1>2, SeqDef

LEMMA MapType ==
  ASSUME NEW n \in Nat, NEW T, NEW m \in [1 .. n -> T]
  PROVE  m \in Seq(T) /\ Len(m) = n
BY SeqDef, LenProperties

LEMMA CharIs ==
  /\ Char \subseteq Seq(Octet)
  /\ \A c \in Char : /\ c # <<>> /\ Width(c[1]) = Len(c)
                     /\ \A i \in 2 .. Len(c) : IsTail(c[i])
  BY DEF Char, Octet

\* A text as bytes.
LEMMA TextIs ==
  ASSUME NEW text \in Seq(Char)
  PROVE  /\ text \in Seq(Seq(Octet))
         /\ \A i \in 1 .. Len(text) : text[i] \in Char
         /\ Utf8(text) \in Seq(Octet) /\ Len(Utf8(text)) \in Nat
<1>1. text \in Seq(Seq(Octet))
  BY CharIs, SeqWider
<1>2. \A i \in 1 .. Len(text) : text[i] \in Char
  BY LenProperties
<1>3. FlattenSeq(text) \in Seq(Octet)
  BY <1>1, FlatType
<1>4. Len(FlattenSeq(text)) \in Nat
  BY <1>3, LenProperties
<1> QED BY <1>1, <1>2, <1>3, <1>4 DEF Utf8

LEMMA ParamsIs ==
  ASSUME NEW p, Exportable(p)
  PROVE  /\ p.params \in Seq(Parameter) /\ Len(p.params) = Count
         /\ DOMAIN p.params = 1 .. Count
         /\ \A i \in 1 .. Count :
              /\ p.params[i] \in Parameter
              /\ Len(Utf8(p.params[i].name)) <= NameBytes
         /\ {p.params[i].address : i \in 1 .. Count} = 0 .. Count - 1
<1>1. p \in [board : Seq(Char), params : Seq(Parameter)] /\ Valid(p.params)
  BY ProjectsAssumption DEF Exportable
<1>2. p.params \in Seq(Parameter) /\ Len(p.params) = Count
  BY <1>1 DEF Valid
<1>3. DOMAIN p.params = 1 .. Count /\ \A i \in 1 .. Count : p.params[i] \in Parameter
  BY <1>2, LenProperties
<1>4. \A i \in 1 .. Count : Len(Utf8(p.params[i].name)) <= NameBytes
  BY <1>1, <1>3 DEF Valid
<1>5. {p.params[i].address : i \in 1 .. Count} = 0 .. Count - 1
  BY <1>1, <1>3, Zenon DEF Valid
<1> QED BY <1>2, <1>3, <1>4, <1>5

LEMMA ParameterIs ==
  ASSUME NEW q \in Parameter
  PROVE  /\ q.address \in Octet /\ q.name \in Seq(Char)
         /\ q.default[1] \in Word /\ q.default[2] \in Word
         /\ q.default = <<q.default[1], q.default[2]>>
         /\ TypeByte[q.type] \in {0, 1} /\ PermissionByte[q.permission] \in {0, 1}
<1>1. q.address \in Octet
  BY DEF Parameter, Octet
<1>2. q.name \in Seq(Char) /\ q.default \in Word \X Word
  BY DEF Parameter
<1>3. q.type \in DOMAIN TypeByte /\ q.permission \in DOMAIN PermissionByte
  BY DEF Parameter
<1>4. TypeByte[q.type] \in {0, 1}
  BY <1>3 DEF TypeByte
<1>5. PermissionByte[q.permission] \in {0, 1}
  BY <1>3 DEF PermissionByte
<1>6. \A h \in Word \X Word : h[1] \in Word /\ h[2] \in Word /\ h = <<h[1], h[2]>>
  OBVIOUS
<1> QED BY <1>1, <1>2, <1>4, <1>5, <1>6, Zenon

LEMMA NamesIs ==
  ASSUME NEW p, Exportable(p)
  PROVE  /\ NamesOf(p.params) \in Seq(Seq(Octet)) /\ Len(NamesOf(p.params)) = Count
         /\ \A i \in 1 .. Count :
              /\ NamesOf(p.params)[i] = Utf8(p.params[i].name)
              /\ Len(NamesOf(p.params)[i]) \in 0 .. NameBytes
<1> DEFINE n == NamesOf(p.params)
<1>1. /\ DOMAIN p.params = 1 .. Count
      /\ \A i \in 1 .. Count : /\ p.params[i] \in Parameter
                               /\ Len(Utf8(p.params[i].name)) <= NameBytes
  BY ParamsIs
<1>2. \A i \in 1 .. Count : /\ Utf8(p.params[i].name) \in Seq(Octet)
                            /\ Len(Utf8(p.params[i].name)) \in Nat
  BY <1>1, ParameterIs, TextIs
<1>3. n = [i \in 1 .. Count |-> Utf8(p.params[i].name)]
  BY <1>1 DEF NamesOf
<1> HIDE DEF n
<1>4. n \in [1 .. Count -> Seq(Octet)] /\ \A i \in 1 .. Count : n[i] = Utf8(p.params[i].name)
  BY <1>2, <1>3
<1>5. n \in Seq(Seq(Octet)) /\ Len(n) = Count
  BY <1>4, Limits, MapType
<1>6. \A i \in 1 .. Count : Len(n[i]) \in 0 .. NameBytes
  BY <1>1, <1>2, <1>4, Limits
<1> QED BY <1>4, <1>5, <1>6 DEF n

\* Where encode_payload has a name begin is where FlattenSeq puts it.
LEMMA OffsetIs ==
  ASSUME NEW p, Exportable(p), NEW i \in 1 .. Count
  PROVE  Offset(p.params, i) = At(NamesOf(p.params), i)
<1> DEFINE ps == p.params
           first == SubSeq(ps, 1, i - 1)
           n == NamesOf(ps)
<1>1. /\ ps \in Seq(Parameter) /\ Len(ps) = Count /\ DOMAIN ps = 1 .. Count
      /\ n \in Seq(Seq(Octet)) /\ Len(n) = Count
      /\ \A j \in 1 .. Count : n[j] = Utf8(ps[j].name)
  BY ParamsIs, NamesIs
<1>2. i - 1 \in 0 .. Count /\ Count \in Nat
  BY Limits
<1>3. /\ first \in Seq(Parameter) /\ Len(first) = i - 1
      /\ \A j \in 1 .. i - 1 : first[j] = ps[j]
  BY <1>1, <1>2, Prefix
<1>4. DOMAIN first = 1 .. i - 1
  BY <1>3, LenProperties
<1> HIDE DEF first
<1>5. Table(first) = FlattenSeq([j \in 1 .. i - 1 |-> Utf8(first[j].name)])
  BY <1>4 DEF Table
<1>6. [j \in 1 .. i - 1 |-> Utf8(first[j].name)] = SubSeq(n, 1, i - 1)
  <2> DEFINE m == [j \in 1 .. i - 1 |-> Utf8(first[j].name)]
             k == SubSeq(n, 1, i - 1)
  <2>1. \A j \in 1 .. i - 1 : j \in 1 .. Count
    BY <1>2
  <2>2. \A j \in 1 .. i - 1 : m[j] = n[j]
    BY <1>1, <1>3, <2>1
  <2>3. k \in Seq(Seq(Octet)) /\ Len(k) = i - 1 /\ \A j \in 1 .. i - 1 : k[j] = n[j]
    BY <1>1, <1>2, Prefix
  <2>4. k \in [1 .. i - 1 -> Seq(Octet)]
    BY <2>3, LenProperties
  <2>5. DOMAIN m = 1 .. i - 1
    OBVIOUS
  <2> HIDE DEF m, k, n
  <2>6. m = [j \in 1 .. i - 1 |-> k[j]]
    BY <2>2, <2>3 DEF m
  <2>7. k = [j \in 1 .. i - 1 |-> k[j]]
    BY <2>4
  <2>8. m = k
    BY <2>6, <2>7
  <2> QED BY <2>8 DEF m, k, n
<1> QED BY <1>5, <1>6 DEF Offset, At, Flat, first

\* The name table: each name lies at its offset, as long as it is said to be.
LEMMA TableIs ==
  ASSUME NEW p, Exportable(p)
  PROVE  /\ Table(p.params) = FlattenSeq(NamesOf(p.params))
         /\ Table(p.params) \in Seq(Octet) /\ Len(Table(p.params)) \in Word
         /\ Len(Table(p.params)) <= Count * NameBytes
         /\ \A i \in 1 .. Count :
              /\ Offset(p.params, i) \in Word /\ Len(Utf8(p.params[i].name)) \in Word
              /\ Offset(p.params, i) + Len(Utf8(p.params[i].name)) <= Len(Table(p.params))
              /\ \A j \in 1 .. Len(Utf8(p.params[i].name)) :
                   Table(p.params)[Offset(p.params, i) + j] = Utf8(p.params[i].name)[j]
<1> DEFINE n == NamesOf(p.params)
           table == Table(p.params)
<1>1. /\ n \in Seq(Seq(Octet)) /\ Len(n) = Count
      /\ \A i \in 1 .. Count : n[i] = Utf8(p.params[i].name) /\ Len(n[i]) \in 0 .. NameBytes
  BY NamesIs
<1>2. table = FlattenSeq(n)
  BY DEF Table, NamesOf
<1>3. \A i \in 1 .. Count : Offset(p.params, i) = At(n, i)
  BY OffsetIs
<1> HIDE DEF n, table
<1>4. table \in Seq(Octet) /\ Len(table) \in Nat
  BY <1>1, <1>2, FlatType, LenProperties
<1>5. Len(table) <= Count * NameBytes
  <2>1. \A i \in 1 .. Len(n) : Len(n[i]) <= NameBytes
    BY <1>1, Limits
  <2>2. \A k \in 0 .. Len(n) : Len(Flat(n, k)) <= k * NameBytes
    <3>1. NameBytes \in Nat
      BY Limits
    <3> QED BY <1>1, <2>1, <3>1, FlatBound, Zenon
  <2>3. Flat(n, Len(n)) = FlattenSeq(n)
    BY <1>1, FlatStep
  <2>4. Len(n) \in 0 .. Len(n)
    BY <1>1, Limits
  <2> QED BY <1>1, <1>2, <2>2, <2>3, <2>4, Zenon
<1>6. Len(table) \in Word
  <2>1. Count * NameBytes \in Word
    BY Limits DEF Word
  <2> QED BY <1>4, <1>5, <2>1, WordBelow, Zenon
<1>7. ASSUME NEW i \in 1 .. Count
      PROVE  /\ Offset(p.params, i) \in Word /\ Len(Utf8(p.params[i].name)) \in Word
             /\ Offset(p.params, i) + Len(Utf8(p.params[i].name)) <= Len(table)
             /\ \A j \in 1 .. Len(Utf8(p.params[i].name)) :
                  table[Offset(p.params, i) + j] = Utf8(p.params[i].name)[j]
  <2>1. /\ At(n, i) \in Nat /\ Len(n[i]) \in Nat
        /\ At(n, i) + Len(n[i]) <= Len(FlattenSeq(n))
        /\ \A j \in 1 .. Len(n[i]) : FlattenSeq(n)[At(n, i) + j] = n[i][j]
    BY <1>1, FlatAt
  <2>2. At(n, i) \in Word /\ Len(n[i]) \in Word
    <3>1. At(n, i) + Len(n[i]) <= Len(table)
      BY <1>2, <2>1
    <3> QED BY <1>6, <2>1, <3>1, WordParts, Zenon
  <2> QED BY <1>1, <1>2, <1>3, <2>1, <2>2, Zenon
<1> QED BY <1>2, <1>4, <1>5, <1>6, <1>7 DEF table, n

\* The fields of a record.
LEMMA OneRecord ==
  ASSUME NEW p, Exportable(p), NEW i \in 1 .. Count, NEW r, r = Record(p.params, i)
  PROVE  /\ r \in Seq(Octet) /\ Len(r) = 12
         /\ r[1] = p.params[i].address
         /\ r[2] = TypeByte[p.params[i].type]
         /\ r[3] = PermissionByte[p.params[i].permission]
         /\ WordAt(r, 5, p.params[i].default[1]) /\ WordAt(r, 7, p.params[i].default[2])
         /\ WordAt(r, 9, Offset(p.params, i)) /\ WordAt(r, 11, Len(Utf8(p.params[i].name)))
<1> DEFINE q == p.params[i]
           t == TypeByte[q.type]
           m == PermissionByte[q.permission]
           a == q.address
           d == q.default[1]
           e == q.default[2]
           o == Offset(p.params, i)
           n == Len(Utf8(q.name))
<1>1. q \in Parameter
  BY ParamsIs
<1>2. a \in Octet /\ d \in Word /\ e \in Word
  BY <1>1, ParameterIs
<1>3. t \in Octet /\ m \in Octet
  <2>1. t \in {0, 1} /\ m \in {0, 1}
    BY <1>1, ParameterIs
  <2>2. {0, 1} \subseteq Octet
    BY DEF Octet
  <2> QED BY <2>1, <2>2, Zenon
<1>4. o \in Word /\ n \in Word
  BY TableIs
<1>5. r = RecordOf(a, t, m, d, e, o, n)
  BY DEF Record, RecordOf
<1> HIDE DEF q, t, m, a, d, e, o, n
<1>6. RecordShape(RecordOf(a, t, m, d, e, o, n), a, t, m, d, e, o, n)
  BY <1>2, <1>3, <1>4, RecordIs, Zenon
<1>7. RecordShape(r, a, t, m, d, e, o, n)
  BY <1>5, <1>6, Zenon
<1> QED BY <1>7, Zenon DEF RecordShape, q, t, m, a, d, e, o, n

\* Each record stands at a multiple of 12.
LEMMA RecordsIs ==
  ASSUME NEW p, Exportable(p)
  PROVE  LET rs == RecordsOf(p.params)
         IN  /\ FlattenSeq(rs) \in Seq(Octet) /\ Len(FlattenSeq(rs)) = Count * 12
             /\ \A i \in 1 .. Count : \A j \in 1 .. 12 :
                  FlattenSeq(rs)[(i - 1) * 12 + j] = Record(p.params, i)[j]
<1> DEFINE rs == RecordsOf(p.params)
<1>1. rs = [i \in 1 .. Count |-> Record(p.params, i)]
  BY ParamsIs DEF RecordsOf
<1> HIDE DEF rs
<1>2. \A i \in 1 .. Count : Record(p.params, i) \in Seq(Octet) /\ Len(Record(p.params, i)) = 12
  BY OneRecord
<1>3. rs \in [1 .. Count -> Seq(Octet)] /\ \A i \in 1 .. Count : rs[i] = Record(p.params, i)
  BY <1>1, <1>2
<1>4. rs \in Seq(Seq(Octet)) /\ Len(rs) = Count
  BY <1>3, Limits, MapType
<1>5. \A n \in 0 .. Len(rs) : Len(Flat(rs, n)) = n * 12
  <2>1. \A i \in 1 .. Len(rs) : Len(rs[i]) = 12
    BY <1>2, <1>3, <1>4
  <2> QED BY <1>4, <2>1, FlatEven
<1>6. FlattenSeq(rs) \in Seq(Octet)
  BY <1>4, FlatType
<1>7. Len(FlattenSeq(rs)) = Count * 12
  <2>1. Flat(rs, Len(rs)) = FlattenSeq(rs)
    BY <1>4, FlatStep
  <2>2. Count \in 0 .. Len(rs)
    BY <1>4, Limits
  <2> QED BY <1>4, <1>5, <2>1, <2>2, Zenon
<1>8. ASSUME NEW i \in 1 .. Count, NEW j \in 1 .. 12
      PROVE  FlattenSeq(rs)[(i - 1) * 12 + j] = Record(p.params, i)[j]
  <2>1. i - 1 \in 0 .. Len(rs)
    BY <1>4, Limits
  <2>2. At(rs, i) = (i - 1) * 12
    BY <1>5, <2>1, Zenon DEF At
  <2>3. \A k \in 1 .. Len(rs[i]) : FlattenSeq(rs)[At(rs, i) + k] = rs[i][k]
    BY <1>4, FlatAt
  <2>4. Len(rs[i]) = 12 /\ rs[i] = Record(p.params, i)
    BY <1>2, <1>3
  <2> QED BY <2>2, <2>3, <2>4, Zenon
<1> QED BY <1>6, <1>7, <1>8 DEF rs

-----------------------------------------------------------------------------
(* The texts.                                                              *)

\* A set of positions has a least and a greatest one.
LEMMA LeastOf ==
  ASSUME NEW U, U \subseteq Nat, U # {}
  PROVE  \E i \in U : \A j \in U : i <= j
<1> DEFINE Least == \E i \in U : \A j \in U : i <= j
           T == {n \in Nat : (\E i \in U : i <= n) => Least}
<1>1. 0 \in T
  <2> SUFFICES ASSUME NEW i \in U, i <= 0 PROVE Least
    OBVIOUS
  <2>1. \A j \in U : i <= j
    OBVIOUS
  <2> QED BY <2>1
<1>2. ASSUME NEW n \in Nat, n \in T PROVE n + 1 \in T
  <2> SUFFICES ASSUME NEW i \in U, i <= n + 1, ~(\E k \in U : k <= n) PROVE Least
    BY <1>2
  <2>1. \A j \in U : i <= j
    OBVIOUS
  <2> QED BY <2>1
<1>3. Nat \subseteq T
  <2> HIDE DEF T
  <2> QED BY <1>1, <1>2, Counting
<1>4. PICK n \in U : n \in Nat
  OBVIOUS
<1>5. n \in T /\ n <= n
  BY <1>3, <1>4
<1> QED BY <1>5

LEMMA GreatestOf ==
  ASSUME NEW N \in Nat, NEW U, U \subseteq 1 .. N, U # {}
  PROVE  \E i \in U : \A j \in U : j <= i
<1> DEFINE V == {N - j : j \in U}
<1>1. V \subseteq Nat /\ V # {}
  <2>1. \A j \in U : N - j \in Nat
    OBVIOUS
  <2>2. V \subseteq Nat
    BY <2>1
  <2>3. V # {}
    OBVIOUS
  <2> QED BY <2>2, <2>3
<1>2. PICK v \in V : \A w \in V : v <= w
  BY <1>1, LeastOf
<1>3. PICK i \in U : v = N - i
  OBVIOUS
<1>4. \A j \in U : j <= i
  <2> TAKE j \in U
  <2>1. N - j \in V
    OBVIOUS
  <2>2. N - i <= N - j
    BY <1>2, <1>3, <2>1
  <2> QED BY <2>2
<1> QED BY <1>4

\* What trim leaves is text.
LEMMA TrimmedIs ==
  ASSUME NEW text \in Seq(Char)
  PROVE  Trimmed(text) \in Seq(Char)
<1> DEFINE ink == {i \in DOMAIN text : text[i] # Space}
           first == CHOOSE i \in ink : \A j \in ink : i <= j
           last == CHOOSE i \in ink : \A j \in ink : j <= i
<1>1. CASE ink = {}
  <2>1. Trimmed(text) = <<>>
    BY <1>1 DEF Trimmed
  <2> QED BY <2>1, EmptySeq
<1>2. CASE ink # {}
  <2>1. /\ Len(text) \in Nat /\ ink \subseteq 1 .. Len(text)
        /\ \A i \in 1 .. Len(text) : text[i] \in Char
    BY LenProperties
  <2>2. Trimmed(text) = SubSeq(text, first, last)
    BY <1>2 DEF Trimmed
  <2> HIDE DEF ink
  <2>3. first \in ink
    <3>1. ink \subseteq Nat
      BY <2>1
    <3> QED BY <1>2, <3>1, LeastOf
  <2>4. last \in ink
    BY <1>2, <2>1, GreatestOf
  <2> HIDE DEF first, last
  <2>5. first \in Int /\ last \in Int /\ \A i \in first .. last : text[i] \in Char
    BY <2>1, <2>3, <2>4
  <2> QED BY <2>2, <2>5, SubSeqProperties
<1> QED BY <1>1, <1>2

\* A text that is not empty has a byte.
LEMMA TextHasBytes ==
  ASSUME NEW text \in Seq(Char), text # <<>>
  PROVE  Len(Utf8(text)) # 0
<1>1. text \in Seq(Seq(Octet)) /\ Len(text) \in Nat /\ Len(text) # 0
  BY TextIs, LenProperties, EmptySeq
<1>2. 1 \in 1 .. Len(text)
  BY <1>1
<1>3. text[1] # <<>> /\ text[1] \in Seq(Octet)
  BY <1>2, TextIs, CharIs
<1>4. Len(text[1]) \in Nat \ {0}
  BY <1>3, LenProperties, EmptySeq
<1>5. At(text, 1) \in Nat /\ At(text, 1) + Len(text[1]) <= Len(Utf8(text))
  BY <1>1, <1>2, FlatAt DEF Utf8
<1>6. Len(Utf8(text)) \in Nat
  BY TextIs
<1> QED BY <1>4, <1>5, <1>6

LEMMA WidthIs ==
  ASSUME NEW x
  PROVE  Width(x) \in 0 .. 4
BY DEF Width

\* str::from_utf8 takes what a String holds.
LEMMA TextIsUtf8 ==
  ASSUME NEW text \in Seq(Char)
  PROVE  IsUtf8(Utf8(text))
<1> DEFINE s == Utf8(text)
<1>1. /\ text \in Seq(Seq(Octet)) /\ \A n \in 1 .. Len(text) : text[n] \in Char
      /\ s \in Seq(Octet) /\ Len(s) \in Nat /\ s = FlattenSeq(text)
  BY TextIs DEF Utf8
<1> HIDE DEF s
<1>2. DOMAIN s = 1 .. Len(s)
  BY <1>1, LenProperties
<1>3. ASSUME NEW i \in 1 .. Len(s)
      PROVE  \/ IsTail(s[i]) /\ \E k \in 1 .. 3 : i > k /\ Width(s[i - k]) > k
                                        /\ \A j \in i - k + 1 .. i : IsTail(s[j])
             \/ Width(s[i]) > 0 /\ \A j \in i + 1 .. i + Width(s[i]) - 1 :
                            j <= Len(s) /\ IsTail(s[j])
  <2>0. PICK n \in 1 .. Len(text) : \E j \in 1 .. Len(text[n]) : i = At(text, n) + j
    BY <1>1, FlatOnto
  <2>1. PICK j \in 1 .. Len(text[n]) : i = At(text, n) + j
    BY <2>0
  <2> DEFINE c == text[n]
             a == At(text, n)
  <2>2. c \in Char
    BY <1>1
  <2>3. /\ c \in Seq(Octet) /\ Width(c[1]) = Len(c)
        /\ \A m \in 2 .. Len(c) : IsTail(c[m])
    BY <2>2, CharIs
  <2>4. Len(c) \in 1 .. 4
    <3>1. Width(c[1]) \in 0 .. 4
      BY WidthIs
    <3>2. j \in 1 .. Len(c)
      OBVIOUS
    <3> HIDE DEF c
    <3> QED BY <2>3, <3>1, <3>2
  <2>5. /\ a \in Nat /\ a + Len(c) <= Len(s)
        /\ \A m \in 1 .. Len(c) : s[a + m] = c[m]
    BY <1>1, FlatAt
  <2>6. i = a + j /\ j \in 1 .. Len(c)
    BY <2>1
  <2> HIDE DEF c, a
  <2>7. s[a + 1] = c[1] /\ Width(s[a + 1]) = Len(c)
    BY <2>3, <2>4, <2>5
  <2>8. \A m \in 2 .. Len(c) : IsTail(s[a + m])
    BY <2>3, <2>4, <2>5
  <2>9. CASE j = 1
    <3>1. s[i] = c[1] /\ Width(s[i]) = Len(c) /\ Len(c) > 0
      BY <2>4, <2>6, <2>7, <2>9
    <3>2. ASSUME NEW m \in i + 1 .. i + Len(c) - 1 PROVE m <= Len(s) /\ IsTail(s[m])
      <4>1. m - a \in 2 .. Len(c) /\ a + (m - a) = m /\ m <= Len(s)
        BY <1>1, <2>4, <2>5, <2>6, <2>9
      <4> QED BY <2>8, <4>1
    <3> QED BY <3>1, <3>2
  <2>10. CASE j # 1
    <3>4. a \in Nat
      BY <2>5
    <3>5. \A l \in 1 .. 4 : \A k \in 1 .. l : k # 1 => k \in Nat /\ l \in Nat /\ k >= 2 /\ k <= l /\ l <= 4
      OBVIOUS
    <3>6. j \in Nat /\ Len(c) \in Nat /\ j >= 2 /\ j <= Len(c) /\ Len(c) <= 4
      BY <2>4, <2>6, <2>10, <3>5, Zenon
    <3>1. j - 1 \in 1 .. 3 /\ i > j - 1 /\ i - (j - 1) = a + 1 /\ Len(c) > j - 1
          /\ j \in 2 .. Len(c)
      BY <2>6, <3>4, <3>6
    <3>2. IsTail(s[i])
      BY <2>6, <2>8, <3>1
    <3>3. ASSUME NEW m \in i - (j - 1) + 1 .. i PROVE IsTail(s[m])
      <4>1. m - a \in 2 .. Len(c) /\ a + (m - a) = m
        BY <2>6, <3>4, <3>6
      <4> QED BY <2>8, <4>1
    <3>7. Width(s[i - (j - 1)]) > j - 1
      BY <2>7, <3>1
    <3> QED BY <3>1, <3>2, <3>3, <3>7
  <2> QED BY <2>9, <2>10
<1> QED BY <1>2, <1>3 DEF IsUtf8, s

-----------------------------------------------------------------------------
(* What is written, read.                                                  *)

BoardOf(p) == Utf8(Trimmed(p.board))

\* The board's name as it is written fits the firmware's buffer.
LEMMA BoardIs ==
  ASSUME NEW p, Exportable(p)
  PROVE  /\ BoardOf(p) \in Seq(Octet) /\ Len(BoardOf(p)) \in 1 .. BoardBytes
         /\ Len(BoardOf(p)) \in Word /\ IsUtf8(BoardOf(p))
<1>1. p.board \in Seq(Char)
  BY ProjectsAssumption DEF Exportable
<1>2. Trimmed(p.board) # <<>> /\ Len(BoardOf(p)) <= BoardBytes
  BY DEF Exportable, ValidBoard, BoardOf
<1>3. Trimmed(p.board) \in Seq(Char)
  BY <1>1, TrimmedIs
<1>4. BoardOf(p) \in Seq(Octet) /\ Len(BoardOf(p)) \in Nat
  BY <1>3, TextIs DEF BoardOf
<1>5. Len(BoardOf(p)) # 0
  BY <1>2, <1>3, TextHasBytes DEF BoardOf
<1>6. IsUtf8(BoardOf(p))
  BY <1>3, TextIsUtf8 DEF BoardOf
<1>7. Len(BoardOf(p)) \in 1 .. BoardBytes /\ Len(BoardOf(p)) \in Word
  BY <1>2, <1>4, <1>5, Limits DEF Word
<1> QED BY <1>4, <1>6, <1>7

\* r is s and t, one after the other.
IsJoin(r, s, t) ==
  /\ r \in Seq(Octet) /\ Len(r) = Len(s) + Len(t) /\ Starts(r, s)
  /\ \A i \in 1 .. Len(t) : r[Len(s) + i] = t[i]

LEMMA JoinIs == \A s, t \in Seq(Octet) : IsJoin(s \o t, s, t)
<1> TAKE s, t \in Seq(Octet)
<1> DEFINE r == s \o t
<1>1. r = s \o t
  OBVIOUS
<1> HIDE DEF r
<1>2. /\ r \in Seq(Octet) /\ Len(r) = Len(s) + Len(t) /\ Starts(r, s)
      /\ \A i \in 1 .. Len(t) : r[Len(s) + i] = t[i]
  BY <1>1, Joined
<1>3. IsJoin(r, s, t)
  BY <1>2, Zenon DEF IsJoin
<1> QED BY <1>3 DEF r

AreParts(b, h, r, o, t) ==
  /\ b \in Seq(Octet) /\ Len(b) = Len(h) + Len(r) + Len(o) + Len(t) /\ Starts(b, h)
  /\ \A j \in 1 .. Len(r) : b[Len(h) + j] = r[j]
  /\ \A j \in 1 .. Len(o) : b[Len(h) + Len(r) + j] = o[j]
  /\ \A j \in 1 .. Len(t) : b[Len(h) + Len(r) + Len(o) + j] = t[j]

\* The four parts of a payload, each after the ones before.
LEMMA FourParts ==
  ASSUME NEW h \in Seq(Octet), NEW r \in Seq(Octet), NEW o \in Seq(Octet), NEW t \in Seq(Octet),
         NEW b, b = h \o r \o o \o t
  PROVE  AreParts(b, h, r, o, t)
<1> DEFINE hr == h \o r
           hro == hr \o o
<1>1. Len(h) \in Nat /\ Len(r) \in Nat /\ Len(o) \in Nat /\ Len(t) \in Nat
  BY LenProperties
<1>2. IsJoin(hr, h, r)
  BY JoinIs, Zenon
<1>3. hr \in Seq(Octet)
  BY <1>2 DEF IsJoin
<1> HIDE DEF hr
<1>4. IsJoin(hro, hr, o)
  BY <1>3, JoinIs, Zenon
<1>5. hro \in Seq(Octet)
  BY <1>4 DEF IsJoin
<1>6. b = hro \o t
  BY DEF hr
<1> HIDE DEF hro
<1>7. IsJoin(hro \o t, hro, t)
  BY <1>5, JoinIs, Zenon
<1>8. IsJoin(b, hro, t)
  BY <1>6, <1>7, Zenon
<1> USE DEF IsJoin
<1>9. Starts(b, hr) /\ Starts(b, h)
  BY <1>2, <1>4, <1>8, StartsOn
<1>10. Len(b) = Len(h) + Len(r) + Len(o) + Len(t)
  BY <1>1, <1>2, <1>4, <1>8
<1>11. ASSUME NEW j \in 1 .. Len(r) PROVE b[Len(h) + j] = r[j]
  <2>1. Len(h) + j \in 1 .. Len(hr)
    BY <1>1, <1>2
  <2>2. b[Len(h) + j] = hr[Len(h) + j]
    BY <1>9, <2>1, Zenon DEF Starts
  <2> QED BY <1>2, <2>2, Zenon
<1>12. ASSUME NEW j \in 1 .. Len(o) PROVE b[Len(h) + Len(r) + j] = o[j]
  <2>1. Len(hr) + j \in 1 .. Len(hro)
    BY <1>1, <1>2, <1>4
  <2>2. b[Len(hr) + j] = hro[Len(hr) + j]
    BY <1>8, <2>1, Zenon DEF Starts
  <2> QED BY <1>2, <1>4, <2>2, Zenon
<1>13. ASSUME NEW j \in 1 .. Len(t) PROVE b[Len(h) + Len(r) + Len(o) + j] = t[j]
  <2>1. Len(hro) = Len(h) + Len(r) + Len(o)
    BY <1>2, <1>4
  <2> QED BY <1>8, <2>1, Zenon
<1> QED BY <1>8, <1>9, <1>10, <1>11, <1>12, <1>13, Zenon DEF AreParts

LEMMA PartsJoin ==
  \A h, r, o, t \in Seq(Octet) : AreParts(h \o r \o o \o t, h, r, o, t)
BY FourParts

\* The parts of a payload, and where encode_payload puts them.
Parts(p, b) ==
  /\ b \in Seq(Octet)
  /\ Len(b) = 20 + Count * 12 + Len(BoardOf(p)) + Len(Table(p.params))
  /\ Starts(b, HeadOf(Len(BoardOf(p)), Len(Table(p.params))))
  /\ \A j \in 1 .. Count * 12 : b[20 + j] = FlattenSeq(RecordsOf(p.params))[j]
  /\ \A j \in 1 .. Len(BoardOf(p)) : b[20 + Count * 12 + j] = BoardOf(p)[j]
  /\ \A j \in 1 .. Len(Table(p.params)) :
       b[20 + Count * 12 + Len(BoardOf(p)) + j] = Table(p.params)[j]

\* An encoded project has them.
LEMMA PartsOf ==
  ASSUME NEW p, Exportable(p)
  PROVE  Parts(p, Encoded(p))
<1> DEFINE o == BoardOf(p)
           t == Table(p.params)
           h == HeadOf(Len(o), Len(t))
           r == FlattenSeq(RecordsOf(p.params))
           b == Encoded(p)
<1>1. b = h \o r \o o \o t
  BY DEF Encoded, HeadOf, BoardOf, RecordsOf
<1>2. o \in Seq(Octet) /\ Len(o) \in Word
  BY BoardIs
<1>3. t \in Seq(Octet) /\ Len(t) \in Word
  BY TableIs
<1>4. r \in Seq(Octet) /\ Len(r) = Count * 12
  BY RecordsIs
<1> HIDE DEF o, t, r
<1>5. h \in Seq(Octet) /\ Len(h) = 20
  BY <1>2, <1>3, HeadIs
<1> HIDE DEF h, b
<1>6. AreParts(h \o r \o o \o t, h, r, o, t)
  BY <1>2, <1>3, <1>4, <1>5, PartsJoin, Zenon
<1>7. AreParts(b, h, r, o, t)
  BY <1>1, <1>6, Zenon
<1>8. /\ b \in Seq(Octet) /\ Len(b) = 20 + Count * 12 + Len(o) + Len(t) /\ Starts(b, h)
      /\ \A j \in 1 .. Count * 12 : b[20 + j] = r[j]
      /\ \A j \in 1 .. Len(o) : b[20 + Count * 12 + j] = o[j]
      /\ \A j \in 1 .. Len(t) : b[20 + Count * 12 + Len(o) + j] = t[j]
  BY <1>4, <1>5, <1>7, Zenon DEF AreParts
<1> QED BY <1>8, Zenon DEF Parts, o, t, h, r, b

\* What the header says.
LEMMA HeadRead ==
  ASSUME NEW p, Exportable(p), NEW b, Parts(p, b)
  PROVE  /\ b \in Seq(Octet) /\ Len(b) \in Nat /\ Len(b) >= BoardAt
         /\ SubSeq(b, 1, 4) = Magic
         /\ Le16(b, 4) = Schema /\ Byte(b, 6) = Count /\ Byte(b, 7) = RecordSize
         /\ BoardLen(b) = Len(BoardOf(p)) /\ TableLen(b) = Len(Table(p.params))
<1> DEFINE n == Len(BoardOf(p))
           m == Len(Table(p.params))
           h == HeadOf(n, m)
<1>1. n \in Word /\ m \in Word
  BY BoardIs, TableIs
<1>2. n \in Nat /\ m \in Nat /\ Count \in Nat
  BY <1>1, Limits DEF Word
<1>3. b \in Seq(Octet) /\ Len(b) = 20 + Count * 12 + n + m /\ Starts(b, h)
  BY DEF Parts
<1> HIDE DEF n, m
<1>4. /\ h \in Seq(Octet) /\ Len(h) = 20
      /\ \A i \in 1 .. 4 : h[i] = Magic[i]
      /\ WordAt(h, 5, Schema) /\ h[7] = Count /\ h[8] = RecordSize
      /\ WordAt(h, 9, n) /\ WordAt(h, 11, m)
  BY <1>1, HeadIs
<1> HIDE DEF h
<1>5. Len(b) \in Nat /\ Len(b) >= 20 /\ Len(b) >= BoardAt
  BY <1>2, <1>3 DEF BoardAt, PayloadHeaderLen, RecordSize
<1>6. \A i \in 1 .. 20 : b[i] = h[i]
  BY <1>3, <1>4 DEF Starts
<1>7. SubSeq(b, 1, 4) = Magic
  <2>1. Magic \in Seq(Octet) /\ Len(Magic) = 4
    BY DEF Magic, Octet
  <2>2. /\ SubSeq(b, 1, 4) \in Seq(Octet) /\ Len(SubSeq(b, 1, 4)) = 4
        /\ \A i \in 1 .. 4 : SubSeq(b, 1, 4)[i] = b[i]
    BY <1>3, <1>5, Prefix
  <2>3. \A i \in 1 .. 4 : SubSeq(b, 1, 4)[i] = Magic[i]
    BY <1>4, <1>6, <2>2
  <2> QED BY <2>1, <2>2, <2>3, SeqEqual
<1>8. b[5] + 256 * b[6] = Schema /\ b[9] + 256 * b[10] = n /\ b[11] + 256 * b[12] = m
  BY <1>4, <1>6 DEF WordAt
<1>9. Le16(b, 4) = Schema
  <2>1. Le16(b, 4) = b[4 + 1] + 256 * b[4 + 2]
    <3>1. 4 \in Nat /\ 4 + 1 < Len(b)
      BY <1>5
    <3> QED BY <1>3, <3>1, Le16Is
  <2> QED BY <1>8, <2>1
<1>10. Le16(b, 8) = n
  <2>1. Le16(b, 8) = b[8 + 1] + 256 * b[8 + 2]
    <3>1. 8 \in Nat /\ 8 + 1 < Len(b)
      BY <1>5
    <3> QED BY <1>3, <3>1, Le16Is
  <2> QED BY <1>8, <2>1
<1>11. Le16(b, 10) = m
  <2>1. Le16(b, 10) = b[10 + 1] + 256 * b[10 + 2]
    <3>1. 10 \in Nat /\ 10 + 1 < Len(b)
      BY <1>5
    <3> QED BY <1>3, <3>1, Le16Is
  <2> QED BY <1>8, <2>1
<1>12. Byte(b, 6) = Count /\ Byte(b, 7) = RecordSize
  <2>1. 6 \in 0 .. Len(b) - 1 /\ 7 \in 0 .. Len(b) - 1 /\ 6 + 1 = 7 /\ 7 + 1 = 8
    BY <1>5
  <2>2. Byte(b, 6) = b[7] /\ Byte(b, 7) = b[8]
    BY <1>3, <2>1, ByteIs
  <2> QED BY <1>4, <1>6, <2>2
<1> QED BY <1>3, <1>5, <1>7, <1>9, <1>10, <1>11, <1>12 DEF BoardLen, TableLen, n, m

\* A byte of the payload, counted from 0.
LEMMA ByteAt ==
  ASSUME NEW b \in Seq(Octet), NEW k \in 1 .. Len(b)
  PROVE  Byte(b, k - 1) = b[k]
<1>1. Len(b) \in Nat
  BY LenProperties
<1>2. k - 1 \in 0 .. Len(b) - 1 /\ (k - 1) + 1 = k
  BY <1>1
<1> QED BY <1>2, ByteIs

\* What a record says.
LEMMA RecordRead ==
  ASSUME NEW p, Exportable(p), NEW b, Parts(p, b), NEW i \in 1 .. Count
  PROVE  /\ Byte(b, RecordAt(i)) = p.params[i].address
         /\ Byte(b, RecordAt(i) + 1) = TypeByte[p.params[i].type]
         /\ Byte(b, RecordAt(i) + 2) = PermissionByte[p.params[i].permission]
         /\ Le16(b, RecordAt(i) + 4) = p.params[i].default[1]
         /\ Le16(b, RecordAt(i) + 6) = p.params[i].default[2]
         /\ NameAt(b, i) = Offset(p.params, i)
         /\ NameLen(b, i) = Len(Utf8(p.params[i].name))
<1> DEFINE e == Record(p.params, i)
           at == RecordAt(i)
<1>1. b \in Seq(Octet) /\ Len(b) \in Nat /\ Len(b) >= BoardAt /\ Count \in Nat
  BY HeadRead, Limits
<1>2. at \in Nat /\ at = 20 + (i - 1) * 12 /\ at + 12 <= Len(b)
  BY <1>1 DEF RecordAt, BoardAt, PayloadHeaderLen, RecordSize
<1>3. \A j \in 1 .. 12 : b[at + j] = e[j]
  <2> SUFFICES ASSUME NEW j \in 1 .. 12 PROVE b[at + j] = e[j]
    OBVIOUS
  <2>1. (i - 1) * 12 + j \in 1 .. Count * 12 /\ at + j = 20 + ((i - 1) * 12 + j)
    BY <1>1, <1>2
  <2>2. b[20 + ((i - 1) * 12 + j)] = FlattenSeq(RecordsOf(p.params))[(i - 1) * 12 + j]
    BY <2>1, Zenon DEF Parts
  <2>3. FlattenSeq(RecordsOf(p.params))[(i - 1) * 12 + j] = e[j]
    BY RecordsIs
  <2> QED BY <2>1, <2>2, <2>3, Zenon
<1>4. /\ e[1] = p.params[i].address
      /\ e[2] = TypeByte[p.params[i].type]
      /\ e[3] = PermissionByte[p.params[i].permission]
      /\ WordAt(e, 5, p.params[i].default[1]) /\ WordAt(e, 7, p.params[i].default[2])
      /\ WordAt(e, 9, Offset(p.params, i)) /\ WordAt(e, 11, Len(Utf8(p.params[i].name)))
  BY OneRecord
<1> HIDE DEF e, at
<1>5. Byte(b, at) = e[1] /\ Byte(b, at + 1) = e[2] /\ Byte(b, at + 2) = e[3]
  <2>1. /\ at \in 0 .. Len(b) - 1 /\ at + 1 \in 0 .. Len(b) - 1 /\ at + 2 \in 0 .. Len(b) - 1
        /\ (at + 1) + 1 = at + 2 /\ (at + 2) + 1 = at + 3
    BY <1>1, <1>2
  <2>2. Byte(b, at) = b[at + 1] /\ Byte(b, at + 1) = b[at + 2] /\ Byte(b, at + 2) = b[at + 3]
    BY <1>1, <2>1, ByteIs
  <2> QED BY <1>3, <2>2
<1>6. ASSUME NEW k \in {4, 6, 8, 10} PROVE Le16(b, at + k) = e[k + 1] + 256 * e[k + 2]
  <2>1. /\ at + k \in Nat /\ (at + k) + 1 < Len(b)
        /\ (at + k) + 1 = at + (k + 1) /\ (at + k) + 2 = at + (k + 2)
        /\ k + 1 \in 1 .. 12 /\ k + 2 \in 1 .. 12
    BY <1>1, <1>2
  <2>2. Le16(b, at + k) = b[(at + k) + 1] + 256 * b[(at + k) + 2]
    BY <1>1, <2>1, Le16Is
  <2>3. b[at + (k + 1)] = e[k + 1] /\ b[at + (k + 2)] = e[k + 2]
    BY <1>3, <2>1, Zenon
  <2>4. b[(at + k) + 1] = e[k + 1] /\ b[(at + k) + 2] = e[k + 2]
    BY <2>1, <2>3, Zenon
  <2> QED BY <2>2, <2>4, Zenon
<1>7. /\ Le16(b, at + 4) = e[5] + 256 * e[6] /\ Le16(b, at + 6) = e[7] + 256 * e[8]
      /\ Le16(b, at + 8) = e[9] + 256 * e[10] /\ Le16(b, at + 10) = e[11] + 256 * e[12]
  <2>1. Le16(b, at + 4) = e[4 + 1] + 256 * e[4 + 2]
    BY <1>6, Zenon
  <2>2. Le16(b, at + 6) = e[6 + 1] + 256 * e[6 + 2]
    BY <1>6, Zenon
  <2>3. Le16(b, at + 8) = e[8 + 1] + 256 * e[8 + 2]
    BY <1>6, Zenon
  <2>4. Le16(b, at + 10) = e[10 + 1] + 256 * e[10 + 2]
    BY <1>6, Zenon
  <2> QED BY <2>1, <2>2, <2>3, <2>4
<1>8. /\ Le16(b, at + 4) = p.params[i].default[1] /\ Le16(b, at + 6) = p.params[i].default[2]
      /\ Le16(b, at + 8) = Offset(p.params, i)
      /\ Le16(b, at + 10) = Len(Utf8(p.params[i].name))
  BY <1>4, <1>7 DEF WordAt
<1> QED BY <1>4, <1>5, <1>8 DEF NameAt, NameLen, at

\* The bytes of a part.
LEMMA BytesAre ==
  ASSUME NEW b \in Seq(Octet), NEW at \in Nat, NEW s \in Seq(Octet), at + Len(s) <= Len(b),
         \A j \in 1 .. Len(s) : b[at + j] = s[j]
  PROVE  Bytes(b, at, Len(s)) = s
<1>1. Len(b) \in Nat /\ Len(s) \in Nat /\ s \in [1 .. Len(s) -> Octet]
  BY LenProperties
<1>2. ASSUME NEW j \in 1 .. Len(s) PROVE Byte(b, at + j - 1) = s[j]
  <2>1. at + j \in 1 .. Len(b)
    BY <1>1
  <2>2. Byte(b, at + j - 1) = b[at + j]
    BY <2>1, ByteAt
  <2> QED BY <2>2
<1>3. s = [j \in 1 .. Len(s) |-> s[j]]
  BY <1>1
<1>4. [j \in 1 .. Len(s) |-> Byte(b, at + j - 1)] = [j \in 1 .. Len(s) |-> s[j]]
  BY <1>2
<1> QED BY <1>3, <1>4 DEF Bytes

\* The board's name and all names are read as they were written.
LEMMA TextsRead ==
  ASSUME NEW p, Exportable(p), NEW b, Parts(p, b)
  PROVE  /\ Bytes(b, BoardAt, BoardLen(b)) = BoardOf(p)
         /\ \A i \in 1 .. Count : NameField(b, i) = Utf8(p.params[i].name)
<1> DEFINE o == BoardOf(p)
           t == Table(p.params)
<1>1. /\ b \in Seq(Octet) /\ Len(b) \in Nat /\ Len(b) = 20 + Count * 12 + Len(o) + Len(t)
      /\ BoardLen(b) = Len(o) /\ Count \in Nat
  BY HeadRead, Limits DEF Parts
<1>2. /\ o \in Seq(Octet) /\ Len(o) \in Nat /\ t \in Seq(Octet) /\ Len(t) \in Nat
  BY BoardIs, TableIs, LenProperties
<1>3. /\ \A j \in 1 .. Len(o) : b[20 + Count * 12 + j] = o[j]
      /\ \A j \in 1 .. Len(t) : b[20 + Count * 12 + Len(o) + j] = t[j]
  BY DEF Parts
<1>4. BoardAt = 20 + Count * 12 /\ BoardAt \in Nat /\ TableAt(b) = 20 + Count * 12 + Len(o)
  BY <1>1 DEF BoardAt, TableAt, PayloadHeaderLen, RecordSize
<1>5. Bytes(b, BoardAt, Len(o)) = o
  <2> HIDE DEF o, t
  <2>1. BoardAt + Len(o) <= Len(b) /\ \A j \in 1 .. Len(o) : b[BoardAt + j] = o[j]
    BY <1>1, <1>2, <1>3, <1>4
  <2> QED BY <1>1, <1>2, <1>4, <2>1, BytesAre
<1>6. ASSUME NEW i \in 1 .. Count PROVE NameField(b, i) = Utf8(p.params[i].name)
  <2> DEFINE s == Utf8(p.params[i].name)
             k == Offset(p.params, i)
             at == TableAt(b) + k
  <2>1. NameAt(b, i) = k /\ NameLen(b, i) = Len(s)
    BY RecordRead
  <2>2. k \in Word /\ k + Len(s) <= Len(t) /\ \A j \in 1 .. Len(s) : t[k + j] = s[j]
    BY TableIs
  <2>3. s \in Seq(Octet) /\ Len(s) \in Nat
    BY ParamsIs, ParameterIs, TextIs
  <2> HIDE DEF o, t, s, k
  <2>4. at \in Nat /\ at + Len(s) <= Len(b) /\ k \in Nat
    BY <1>1, <1>2, <1>4, <2>2, <2>3 DEF Word
  <2>5. ASSUME NEW j \in 1 .. Len(s) PROVE b[at + j] = s[j]
    <3>1. k + j \in 1 .. Len(t) /\ at + j = 20 + Count * 12 + Len(o) + (k + j)
      BY <1>1, <1>2, <1>4, <2>2, <2>3, <2>4
    <3> QED BY <1>3, <2>2, <3>1, Zenon
  <2> HIDE DEF at
  <2>6. Bytes(b, at, Len(s)) = s
    BY <1>1, <2>3, <2>4, <2>5, BytesAre
  <2> QED BY <2>1, <2>6 DEF NameField, at, s
<1> QED BY <1>1, <1>5, <1>6

\* Both decoders understand it.
LEMMA MeantIs ==
  ASSUME NEW p, Exportable(p), NEW b, Parts(p, b)
  PROVE  BinContent(b) = Meaning(p)
<1>1. DOMAIN p.params = 1 .. Count
  BY ParamsIs
<1>2. ASSUME NEW i \in 1 .. Count
      PROVE  Decoded(b, i, NameField(b, i)) =
               [address |-> p.params[i].address, name |-> Utf8(p.params[i].name),
                default |-> p.params[i].default, type |-> TypeByte[p.params[i].type],
                permission |-> PermissionByte[p.params[i].permission]]
  <2>1. NameField(b, i) = Utf8(p.params[i].name)
    BY TextsRead
  <2>2. /\ Byte(b, RecordAt(i)) = p.params[i].address
        /\ Byte(b, RecordAt(i) + 1) = TypeByte[p.params[i].type]
        /\ Byte(b, RecordAt(i) + 2) = PermissionByte[p.params[i].permission]
        /\ Le16(b, RecordAt(i) + 4) = p.params[i].default[1]
        /\ Le16(b, RecordAt(i) + 6) = p.params[i].default[2]
    BY RecordRead
  <2>3. p.params[i].default = <<p.params[i].default[1], p.params[i].default[2]>>
    BY ParamsIs, ParameterIs
  <2> QED BY <2>1, <2>2, <2>3, Zenon DEF Decoded
<1>3. Bytes(b, BoardAt, BoardLen(b)) = Utf8(Trimmed(p.board))
  BY TextsRead DEF BoardOf
<1>4. [i \in 1 .. Count |-> Decoded(b, i, NameField(b, i))] =
      [i \in DOMAIN p.params |->
          [address |-> p.params[i].address, name |-> Utf8(p.params[i].name),
           default |-> p.params[i].default, type |-> TypeByte[p.params[i].type],
           permission |-> PermissionByte[p.params[i].permission]]]
  BY <1>1, <1>2, Zenon
<1> QED BY <1>3, <1>4, Zenon DEF BinContent, Meaning

\* Both decoders take what is exported, and make of it what was meant.
LEMMA BothTake ==
  ASSUME NEW p, Exportable(p), NEW b, Parts(p, b)
  PROVE  Takes(b) /\ ToolTakes(b)
<1>1. /\ b \in Seq(Octet) /\ Len(b) \in Nat /\ Len(b) >= BoardAt
      /\ SubSeq(b, 1, 4) = Magic
      /\ Le16(b, 4) = Schema /\ Byte(b, 6) = Count /\ Byte(b, 7) = RecordSize
      /\ BoardLen(b) = Len(BoardOf(p)) /\ TableLen(b) = Len(Table(p.params))
  BY HeadRead
<1>2. Len(BoardOf(p)) \in 1 .. BoardBytes /\ IsUtf8(BoardOf(p))
  BY BoardIs
<1>3. Len(b) >= PayloadHeaderLen
  BY <1>1, Limits DEF BoardAt, PayloadHeaderLen, RecordSize
<1>4. Complete(b)
  <2>1. Len(b) = 20 + Count * 12 + Len(BoardOf(p)) + Len(Table(p.params))
    BY DEF Parts
  <2> QED BY <1>1, <2>1 DEF Complete, TableAt, BoardAt, PayloadHeaderLen, RecordSize
<1>5. {Byte(b, RecordAt(i)) : i \in 1 .. Count} = 0 .. Count - 1
  <2>1. \A i \in 1 .. Count : Byte(b, RecordAt(i)) = p.params[i].address
    BY RecordRead
  <2>2. {p.params[i].address : i \in 1 .. Count} = 0 .. Count - 1
    BY ParamsIs
  <2> QED BY <2>1, <2>2
<1>6. Unique(b)
  BY <1>1, <1>5, SameAddresses
<1>7. ASSUME NEW i \in 1 .. Count
      PROVE  /\ Byte(b, RecordAt(i) + 1) \in {0, 1} /\ Byte(b, RecordAt(i) + 1) <= 1
             /\ Byte(b, RecordAt(i) + 2) \in {0, 1}
             /\ NameAt(b, i) + NameLen(b, i) <= TableLen(b)
             /\ NameLen(b, i) <= NameBytes /\ IsUtf8(NameField(b, i))
  <2>1. /\ Byte(b, RecordAt(i) + 1) = TypeByte[p.params[i].type]
        /\ Byte(b, RecordAt(i) + 2) = PermissionByte[p.params[i].permission]
        /\ NameAt(b, i) = Offset(p.params, i)
        /\ NameLen(b, i) = Len(Utf8(p.params[i].name))
    BY RecordRead
  <2>2. p.params[i] \in Parameter /\ Len(Utf8(p.params[i].name)) <= NameBytes
    BY ParamsIs
  <2>3. /\ TypeByte[p.params[i].type] \in {0, 1}
        /\ PermissionByte[p.params[i].permission] \in {0, 1}
        /\ p.params[i].name \in Seq(Char)
    BY <2>2, ParameterIs
  <2>4. Offset(p.params, i) + Len(Utf8(p.params[i].name)) <= Len(Table(p.params))
    BY TableIs
  <2>5. IsUtf8(NameField(b, i))
    BY <2>3, TextsRead, TextIsUtf8
  <2>6. Byte(b, RecordAt(i) + 1) \in {0, 1} /\ Byte(b, RecordAt(i) + 2) \in {0, 1}
    BY <2>1, <2>3, Zenon
  <2>7. Byte(b, RecordAt(i) + 1) <= 1
    BY <2>6
  <2>8. NameAt(b, i) + NameLen(b, i) <= TableLen(b) /\ NameLen(b, i) <= NameBytes
    BY <1>1, <2>1, <2>2, <2>4, Zenon
  <2> QED BY <2>5, <2>6, <2>7, <2>8
<1>8. Takes(b)
  BY <1>1, <1>2, <1>3, <1>4, <1>6, <1>7, Zenon DEF Takes
<1>9. ToolTakes(b)
  <2>1. IsUtf8(Bytes(b, BoardAt, BoardLen(b)))
    BY <1>2, TextsRead
  <2>2. Len(b) >= TableAt(b) + TableLen(b)
    BY <1>4 DEF Complete
  <2>3. BoardLen(b) # 0 /\ BoardLen(b) <= BoardBytes
    BY <1>1, <1>2, Limits
  <2> QED BY <1>1, <1>3, <1>5, <1>7, <2>1, <2>2, <2>3, Zenon DEF ToolTakes
<1> QED BY <1>8, <1>9

-----------------------------------------------------------------------------
(* The file.                                                               *)

\* A file that nobody changed.
IsExport(p, f) == \E nonce \in {1, 2} : f = Sealed(Header(nonce), Encoded(p))

\* The file of an export has the length that its parts have.
LEMMA FileOf ==
  ASSUME NEW p, Exportable(p), NEW f, IsExport(p, f)
  PROVE  /\ f.body = Encoded(p) /\ f.body \in Seq(Octet)
         /\ f.size = 33 + Len(f.body) /\ f.size \in Nat
<1>1. PICK nonce \in {1, 2} : f = Sealed(Header(nonce), Encoded(p))
  BY DEF IsExport
<1>2. f.body = Encoded(p) /\ f.size = 17 + Len(Encoded(p)) + 16
  BY <1>1 DEF Sealed, HeaderSize, TagLen
<1>3. Encoded(p) \in Seq(Octet)
  BY PartsOf DEF Parts
<1>4. Len(Encoded(p)) \in Nat
  BY <1>3, LenProperties
<1> QED BY <1>2, <1>3, <1>4

\* An export, parsed.
LEMMA ExportIs ==
  ASSUME NEW p, Exportable(p), NEW f, IsExport(p, f)
  PROVE  ParseFile(f) = Meaning(p) /\ ToolParse(f) = Meaning(p)
<1>1. PICK nonce \in {1, 2} : f = Sealed(Header(nonce), Encoded(p))
  BY DEF IsExport
<1> DEFINE b == Encoded(p)
<1>2. Parts(p, b)
  BY PartsOf
<1>3. Takes(b) /\ ToolTakes(b) /\ BinContent(b) = Meaning(p)
  BY <1>2, BothTake, MeantIs
<1>4. Authentic(f)
  BY <1>1 DEF Authentic, Sealed, Header
<1>5. f.body = b /\ f.size = 33 + Len(b)
  BY FileOf
<1>6. f.size \in HeaderSize + TagLen .. MaxFile
  <2>1. Len(b) = 20 + Count * 12 + Len(BoardOf(p)) + Len(Table(p.params))
    BY <1>2 DEF Parts
  <2>2. Len(BoardOf(p)) \in Nat /\ Len(BoardOf(p)) <= BoardBytes
    BY BoardIs, Limits
  <2>3. Len(Table(p.params)) \in Nat /\ Len(Table(p.params)) <= Count * NameBytes
    BY TableIs, Limits DEF Word
  <2> DEFINE o == Len(BoardOf(p))
             t == Len(Table(p.params))
             names == Count * NameBytes
  <2>4. 17 + 20 + Count * 12 + BoardBytes + names + 16 <= MaxFile
    BY RoomAssumption DEF HeaderSize, PayloadHeaderLen, RecordSize, TagLen
  <2>5. names \in Nat
    BY Limits
  <2> HIDE DEF o, t, names, b
  <2> QED BY <1>5, <2>1, <2>2, <2>3, <2>4, <2>5, Limits DEF HeaderSize, TagLen, o, t, names
<1>7. f.size >= HeaderSize + TagLen
  BY <1>6, Limits DEF HeaderSize, TagLen
<1> HIDE DEF b
<1>8. ParseFile(f) = Meaning(p)
  BY <1>3, <1>4, <1>5, <1>6, Zenon DEF ParseFile
<1>9. ToolParse(f) = Meaning(p)
  BY <1>3, <1>4, <1>5, <1>7, Zenon DEF ToolParse
<1> QED BY <1>8, <1>9

\* Whatever is brought to the device is a file of bytes; what either side has
\* made of it is what its decoder makes of it; an export is whole.
BinInv ==
  /\ bin # NoFile => bin.size \in Nat /\ bin.body \in Seq(Octet)
  /\ parsed \in {Unasked, NoMemory, ParseFile(bin)}
  /\ listed \in {Unasked, ToolParse(bin)}
  /\ bin = NoFile => listed = Unasked
  /\ source # NoProject => Exportable(source) /\ IsExport(source, bin)

\* Other bytes under the same name.
LEMMA OtherFile ==
  ASSUME NEW f, NewFile(f, NoProject), f.size \in Nat, f.body \in Seq(Octet)
  PROVE  BinInv'
BY DEF NewFile, BinInv

\* An export is made.
LEMMA ExportStep ==
  ASSUME BinInv, NEW p \in Projects, NEW nonce \in {1, 2}, Export(p, nonce)
  PROVE  BinInv'
<1>1. Exportable(p)
  BY DEF Export, Exportable
<1>2. /\ bin' = Sealed(Header(nonce), Encoded(p)) /\ source' = p
      /\ parsed' = Unasked /\ listed' = Unasked
  BY DEF Export, NewFile
<1>3. IsExport(p, bin')
  BY <1>2 DEF IsExport
<1>4. bin'.size \in Nat /\ bin'.body \in Seq(Octet)
  BY <1>1, <1>3, FileOf
<1> QED BY <1>1, <1>2, <1>3, <1>4, Zenon DEF BinInv

\* The fields of an export.
LEMMA ExportFields ==
  ASSUME BinInv, source # NoProject
  PROVE  /\ \E head, body, seal, size :
              bin = [head |-> head, body |-> body, seal |-> seal, size |-> size]
         /\ bin.body \in Seq(Octet) /\ bin.size \in Nat /\ bin.size = 33 + Len(bin.body)
         /\ Len(bin.body) \in Nat /\ DOMAIN bin.body = 1 .. Len(bin.body)
<1>1. Exportable(source) /\ IsExport(source, bin)
  BY DEF BinInv
<1>2. bin.body \in Seq(Octet) /\ bin.size \in Nat /\ bin.size = 33 + Len(bin.body)
  BY <1>1, FileOf
<1>3. \E head, body, seal, size :
        bin = [head |-> head, body |-> body, seal |-> seal, size |-> size]
  BY <1>1 DEF IsExport, Sealed
<1> QED BY <1>2, <1>3, LenProperties

\* Bytes of a file are changed.
LEMMA DamageStep ==
  ASSUME BinInv, source # NoProject
  PROVE  /\ \A head : DamageHead(head) => BinInv'
         /\ \A i \in DOMAIN bin.body : \A byte \in OtherBytes :
              DamageBody(i, byte) \/ OtherLayout(i, byte) => BinInv'
<1>1. PICK h, b, l, s : bin = [head |-> h, body |-> b, seal |-> l, size |-> s]
  BY ExportFields
<1>2. b \in Seq(Octet) /\ s \in Nat /\ Len(b) \in Nat /\ bin.body = b /\ bin.size = s
  BY <1>1, ExportFields
<1>3. ASSUME NEW head, DamageHead(head) PROVE BinInv'
  <2> DEFINE f == [bin EXCEPT !.head = head]
  <2>1. f.size = s /\ f.body = b
    BY <1>1
  <2>2. NewFile(f, NoProject)
    BY <1>3 DEF DamageHead
  <2> HIDE DEF f
  <2> QED BY <1>2, <2>1, <2>2, OtherFile
<1>4. ASSUME NEW i \in DOMAIN bin.body, NEW byte \in OtherBytes
      PROVE  DamageBody(i, byte) \/ OtherLayout(i, byte) => BinInv'
  <2> DEFINE c == [b EXCEPT ![i] = byte]
  <2>1. c \in Seq(Octet) /\ Len(c) = Len(b)
    <3>1. byte \in Octet
      BY LayoutAssumption DEF Octet
    <3>2. b \in [1 .. Len(b) -> Octet] /\ i \in 1 .. Len(b)
      BY <1>2, LenProperties
    <3>3. c \in [1 .. Len(b) -> Octet]
      BY <3>1, <3>2
    <3> QED BY <1>2, <3>3, MapType
  <2>2. ASSUME DamageBody(i, byte) PROVE BinInv'
    <3> DEFINE f == [bin EXCEPT !.body[i] = byte]
    <3>1. f.size = s /\ f.body = c
      BY <1>1
    <3>2. NewFile(f, NoProject)
      BY <2>2 DEF DamageBody
    <3> HIDE DEF f, c
    <3> QED BY <1>2, <2>1, <3>1, <3>2, OtherFile
  <2>3. ASSUME OtherLayout(i, byte) PROVE BinInv'
    <3> DEFINE f == Sealed(bin.head, c)
    <3>1. NewFile(f, NoProject)
      BY <1>2, <2>3 DEF OtherLayout, Foreign
    <3>2. f.size = 17 + Len(c) + 16 /\ f.body = c
      BY DEF Sealed, HeaderSize, TagLen
    <3> HIDE DEF f, c
    <3>3. f.size \in Nat
      BY <1>2, <2>1, <3>2
    <3> QED BY <2>1, <3>1, <3>2, <3>3, OtherFile
  <2> QED BY <2>2, <2>3
<1> QED BY <1>3, <1>4

\* A file is cut, or its payload has another length.
LEMMA LengthStep ==
  ASSUME BinInv, source # NoProject
  PROVE  /\ \A size \in 0 .. bin.size - 1 : Cut(size) => BinInv'
         /\ \A len \in 0 .. Len(bin.body) + 1 : OtherLength(len) => BinInv'
<1> DEFINE b == bin.body
<1>1. b \in Seq(Octet) /\ Len(b) \in Nat /\ bin.size \in Nat /\ bin.size = 33 + Len(b)
  BY ExportFields
<1>2. \A i \in 1 .. Len(b) : b[i] \in Octet
  BY <1>1, LenProperties
<1>3. ASSUME NEW size \in 0 .. bin.size - 1, Cut(size) PROVE BinInv'
  <2> DEFINE k == size - HeaderSize - TagLen
             f == [head |-> bin.head, body |-> SubSeq(b, 1, k), seal |-> <<>>, size |-> size]
  <2>1. NewFile(f, NoProject)
    BY <1>3 DEF Cut
  <2>2. f.body = SubSeq(b, 1, k) /\ f.size = size
    OBVIOUS
  <2>3. k \in Int /\ k <= Len(b) /\ size \in Nat
    BY <1>1 DEF HeaderSize, TagLen
  <2> HIDE DEF f, k, b
  <2>4. SubSeq(b, 1, k) \in Seq(Octet)
    <3>1. \A i \in 1 .. k : b[i] \in Octet
      BY <1>1, <1>2, <2>3
    <3> QED BY <2>3, <3>1, SubSeqProperties
  <2> QED BY <2>1, <2>2, <2>3, <2>4, OtherFile
<1>4. ASSUME NEW len \in 0 .. Len(bin.body) + 1, OtherLength(len) PROVE BinInv'
  <2> DEFINE c == IF len <= Len(b) THEN SubSeq(b, 1, len) ELSE Append(b, 0)
             f == Sealed(bin.head, c)
  <2>1. NewFile(f, NoProject)
    BY <1>4 DEF OtherLength, Foreign
  <2>2. f.body = c /\ f.size = 17 + Len(c) + 16
    BY DEF Sealed, HeaderSize, TagLen
  <2> HIDE DEF f
  <2>3. c \in Seq(Octet)
    <3>1. ASSUME len <= Len(b) PROVE SubSeq(b, 1, len) \in Seq(Octet)
      BY <1>1, <3>1, Prefix
    <3>2. Append(b, 0) \in Seq(Octet)
      BY <1>1, AppendProperties DEF Octet
    <3> QED BY <3>1, <3>2
  <2>4. Len(c) \in Nat
    BY <2>3, LenProperties
  <2> HIDE DEF c
  <2>5. f.size \in Nat
    BY <2>2, <2>4
  <2> QED BY <2>1, <2>2, <2>3, <2>5, OtherFile
<1> QED BY <1>3, <1>4

\* Files are of bytes, exports whole, and answers those of the decoders.
THEOREM FilesInductive == BinSpec => []BinInv
<1>1. BinInit => BinInv
  BY DEF BinInit, BinInv
<1>2. BinInv /\ [BinNext]_binVars => BinInv'
  <2> SUFFICES ASSUME BinInv, [BinNext]_binVars PROVE BinInv'
    OBVIOUS
  <2>1. ASSUME NEW p \in Projects, NEW nonce \in {1, 2}, Export(p, nonce) PROVE BinInv'
    BY <2>1, ExportStep
  <2>2. ASSUME NEW head, DamageHead(head) PROVE BinInv'
    BY <2>2, DamageStep DEF DamageHead
  <2>3. CASE source # NoProject /\ \E i \in DOMAIN bin.body : \E byte \in OtherBytes :
               DamageBody(i, byte) \/ OtherLayout(i, byte)
    BY <2>3, DamageStep
  <2>4. CASE source # NoProject /\ \E size \in 0 .. bin.size - 1 : Cut(size)
    BY <2>4, LengthStep
  <2>5. CASE source # NoProject /\ \E len \in 0 .. Len(bin.body) + 1 : OtherLength(len)
    BY <2>5, LengthStep
  <2>6. CASE Parse \/ ParseNoMemory
    BY <2>6, Zenon DEF Parse, ParseNoMemory, BinInv
  <2>7. CASE OpenBin
    BY <2>7, Zenon DEF OpenBin, BinInv
  <2>8. CASE UNCHANGED binVars
    BY <2>8, Zenon DEF binVars, BinInv
  <2> QED BY <2>1, <2>2, <2>3, <2>4, <2>5, <2>6, <2>7, <2>8 DEF BinNext
<1> QED BY <1>1, <1>2, PTL DEF BinSpec

\* What the tool exports (export_encrypted_bin_bytes), the firmware takes,
\* memory permitting, and understands as it was meant, and so does the tool:
\* every offset and length it writes is the one at which the part stands.
THEOREM ExportsUnderstood == BinSpec => []ExportUnderstood
<1>1. BinInv => ExportUnderstood
  BY ExportIs, Zenon DEF BinInv, ExportUnderstood
<1> QED BY <1>1, FilesInductive, PTL

\* decode_payload of the firmware and of the tool agree on every file, damaged,
\* cut or foreign, but for a name that is longer than the firmware's buffer, a
\* file that is larger than it reads, and a text that is not UTF-8.
THEOREM TheDecodersAgree == BinSpec => []DecodersAgree
<1>1. BinInv => DecodersAgree
  <2> SUFFICES ASSUME BinInv, parsed \notin {Unasked, NoMemory}, listed # Unasked
               PROVE  Agree(bin, parsed, listed)
    BY DEF DecodersAgree, Agree
  <2>1. parsed = ParseFile(bin) /\ listed = ToolParse(bin)
    BY DEF BinInv
  <2>2. bin.size \in Nat /\ bin.body \in Seq(Octet)
    BY DEF BinInv
  <2> QED BY <2>1, <2>2, Agreement
<1> QED BY <1>1, FilesInductive, PTL

-----------------------------------------------------------------------------
(* The way of a file's name, for all names and buffers of any size: that   *)
(* too is a text written in parts and read back, so it is proved here.     *)
\* The function by which Size is defined.
SizesOf(u, s) == u = [i \in 0 .. Len(s) |-> IF i = 0 THEN 0 ELSE u[i - 1] + CharWidth[s[i]]]

LEMMA SizesExist ==
  ASSUME NEW s, Len(s) \in Nat
  PROVE  \E u : SizesOf(u, s)
<1> DEFINE Upto(u, k) ==
             u = [i \in 0 .. k |-> IF i = 0 THEN 0 ELSE u[i - 1] + CharWidth[s[i]]]
           T == {k \in Nat : \E u : Upto(u, k)}
<1>1. 0 \in T
  <2> DEFINE u == [i \in 0 .. 0 |-> 0]
  <2>1. \A i \in 0 .. 0 : i = 0
    OBVIOUS
  <2>2. Upto(u, 0)
    BY <2>1
  <2> QED BY <2>2
<1>2. ASSUME NEW k \in Nat, k \in T PROVE k + 1 \in T
  <2>1. PICK u : Upto(u, k)
    BY <1>2
  <2> DEFINE v == [i \in 0 .. k + 1 |-> IF i = 0 THEN 0 ELSE u[i - 1] + CharWidth[s[i]]]
  <2>2. \A i \in 0 .. k : v[i] = u[i]
    <3>1. \A i \in 0 .. k : u[i] = IF i = 0 THEN 0 ELSE u[i - 1] + CharWidth[s[i]]
      BY <2>1
    <3>2. \A i \in 0 .. k : i \in 0 .. k + 1
      OBVIOUS
    <3> QED BY <3>1, <3>2
  <2>3. \A i \in 0 .. k + 1 : i # 0 => v[i - 1] = u[i - 1]
    <3> TAKE i \in 0 .. k + 1
    <3> HAVE i # 0
    <3>1. i - 1 \in 0 .. k
      OBVIOUS
    <3> QED BY <2>2, <3>1
  <2>4. \A i \in 0 .. k + 1 : (IF i = 0 THEN 0 ELSE u[i - 1] + CharWidth[s[i]])
                                = (IF i = 0 THEN 0 ELSE v[i - 1] + CharWidth[s[i]])
    BY <2>3
  <2>5. Upto(v, k + 1)
    <3>1. v = [i \in 0 .. k + 1 |-> IF i = 0 THEN 0 ELSE u[i - 1] + CharWidth[s[i]]]
      BY DEF v
    <3> HIDE DEF v
    <3> QED BY <2>4, <3>1
  <2>6. \E w : Upto(w, k + 1)
    <3> HIDE DEF v, Upto
    <3> QED BY <2>5
  <2> QED BY <2>6
<1>3. Nat \subseteq T
  <2> HIDE DEF T
  <2> QED BY <1>1, <1>2, Counting
<1> QED BY <1>3 DEF SizesOf

LEMMA SizeIs ==
  ASSUME NEW s, Len(s) \in Nat
  PROVE  \E u : /\ ByteLen(s) = u[Len(s)] /\ u[0] = 0
                /\ \A i \in 1 .. Len(s) : u[i] = u[i - 1] + CharWidth[s[i]]
<1> DEFINE u == CHOOSE v : SizesOf(v, s)
<1>1. SizesOf(u, s)
  BY SizesExist
<1>2. ByteLen(s) = u[Len(s)]
  BY DEF ByteLen, SizesOf
<1> HIDE DEF u
<1>3. u[0] = 0 /\ \A i \in 1 .. Len(s) : u[i] = u[i - 1] + CharWidth[s[i]]
  BY <1>1 DEF SizesOf
<1> QED BY <1>2, <1>3


\* The size of a text is a number, and that of a join the sum of the sizes.
LEMMA SizeOfJoin ==
  ASSUME NamesAssumption, NEW s \in Seq(DOMAIN CharWidth), NEW t \in Seq(DOMAIN CharWidth)
  PROVE  /\ ByteLen(s) \in Nat /\ ByteLen(t) \in Nat
         /\ ByteLen(s \o t) = ByteLen(s) + ByteLen(t)
<1> DEFINE st == s \o t  m == Len(s)  n == Len(t)
<1>1. /\ m \in Nat /\ n \in Nat /\ Len(st) = m + n /\ Len(st) \in Nat
      /\ \A i \in 1 .. m : st[i] = s[i] /\ s[i] \in DOMAIN CharWidth
      /\ \A i \in 1 .. n : st[m + i] = t[i] /\ t[i] \in DOMAIN CharWidth
  BY ConcatProperties, LenProperties
<1>2. \A c \in DOMAIN CharWidth : CharWidth[c] \in Nat
  BY DEF NamesAssumption
<1>3. PICK u : /\ ByteLen(s) = u[m] /\ u[0] = 0
               /\ \A i \in 1 .. m : u[i] = u[i - 1] + CharWidth[s[i]]
  BY <1>1, SizeIs
<1>4. PICK v : /\ ByteLen(t) = v[n] /\ v[0] = 0
               /\ \A i \in 1 .. n : v[i] = v[i - 1] + CharWidth[t[i]]
  BY <1>1, SizeIs
<1>5. PICK w : /\ ByteLen(st) = w[Len(st)] /\ w[0] = 0
               /\ \A i \in 1 .. Len(st) : w[i] = w[i - 1] + CharWidth[st[i]]
  BY <1>1, SizeIs
<1> HIDE DEF st, m, n
<1>6. \A i \in 0 .. m : u[i] \in Nat /\ w[i] = u[i]
  <2> DEFINE T == {i \in Nat : i <= m => u[i] \in Nat /\ w[i] = u[i]}
  <2>1. 0 \in T
    BY <1>3, <1>5
  <2>2. ASSUME NEW i \in 1 .. m, i - 1 \in T PROVE i \in T
    <3>1. i \in Nat /\ i - 1 <= m /\ i \in 1 .. Len(st)
      BY <1>1
    <3>2. u[i - 1] \in Nat /\ w[i - 1] = u[i - 1]
      BY <2>2, <3>1
    <3>3. u[i] = u[i - 1] + CharWidth[s[i]] /\ w[i] = w[i - 1] + CharWidth[s[i]]
      BY <1>1, <1>3, <1>5, <3>1
    <3>4. CharWidth[s[i]] \in Nat
      BY <1>1, <1>2
    <3> QED BY <3>1, <3>2, <3>3, <3>4
  <2>3. \A i \in 0 .. m : i \in T
    <3> HIDE DEF T
    <3> QED BY <1>1, <2>1, <2>2, CountingTo
  <2> QED BY <2>3
<1>7. \A i \in 0 .. n : v[i] \in Nat /\ w[m + i] = u[m] + v[i]
  <2> DEFINE T == {i \in Nat : i <= n => v[i] \in Nat /\ w[m + i] = u[m] + v[i]}
  <2>1. 0 \in T
    <3>1. u[m] \in Nat /\ w[m] = u[m] /\ m + 0 = m
      BY <1>1, <1>6
    <3> QED BY <1>4, <3>1
  <2>2. ASSUME NEW i \in 1 .. n, i - 1 \in T PROVE i \in T
    <3>1. i \in Nat /\ i - 1 <= n /\ m + i \in 1 .. Len(st) /\ (m + i) - 1 = m + (i - 1)
      BY <1>1
    <3>2. v[i - 1] \in Nat /\ w[m + (i - 1)] = u[m] + v[i - 1]
      BY <2>2, <3>1
    <3>3. v[i] = v[i - 1] + CharWidth[t[i]]
      BY <1>4
    <3>4. w[m + i] = w[m + (i - 1)] + CharWidth[t[i]]
      BY <1>1, <1>5, <3>1
    <3>5. CharWidth[t[i]] \in Nat /\ u[m] \in Nat
      BY <1>1, <1>2, <1>6
    <3> QED BY <3>1, <3>2, <3>3, <3>4, <3>5
  <2>3. \A i \in 0 .. n : i \in T
    <3> HIDE DEF T
    <3> QED BY <1>1, <2>1, <2>2, CountingTo
  <2> QED BY <2>3
<1>8. u[m] \in Nat /\ v[n] \in Nat /\ w[m + n] = u[m] + v[n]
  BY <1>1, <1>6, <1>7
<1> QED BY <1>1, <1>3, <1>4, <1>5, <1>8 DEF st

LEMMA SizeOfOne ==
  ASSUME NamesAssumption, NEW c \in DOMAIN CharWidth
  PROVE  ByteLen(<<c>>) = CharWidth[c]
<1> DEFINE s == <<c>>
<1>1. Len(s) = 1 /\ s[1] = c /\ Len(s) \in Nat
  OBVIOUS
<1> HIDE DEF s
<1>2. PICK u : /\ ByteLen(s) = u[Len(s)] /\ u[0] = 0
               /\ \A i \in 1 .. Len(s) : u[i] = u[i - 1] + CharWidth[s[i]]
  BY <1>1, SizeIs
<1>3. ByteLen(s) = 0 + CharWidth[c]
  BY <1>1, <1>2
<1>4. CharWidth[c] \in Nat
  BY DEF NamesAssumption
<1> QED BY <1>3, <1>4 DEF s

-----------------------------------------------------------------------------
(* url_decode, backwards from the text's end.                              *)

\* What is decoded from a place on, by what is decoded after it.
From(f, text, i) ==
  IF i > Len(text) THEN <<>>
  ELSE IF IsEscape(text, i)
       THEN <<OfDigits(<<text[i + 1], text[i + 2]>>)>> \o f[i + 3]
  ELSE IF text[i] = "+" THEN <<" ">> \o f[i + 1]
  ELSE <<OfRun(text[i])>> \o f[i + 1]

LEMMA FromLater ==
  ASSUME NEW text, Len(text) \in Nat, NEW i \in 1 .. Len(text) + 1, NEW f, NEW g,
         \A j \in i + 1 .. Len(text) + 1 : f[j] = g[j]
  PROVE  From(f, text, i) = From(g, text, i)
<1>1. CASE i > Len(text)
  BY <1>1 DEF From
<1>2. CASE i <= Len(text) /\ IsEscape(text, i)
  <2>1. i + 3 \in i + 1 .. Len(text) + 1 /\ ~(i > Len(text))
    BY <1>2 DEF IsEscape
  <2>2. f[i + 3] = g[i + 3]
    BY <2>1
  <2> QED BY <1>2, <2>1, <2>2, Zenon DEF From
<1>3. CASE i <= Len(text) /\ ~IsEscape(text, i)
  <2>1. i + 1 \in i + 1 .. Len(text) + 1 /\ ~(i > Len(text))
    BY <1>3
  <2>2. f[i + 1] = g[i + 1]
    BY <2>1
  <2> QED BY <1>3, <2>1, <2>2, Zenon DEF From
<1> QED BY <1>1, <1>2, <1>3

\* There is the function by which Decode is defined.
LEMMA FromExists ==
  ASSUME NEW text, Len(text) \in Nat
  PROVE  \E f : f = [i \in 1 .. Len(text) + 1 |-> From(f, text, i)]
<1> DEFINE N == Len(text)
           After(f, k) == f = [i \in (N + 1) - k .. N + 1 |-> From(f, text, i)]
           T == {k \in Nat : \E f : After(f, k)}
<1>0. N \in Nat
  OBVIOUS
<1> HIDE DEF N
<1>1. 0 \in T
  <2> DEFINE f == [i \in (N + 1) - 0 .. N + 1 |-> <<>>]
  <2>1. \A i \in (N + 1) - 0 .. N + 1 : From(f, text, i) = <<>>
    BY <1>0 DEF From, N
  <2>2. After(f, 0)
    BY <2>1
  <2> HIDE DEF f, After
  <2> QED BY <2>2
<1>2. ASSUME NEW k \in 1 .. N, k - 1 \in T PROVE k \in T
  <2>1. PICK f : After(f, k - 1)
    BY <1>2
  <2> DEFINE g == [i \in (N + 1) - k .. N + 1 |-> From(f, text, i)]
  <2>2. \A j \in (N + 1) - (k - 1) .. N + 1 : f[j] = g[j]
    <3>1. \A j \in (N + 1) - (k - 1) .. N + 1 : f[j] = From(f, text, j)
      BY <2>1
    <3>2. \A j \in (N + 1) - (k - 1) .. N + 1 : j \in (N + 1) - k .. N + 1
      BY <1>0
    <3> QED BY <3>1, <3>2
  <2> HIDE DEF After
  <2>3. g = [i \in (N + 1) - k .. N + 1 |-> From(f, text, i)]
    OBVIOUS
  <2> HIDE DEF g
  <2>4. ASSUME NEW i \in (N + 1) - k .. N + 1 PROVE From(f, text, i) = From(g, text, i)
    <3>1. i \in 1 .. N + 1
      BY <1>0
    <3>2. \A j \in i + 1 .. N + 1 : j \in (N + 1) - (k - 1) .. N + 1
      BY <1>0
    <3>3. \A j \in i + 1 .. N + 1 : f[j] = g[j]
      BY <2>2, <3>2
    <3> QED BY <3>1, <3>3, FromLater DEF N
  <2>5. After(g, k)
    BY <2>3, <2>4 DEF After
  <2>6. k \in Nat
    BY <1>0
  <2> QED BY <2>5, <2>6
<1>3. N \in T
  <2> HIDE DEF T
  <2>1. \A k \in 0 .. N : k \in T
    BY <1>0, <1>1, <1>2, CountingTo
  <2> QED BY <1>0, <2>1
<1>4. PICK f : After(f, N)
  BY <1>3
<1>5. (N + 1) - N = 1
  BY <1>0
<1> QED BY <1>4, <1>5 DEF N

LEMMA DecodeIs ==
  ASSUME NEW text, Len(text) \in Nat
  PROVE  \E f : /\ Decode(text) = f[1]
                /\ \A i \in 1 .. Len(text) + 1 : f[i] = From(f, text, i)
<1> DEFINE f == CHOOSE g : g = [i \in 1 .. Len(text) + 1 |-> From(g, text, i)]
<1>1. f = [i \in 1 .. Len(text) + 1 |-> From(f, text, i)]
  BY FromExists
<1>2. Decode(text) = f[1]
  BY DEF Decode, From
<1> HIDE DEF f
<1>3. \A i \in 1 .. Len(text) + 1 : f[i] = From(f, text, i)
  BY <1>1
<1> QED BY <1>2, <1>3

\* What a part of a written text is read as.
Reads(p, c) ==
  \/ /\ Len(p) = 3 /\ p[1] = "%" /\ p[2] \in HexDigits /\ p[3] \in HexDigits
     /\ OfDigits(<<p[2], p[3]>>) = c
  \/ Len(p) = 1 /\ p[1] = "+" /\ c = " "
  \/ Len(p) = 1 /\ p[1] \notin {"%", "+"} /\ OfRun(p[1]) = c

\* A text written a part for each character is read as these characters.
LEMMA ReadsBack ==
  ASSUME NEW S, NEW parts \in Seq(Seq(S)), NEW C, NEW text \in Seq(C),
         Len(parts) = Len(text), \A n \in 1 .. Len(parts) : Reads(parts[n], text[n])
  PROVE  Decode(FlattenSeq(parts)) = text
<1> DEFINE W == FlattenSeq(parts)  N == Len(parts)  L(n) == Len(Flat(parts, n))
<1>1. /\ N \in Nat /\ W \in Seq(S) /\ Len(W) \in Nat /\ L(0) = 0 /\ L(N) = Len(W)
      /\ \A n \in 0 .. N : L(n) \in Nat
      /\ \A n \in 1 .. N : n - 1 \in 0 .. N /\ L(n) = L(n - 1) + Len(parts[n])
  <2>1. L(0) = 0 /\ L(N) = Len(W)
    <3>1. Flat(parts, 0) = <<>> /\ Flat(parts, N) = W
      BY FlatStep
    <3> QED BY <3>1
  <2>2. N \in Nat
    BY LenProperties
  <2>3. W \in Seq(S) /\ \A n \in 0 .. N : L(n) \in Nat
    BY FlatType
  <2>4. \A n \in 1 .. N : L(n) = L(n - 1) + Len(parts[n])
    BY FlatType DEF At
  <2>5. Len(W) \in Nat
    BY <2>3, LenProperties
  <2>6. \A n \in 1 .. N : n - 1 \in 0 .. N
    BY <2>2
  <2> HIDE DEF W, L
  <2> QED BY <2>1, <2>2, <2>3, <2>4, <2>5, <2>6
<1>2. ASSUME NEW n \in 1 .. N
      PROVE  /\ L(n - 1) + Len(parts[n]) <= Len(W)
             /\ \A j \in 1 .. Len(parts[n]) : W[L(n - 1) + j] = parts[n][j]
  BY FlatAt DEF At
<1> HIDE DEF W, L
<1>3. PICK f : /\ Decode(W) = f[1]
               /\ \A i \in 1 .. Len(W) + 1 : f[i] = From(f, W, i)
  BY <1>1, DecodeIs
<1> DEFINE Tl(n) == SubSeq(text, n + 1, N)
           T == {k \in Nat : k <= N => f[L(N - k) + 1] = Tl(N - k)}
<1>4. 0 \in T
  <2>1. f[Len(W) + 1] = <<>>
    <3>1. Len(W) + 1 \in 1 .. Len(W) + 1 /\ Len(W) + 1 > Len(W)
      BY <1>1
    <3>2. f[Len(W) + 1] = From(f, W, Len(W) + 1)
      BY <1>3, <3>1
    <3> QED BY <3>1, <3>2 DEF From
  <2>2. N - 0 = N /\ Tl(N) = <<>>
    <3>1. N - 0 = N /\ N < N + 1 /\ N \in Int /\ N + 1 \in Int
      BY <1>1
    <3> QED BY <3>1, SubSeqEmpty
  <2> QED BY <1>1, <2>1, <2>2
<1>5. ASSUME NEW k \in 1 .. N, k - 1 \in T PROVE k \in T
  <2> DEFINE n == (N - k) + 1  i == L(N - k) + 1
  <2>1. n \in 1 .. N /\ n - 1 = N - k /\ N - (k - 1) = n /\ k - 1 <= N /\ k \in Nat
    BY <1>1
  <2>2. f[L(n) + 1] = Tl(n)
    BY <1>5, <2>1
  <2>3. Tl(N - k) = <<text[n]>> \o Tl(n)
    <3>1. N - k \in Nat /\ n = (N - k) + 1 /\ n \in 1 .. Len(text) /\ N \in n .. Len(text)
      BY <1>1
    <3> QED BY <3>1, SubSeqRecursiveFirst
  <2>4. /\ L(N - k) \in Nat /\ L(n) = L(N - k) + Len(parts[n])
        /\ L(N - k) + Len(parts[n]) <= Len(W)
    BY <1>1, <1>2, <2>1
  <2>5. \A j \in 1 .. Len(parts[n]) : W[L(N - k) + j] = parts[n][j]
    BY <1>2, <2>1
  <2>6. Reads(parts[n], text[n])
    BY <2>1
  <2> HIDE DEF n, Tl
  <2>7. f[i] = <<text[n]>> \o Tl(n)
    <3>1. CASE /\ Len(parts[n]) = 3 /\ parts[n][1] = "%"
               /\ parts[n][2] \in HexDigits /\ parts[n][3] \in HexDigits
               /\ OfDigits(<<parts[n][2], parts[n][3]>>) = text[n]
      <4>1. W[i] = parts[n][1] /\ W[i + 1] = parts[n][2] /\ W[i + 2] = parts[n][3]
        <5>1. i = L(N - k) + 1 /\ i + 1 = L(N - k) + 2 /\ i + 2 = L(N - k) + 3
          BY <2>4
        <5>2. 1 \in 1 .. Len(parts[n]) /\ 2 \in 1 .. Len(parts[n]) /\ 3 \in 1 .. Len(parts[n])
          BY <3>1
        <5> QED BY <2>5, <5>1, <5>2
      <4>2. i \in 1 .. Len(W) + 1 /\ ~(i > Len(W)) /\ i + 2 <= Len(W) /\ i + 3 = L(n) + 1
        BY <1>1, <2>4, <3>1
      <4>3. IsEscape(W, i) /\ OfDigits(<<W[i + 1], W[i + 2]>>) = text[n]
        BY <3>1, <4>1, <4>2 DEF IsEscape
      <4>4. f[i] = <<OfDigits(<<W[i + 1], W[i + 2]>>)>> \o f[i + 3]
        BY <1>3, <4>2, <4>3, Zenon DEF From
      <4> HIDE DEF i
      <4> QED BY <2>2, <4>2, <4>3, <4>4
    <3>2. CASE Len(parts[n]) = 1
      <4>1. W[i] = parts[n][1]
        BY <2>4, <2>5, <3>2
      <4>2. i \in 1 .. Len(W) + 1 /\ ~(i > Len(W)) /\ i + 1 = L(n) + 1
        BY <1>1, <2>4, <3>2
      <4>3. CASE parts[n][1] = "+" /\ text[n] = " "
        <5>1. ~IsEscape(W, i) /\ W[i] = "+"
          BY <4>1, <4>3 DEF IsEscape
        <5>2. f[i] = <<" ">> \o f[i + 1]
          BY <1>3, <4>2, <5>1, Zenon DEF From
        <5> HIDE DEF i
        <5> QED BY <2>2, <4>2, <4>3, <5>2
      <4>4. CASE parts[n][1] \notin {"%", "+"} /\ OfRun(parts[n][1]) = text[n]
        <5>1. ~IsEscape(W, i) /\ W[i] # "+"
          BY <4>1, <4>4 DEF IsEscape
        <5>2. f[i] = <<OfRun(W[i])>> \o f[i + 1]
          BY <1>3, <4>2, <5>1, Zenon DEF From
        <5> HIDE DEF i
        <5> QED BY <2>2, <4>1, <4>2, <4>4, <5>2
      <4>5. Len(parts[n]) # 3
        BY <3>2
      <4> QED BY <2>6, <4>3, <4>4, <4>5, Zenon DEF Reads
    <3> QED BY <2>6, <3>1, <3>2, Zenon DEF Reads
  <2>8. f[L(N - k) + 1] = Tl(N - k)
    BY <2>3, <2>7
  <2> QED BY <2>1, <2>8
<1>6. N \in T
  <2> HIDE DEF T
  <2>1. \A k \in 0 .. N : k \in T
    BY <1>1, <1>4, <1>5, CountingTo
  <2> QED BY <1>1, <2>1
<1>7. Tl(0) = text
  BY SubSeqFull
<1>8. N - N = 0 /\ 0 + 1 = 1 /\ N <= N
  BY <1>1
<1>9. f[1] = Tl(0)
  BY <1>1, <1>6, <1>8
<1> QED BY <1>3, <1>7, <1>9 DEF W

-----------------------------------------------------------------------------
(* What the pages write for a character.                                   *)

Letters == DOMAIN CharWidth \ {"&"}
Escape(c) ==
  CASE c \in DOMAIN Hex -> <<"%">> \o Hex[c]
    [] c \in DOMAIN Escaped -> <<Escaped[c]>>
    [] OTHER -> <<c>>
FormEscape(c) == IF c = " " THEN <<"+">> ELSE Escape(c)

\* Joins of one with one and with two.
LEMMA TwoAndThree ==
  ASSUME NEW S, NEW x \in S, NEW y \in S, NEW z \in S
  PROVE  <<x>> \o <<y>> = <<x, y>> /\ <<x>> \o <<y, z>> = <<x, y, z>>
<1>1. /\ <<x>> \in Seq(S) /\ Len(<<x>>) = 1 /\ <<x>>[1] = x
      /\ <<y>> \in Seq(S) /\ Len(<<y>>) = 1 /\ <<y>>[1] = y
      /\ <<y, z>> \in Seq(S) /\ Len(<<y, z>>) = 2 /\ <<y, z>>[1] = y /\ <<y, z>>[2] = z
  OBVIOUS
<1> DEFINE u == <<x>> \o <<y, z>>  v == <<x, y, z>>  s == <<x>> \o <<y>>  t == <<x, y>>
<1>2. u \in Seq(S) /\ Len(u) = 3 /\ u[1] = x /\ u[2] = y /\ u[3] = z
  BY <1>1, ConcatProperties
<1>3. v \in Seq(S) /\ Len(v) = 3 /\ v[1] = x /\ v[2] = y /\ v[3] = z
  OBVIOUS
<1>4. s \in Seq(S) /\ Len(s) = 2 /\ s[1] = x /\ s[2] = y
  BY <1>1, ConcatProperties
<1>5. t \in Seq(S) /\ Len(t) = 2 /\ t[1] = x /\ t[2] = y
  OBVIOUS
<1> HIDE DEF s, t, u, v
<1>6. u = v
  BY <1>2, <1>3, SeqEqual
<1>7. s = t
  BY <1>4, <1>5, SeqEqual
<1> QED BY <1>6, <1>7 DEF s, t, u, v

LEMMA EscapeKinds ==
  ASSUME NamesAssumption, NEW c \in Chars
  PROVE  \/ /\ c \in DOMAIN Hex /\ OfDigits(Hex[c]) = c
            /\ \E a, b \in HexDigits : Hex[c] = <<a, b>> /\ Escape(c) = <<"%", a, b>>
         \/ \E d \in Letters \ {"%", "+"} :
              c \notin DOMAIN Hex /\ Escape(c) = <<d>> /\ OfRun(d) = c
<1>1. CASE c \in DOMAIN Hex
  <2>0. Hex[c] \in HexDigits \X HexDigits
    BY <1>1 DEF NamesAssumption
  <2>1. PICK a \in HexDigits, b \in HexDigits : Hex[c] = <<a, b>>
    BY <2>0
  <2>2. Escape(c) = <<"%">> \o <<a, b>>
    BY <1>1, <2>1 DEF Escape, NamesAssumption
  <2>3. <<"%">> \o <<a, b>> = <<"%", a, b>>
    <3>1. {"%", a, b} \subseteq {"%"} \cup HexDigits
      OBVIOUS
    <3> QED BY <3>1, TwoAndThree
  <2>4. \A d \in DOMAIN Hex : Hex[d] = Hex[c] => d = c
    BY <1>1 DEF NamesAssumption
  <2>5. OfDigits(Hex[c]) = c
    BY <1>1, <2>4, Zenon DEF OfDigits
  <2> QED BY <1>1, <2>1, <2>2, <2>3, <2>5
<1>2. CASE c \notin DOMAIN Hex /\ c \in DOMAIN Escaped
  <2> DEFINE d == Escaped[c]
  <2>1. Escape(c) = <<d>>
    BY <1>2 DEF Escape
  <2>2. d \in DOMAIN CharWidth \ DOMAIN Hex
    BY <1>2 DEF NamesAssumption
  <2>3. d \in Letters \ {"%", "+"}
    BY <2>2 DEF NamesAssumption, Letters
  <2>4. \A r \in DOMAIN Escaped : Escaped[r] = d => r = c
    BY <1>2 DEF NamesAssumption
  <2>5. OfRun(d) = c
    BY <1>2, <2>4, Zenon DEF OfRun
  <2> QED BY <1>2, <2>1, <2>3, <2>5
<1>3. CASE c \notin DOMAIN Hex /\ c \notin DOMAIN Escaped
  <2>1. Escape(c) = <<c>>
    BY <1>3 DEF Escape
  <2>2. c \in DOMAIN CharWidth /\ \A r \in DOMAIN Escaped : Escaped[r] # c
    BY DEF Chars
  <2>3. c \in Letters \ {"%", "+"}
    BY <1>3, <2>2 DEF NamesAssumption, Letters
  <2>4. OfRun(c) = c
    BY <2>2, Zenon DEF OfRun
  <2> QED BY <1>3, <2>1, <2>3, <2>4
<1> QED BY <1>1, <1>2, <1>3

\* It is read back, nothing in it ends a value, and a form's is no longer.
LEMMA EscapeReads ==
  ASSUME NamesAssumption, NEW c \in Chars
  PROVE  /\ Escape(c) \in Seq(Letters) /\ Reads(Escape(c), c)
         /\ FormEscape(c) \in Seq(Letters) /\ Reads(FormEscape(c), c)
         /\ ByteLen(FormEscape(c)) <= ByteLen(Escape(c))
         /\ c \in DOMAIN Hex => ByteLen(Escape(c)) = 3
<1>1. /\ "%" \in Letters /\ "+" \in Letters /\ HexDigits \subseteq Letters
      /\ Letters \subseteq DOMAIN CharWidth
  BY DEF NamesAssumption, Letters
<1>2. ASSUME c \in DOMAIN Hex
      PROVE  /\ Escape(c) \in Seq(Letters) /\ Reads(Escape(c), c) /\ ByteLen(Escape(c)) = 3
  <2>1. PICK a \in HexDigits, b \in HexDigits :
          Hex[c] = <<a, b>> /\ Escape(c) = <<"%", a, b>> /\ OfDigits(Hex[c]) = c
    BY <1>2, EscapeKinds
  <2>2. <<"%", a, b>> \in Seq(Letters)
    BY <1>1, <2>1
  <2>3. Reads(<<"%", a, b>>, c)
    BY <2>1 DEF Reads
  <2>4. ByteLen(<<"%", a, b>>) = 3
    <3>1. <<a, b>> = <<a>> \o <<b>> /\ <<"%", a, b>> = <<"%">> \o <<a, b>>
      BY <1>1, <2>1, TwoAndThree
    <3>2. /\ <<"%">> \in Seq(DOMAIN CharWidth) /\ <<a>> \in Seq(DOMAIN CharWidth)
          /\ <<b>> \in Seq(DOMAIN CharWidth) /\ <<a, b>> \in Seq(DOMAIN CharWidth)
      BY <1>1, <2>1
    <3>3. ByteLen(<<a>> \o <<b>>) = ByteLen(<<a>>) + ByteLen(<<b>>)
      BY <3>2, SizeOfJoin
    <3>4. ByteLen(<<"%">> \o <<a, b>>) = ByteLen(<<"%">>) + ByteLen(<<a, b>>)
      BY <3>2, SizeOfJoin
    <3>5. ByteLen(<<a>>) = 1 /\ ByteLen(<<b>>) = 1 /\ ByteLen(<<"%">>) = 1
      BY <1>1, <2>1, SizeOfOne DEF NamesAssumption
    <3>6. ByteLen(<<a, b>>) = ByteLen(<<a>>) + ByteLen(<<b>>)
      BY <3>1, <3>3, Zenon
    <3>7. ByteLen(<<"%", a, b>>) = ByteLen(<<"%">>) + ByteLen(<<a, b>>)
      BY <3>1, <3>4, Zenon
    <3> QED BY <3>5, <3>6, <3>7
  <2> QED BY <2>1, <2>2, <2>3, <2>4
<1>3. ASSUME c \notin DOMAIN Hex
      PROVE  /\ Escape(c) \in Seq(Letters) /\ Reads(Escape(c), c)
  <2>1. PICK d \in Letters \ {"%", "+"} : Escape(c) = <<d>> /\ OfRun(d) = c
    BY <1>3, EscapeKinds
  <2>2. Reads(<<d>>, c) /\ <<d>> \in Seq(Letters)
    <3>1. Len(<<d>>) = 1 /\ <<d>>[1] = d /\ d \notin {"%", "+"}
      OBVIOUS
    <3>2. Reads(<<d>>, c)
      BY <2>1, <3>1, Zenon DEF Reads
    <3> QED BY <3>2
  <2> QED BY <2>1, <2>2
<1>4. CASE c = " "
  <2>1. " " \in DOMAIN Hex /\ CharWidth["+"] = 1
    BY DEF NamesAssumption
  <2>2. FormEscape(c) = <<"+">>
    BY <1>4 DEF FormEscape
  <2>3. <<"+">> \in Seq(Letters) /\ Reads(<<"+">>, c)
    <3>1. Len(<<"+">>) = 1 /\ <<"+">>[1] = "+"
      OBVIOUS
    <3>2. Reads(<<"+">>, c)
      BY <1>4, <3>1, Zenon DEF Reads
    <3> QED BY <1>1, <3>2
  <2>4. ByteLen(<<"+">>) = 1
    BY <1>1, <2>1, SizeOfOne
  <2>5. FormEscape(c) \in Seq(Letters) /\ Reads(FormEscape(c), c)
    BY <2>2, <2>3, Zenon
  <2>6. ByteLen(FormEscape(c)) = 1
    BY <2>2, <2>4, Zenon
  <2>7. c \in DOMAIN Hex
    BY <1>4, <2>1
  <2>8. Escape(c) \in Seq(Letters) /\ Reads(Escape(c), c) /\ ByteLen(Escape(c)) = 3
    BY <1>2, <2>7
  <2> QED BY <2>5, <2>6, <2>8
<1>5. CASE c # " "
  <2>1. FormEscape(c) = Escape(c)
    BY <1>5 DEF FormEscape
  <2>2. /\ Escape(c) \in Seq(Letters) /\ Reads(Escape(c), c)
        /\ c \in DOMAIN Hex => ByteLen(Escape(c)) = 3
    BY <1>2, <1>3
  <2>3. Escape(c) \in Seq(DOMAIN CharWidth)
    BY <1>1, <2>2
  <2>4. ByteLen(Escape(c)) \in Nat
    BY <2>3, SizeOfJoin
  <2> QED BY <2>1, <2>2, <2>4
<1> QED BY <1>4, <1>5

-----------------------------------------------------------------------------
(* What they write for a name or a path.                                   *)

Escapes(text) == [i \in DOMAIN text |-> Escape(text[i])]
FormEscapes(text) == [i \in DOMAIN text |-> FormEscape(text[i])]

LEMMA Pieces ==
  ASSUME NamesAssumption, NEW text \in Seq(Chars)
  PROVE  /\ Escapes(text) \in Seq(Seq(Letters)) /\ Encode(text) = FlattenSeq(Escapes(text))
         /\ FormEscapes(text) \in Seq(Seq(Letters))
         /\ FormEncode(text) = FlattenSeq(FormEscapes(text))
         /\ Len(Escapes(text)) = Len(text) /\ Len(FormEscapes(text)) = Len(text)
         /\ \A i \in 1 .. Len(text) : /\ text[i] \in Chars
                                      /\ Escapes(text)[i] = Escape(text[i])
                                      /\ FormEscapes(text)[i] = FormEscape(text[i])
<1> DEFINE N == Len(text)
<1>1. N \in Nat /\ DOMAIN text = 1 .. N /\ \A i \in 1 .. N : text[i] \in Chars
  BY LenProperties
<1>2. \A i \in 1 .. N : Escape(text[i]) \in Seq(Letters) /\ FormEscape(text[i]) \in Seq(Letters)
  BY <1>1, EscapeReads
<1> HIDE DEF N
<1>3. Escapes(text) = [i \in 1 .. N |-> Escape(text[i])]
  BY <1>1 DEF Escapes
<1>4. FormEscapes(text) = [i \in 1 .. N |-> FormEscape(text[i])]
  BY <1>1 DEF FormEscapes
<1>5. Escapes(text) \in Seq(Seq(Letters)) /\ Len(Escapes(text)) = N
  BY <1>1, <1>2, <1>3
<1>6. FormEscapes(text) \in Seq(Seq(Letters)) /\ Len(FormEscapes(text)) = N
  BY <1>1, <1>2, <1>4
<1>7. Encode(text) = FlattenSeq(Escapes(text))
  BY DEF Encode, Escapes, Escape
<1>8. ASSUME NEW c \in Chars PROVE Encode(<<c>>) = Escape(c)
  <2> DEFINE one == <<c>>
  <2>1. one \in Seq(Chars) /\ Len(one) = 1 /\ one[1] = c /\ DOMAIN one = 1 .. 1
    OBVIOUS
  <2> HIDE DEF one
  <2>2. Encode(one) = FlattenSeq(Escapes(one))
    BY DEF Encode, Escapes, Escape
  <2>3. Escape(c) \in Seq(Letters)
    BY EscapeReads
  <2>4. Escapes(one) = [i \in 1 .. 1 |-> Escape(c)]
    BY <2>1 DEF Escapes
  <2>5. /\ Escapes(one) \in Seq(Seq(Letters)) /\ Len(Escapes(one)) = 1
        /\ Escapes(one)[1] = Escape(c)
    BY <2>3, <2>4
  <2>6. FlattenSeq(Escapes(one)) = Flat(Escapes(one), 0) \o Escapes(one)[1]
    <3>1. /\ Flat(Escapes(one), Len(Escapes(one))) = FlattenSeq(Escapes(one))
          /\ \A n \in 1 .. Len(Escapes(one)) :
               Flat(Escapes(one), n) = Flat(Escapes(one), n - 1) \o Escapes(one)[n]
      BY <2>5, FlatStep
    <3>2. 1 \in 1 .. 1 /\ 1 - 1 = 0
      OBVIOUS
    <3> QED BY <2>5, <3>1, <3>2
  <2>7. Flat(Escapes(one), 0) = <<>>
    BY <2>5, FlatStep
  <2>8. <<>> \o Escape(c) = Escape(c)
    BY <2>3, ConcatEmptySeq
  <2> QED BY <2>2, <2>5, <2>6, <2>7, <2>8 DEF one
<1>9. FormEncode(text) = FlattenSeq(FormEscapes(text))
  <2> DEFINE parts == [i \in DOMAIN text |-> IF text[i] = " " THEN <<"+">>
                                              ELSE Encode(<<text[i]>>)]
  <2>1. \A i \in DOMAIN text : (IF text[i] = " " THEN <<"+">> ELSE Encode(<<text[i]>>))
                                 = FormEscape(text[i])
    BY <1>1, <1>8 DEF FormEscape
  <2>2. parts = FormEscapes(text)
    BY <2>1 DEF FormEscapes
  <2>3. FormEncode(text) = FlattenSeq(parts)
    BY DEF FormEncode
  <2> HIDE DEF parts
  <2> QED BY <2>2, <2>3
<1>10. \A i \in 1 .. N : /\ Escapes(text)[i] = Escape(text[i])
                         /\ FormEscapes(text)[i] = FormEscape(text[i])
  BY <1>3, <1>4
<1> HIDE DEF Escapes, FormEscapes
<1> QED BY <1>1, <1>5, <1>6, <1>7, <1>9, <1>10, Zenon DEF N

\* A value in which no ampersand is, is taken whole.
LEMMA ValueWhole ==
  ASSUME NEW text \in Seq(Letters)
  PROVE  Value(text) = text
<1>1. {i \in DOMAIN text : text[i] = "&"} = {}
  BY LenProperties DEF Letters
<1> QED BY <1>1 DEF Value

\* A name the pages write, in a query or in a form, is what the server reads.
THEOREM WrittenIsRead ==
  ASSUME NamesAssumption, NEW text \in Seq(Chars)
  PROVE  /\ Encode(text) \in Seq(Letters) /\ FormEncode(text) \in Seq(Letters)
         /\ Decode(Value(Encode(text))) = text
         /\ Decode(Value(FormEncode(text))) = text
         /\ Value(Encode(text)) = Encode(text)
         /\ Value(FormEncode(text)) = FormEncode(text)
<1>1. \A i \in 1 .. Len(text) : /\ Reads(Escapes(text)[i], text[i])
                                /\ Reads(FormEscapes(text)[i], text[i])
  BY Pieces, EscapeReads
<1>2. Encode(text) \in Seq(Letters) /\ FormEncode(text) \in Seq(Letters)
  BY Pieces, FlatType
<1>3. Decode(Encode(text)) = text
  BY Pieces, <1>1, ReadsBack
<1>4. Decode(FormEncode(text)) = text
  BY Pieces, <1>1, ReadsBack
<1> QED BY <1>2, <1>3, <1>4, ValueWhole

\* As a form's field a text is no longer than in a query.
LEMMA FormNoLonger ==
  ASSUME NamesAssumption, NEW text \in Seq(Chars)
  PROVE  /\ ByteLen(FormEncode(text)) \in Nat /\ ByteLen(Encode(text)) \in Nat
         /\ ByteLen(FormEncode(text)) <= ByteLen(Encode(text))
<1> DEFINE N == Len(text)  E(n) == Flat(Escapes(text), n)  F(n) == Flat(FormEscapes(text), n)
           W == DOMAIN CharWidth
           T == {n \in 0 .. N : ByteLen(F(n)) <= ByteLen(E(n))}
<1>1. N \in Nat /\ Letters \subseteq W
  BY LenProperties DEF Letters
<1>2. /\ Escapes(text) \in Seq(Seq(Letters)) /\ Len(Escapes(text)) = N
      /\ FormEscapes(text) \in Seq(Seq(Letters)) /\ Len(FormEscapes(text)) = N
      /\ Encode(text) = FlattenSeq(Escapes(text))
      /\ FormEncode(text) = FlattenSeq(FormEscapes(text))
  BY Pieces
<1>3. \A n \in 0 .. N : E(n) \in Seq(W) /\ F(n) \in Seq(W)
  <2>1. \A n \in 0 .. N : E(n) \in Seq(Letters) /\ F(n) \in Seq(Letters)
    BY <1>2, FlatType
  <2> HIDE DEF E, F
  <2> QED BY <1>1, <2>1
<1>4. ASSUME NEW n \in 1 .. N
      PROVE  /\ Escapes(text)[n] \in Seq(W) /\ FormEscapes(text)[n] \in Seq(W)
             /\ ByteLen(FormEscapes(text)[n]) <= ByteLen(Escapes(text)[n])
  <2>1. /\ text[n] \in Chars /\ Escapes(text)[n] = Escape(text[n])
        /\ FormEscapes(text)[n] = FormEscape(text[n])
    BY Pieces
  <2>2. /\ Escape(text[n]) \in Seq(Letters) /\ FormEscape(text[n]) \in Seq(Letters)
        /\ ByteLen(FormEscape(text[n])) <= ByteLen(Escape(text[n]))
    BY <2>1, EscapeReads
  <2> QED BY <1>1, <2>1, <2>2
<1>5. /\ E(0) = <<>> /\ F(0) = <<>> /\ E(N) = Encode(text) /\ F(N) = FormEncode(text)
      /\ \A n \in 1 .. N : /\ E(n) = E(n - 1) \o Escapes(text)[n]
                           /\ F(n) = F(n - 1) \o FormEscapes(text)[n]
  <2>1. /\ E(0) = <<>> /\ E(N) = Encode(text)
        /\ \A n \in 1 .. N : E(n) = E(n - 1) \o Escapes(text)[n]
    BY <1>2, FlatStep
  <2>2. /\ F(0) = <<>> /\ F(N) = FormEncode(text)
        /\ \A n \in 1 .. N : F(n) = F(n - 1) \o FormEscapes(text)[n]
    BY <1>2, FlatStep
  <2> HIDE DEF E, F
  <2> QED BY <2>1, <2>2
<1> HIDE DEF E, F, W
<1>6. \A n \in 0 .. N : ByteLen(E(n)) \in Nat /\ ByteLen(F(n)) \in Nat
  BY <1>3, SizeOfJoin DEF W
<1>7. 0 \in T
  <2>1. ByteLen(F(0)) = ByteLen(E(0)) /\ 0 \in 0 .. N
    BY <1>1, <1>5
  <2> QED BY <1>6, <2>1
<1>8. ASSUME NEW n \in 1 .. N, n - 1 \in T PROVE n \in T
  <2>1. n - 1 \in 0 .. N /\ n \in 0 .. N
    BY <1>1
  <2>2. /\ ByteLen(E(n - 1) \o Escapes(text)[n])
             = ByteLen(E(n - 1)) + ByteLen(Escapes(text)[n])
        /\ ByteLen(Escapes(text)[n]) \in Nat
    BY <1>3, <1>4, <2>1, SizeOfJoin DEF W
  <2>3. /\ ByteLen(F(n - 1) \o FormEscapes(text)[n])
             = ByteLen(F(n - 1)) + ByteLen(FormEscapes(text)[n])
        /\ ByteLen(FormEscapes(text)[n]) \in Nat
    BY <1>3, <1>4, <2>1, SizeOfJoin DEF W
  <2>4. /\ ByteLen(E(n)) = ByteLen(E(n - 1)) + ByteLen(Escapes(text)[n])
        /\ ByteLen(F(n)) = ByteLen(F(n - 1)) + ByteLen(FormEscapes(text)[n])
    <3>1. E(n) = E(n - 1) \o Escapes(text)[n] /\ F(n) = F(n - 1) \o FormEscapes(text)[n]
      BY <1>5
    <3> QED BY <2>2, <2>3, <3>1, Zenon
  <2>5. /\ ByteLen(F(n - 1)) <= ByteLen(E(n - 1))
        /\ ByteLen(FormEscapes(text)[n]) <= ByteLen(Escapes(text)[n])
    BY <1>4, <1>8
  <2> QED BY <1>6, <2>1, <2>2, <2>3, <2>4, <2>5
<1>9. N \in T
  <2> HIDE DEF T
  <2>1. \A n \in 0 .. N : n \in T
    BY <1>1, <1>7, <1>8, CountingTo
  <2> QED BY <1>1, <2>1
<1> QED BY <1>1, <1>5, <1>6, <1>9

\* The path of a name in which no slash is.
LEMMA PathIs ==
  ASSUME NamesAssumption, NEW name \in Seq(Chars), name # <<>>,
         \A i \in DOMAIN name : name[i] # "/"
  PROVE  /\ Path(name) \in Seq(Chars)
         /\ ByteLen(name) \in Nat /\ ByteLen(Path(name)) = 1 + ByteLen(name)
         /\ NoSlashes(Path(name)) = name /\ Tail(Path(name)) = name
<1> DEFINE p == Path(name)  W == DOMAIN CharWidth
<1>1. /\ "/" \in Chars /\ "/" \in DOMAIN Hex /\ "/" \in W /\ CharWidth["/"] = 1
      /\ Chars \subseteq W
  <2>1. "/" \in DOMAIN Hex /\ "/" \in W /\ CharWidth["/"] = 1
    BY DEF NamesAssumption
  <2>2. \A r \in DOMAIN Escaped : Escaped[r] \notin DOMAIN Hex
    BY DEF NamesAssumption
  <2> QED BY <2>1, <2>2 DEF Chars
<1>2. <<"/">> \in Seq(Chars) /\ Len(<<"/">>) = 1 /\ <<"/">>[1] = "/"
  BY <1>1
<1>3. /\ p \in Seq(Chars) /\ Len(p) = 1 + Len(name) /\ p[1] = "/"
      /\ \A i \in 2 .. Len(p) : p[i] = name[i - 1]
  <2>1. Len(name) \in Nat
    BY LenProperties
  <2>2. p \in Seq(Chars) /\ Len(p) = 1 + Len(name)
    BY <1>2, ConcatProperties DEF Path
  <2>3. \A i \in 1 .. 1 + Len(name) : p[i] = IF i <= 1 THEN <<"/">>[i] ELSE name[i - 1]
    BY <1>2, ConcatProperties DEF Path
  <2> HIDE DEF p
  <2> QED BY <1>2, <2>1, <2>2, <2>3
<1>4. Len(name) \in Nat \ {0} /\ DOMAIN name = 1 .. Len(name) /\ DOMAIN p = 1 .. Len(p)
  BY <1>3, LenProperties, EmptySeq
<1>5. ByteLen(name) \in Nat /\ ByteLen(p) = 1 + ByteLen(name)
  <2>1. <<"/">> \in Seq(W) /\ name \in Seq(W)
    BY <1>1
  <2>2. /\ ByteLen(<<"/">> \o name) = ByteLen(<<"/">>) + ByteLen(name)
        /\ ByteLen(name) \in Nat
    BY <2>1, SizeOfJoin
  <2>3. ByteLen(<<"/">>) = 1
    BY <1>1, SizeOfOne
  <2> QED BY <2>2, <2>3 DEF Path
<1> HIDE DEF p
<1>6. SubSeq(p, 2, Len(p)) = name
  <2> DEFINE t == SubSeq(p, 2, Len(p))
  <2>1. 2 \in Int /\ Len(p) \in Int /\ \A i \in 2 .. Len(p) : p[i] \in Chars
    BY <1>3, <1>4, LenProperties
  <2>2. /\ t \in Seq(Chars) /\ Len(t) = IF 2 <= Len(p) THEN Len(p) - 2 + 1 ELSE 0
        /\ \A i \in 1 .. Len(p) - 2 + 1 : t[i] = p[2 + i - 1]
    BY <2>1, SubSeqProperties
  <2> HIDE DEF t
  <2>3. Len(t) = Len(name) /\ \A i \in 1 .. Len(t) : t[i] = name[i]
    <3>1. Len(p) - 2 + 1 = Len(name) /\ 2 <= Len(p) /\ Len(t) = Len(name)
      BY <1>3, <1>4, <2>2
    <3>2. ASSUME NEW i \in 1 .. Len(name) PROVE t[i] = name[i]
      <4>1. 2 + i - 1 \in 2 .. Len(p) /\ (2 + i - 1) - 1 = i
        BY <1>4, <3>1
      <4>2. t[i] = p[2 + i - 1]
        BY <2>2, <3>1
      <4>3. p[2 + i - 1] = name[(2 + i - 1) - 1]
        BY <1>3, <4>1
      <4> QED BY <4>1, <4>2, <4>3
    <3> QED BY <3>1, <3>2
  <2>4. t = name
    BY <2>2, <2>3, SeqEqual
  <2> QED BY <2>4 DEF t
<1>7. Tail(p) = name
  <2>1. p # <<>>
    BY <1>3, <1>4
  <2> QED BY <1>3, <1>6, <2>1, TailIsSubSeq
<1>8. NoSlashes(p) = name
  <2> DEFINE rest == {i \in DOMAIN p : p[i] # "/"}
             least == CHOOSE i \in rest : \A j \in rest : i <= j
  <2>1. 2 \in rest /\ \A j \in rest : 2 <= j
    <3>1. 2 \in DOMAIN p /\ p[2] = name[1] /\ name[1] # "/"
      BY <1>3, <1>4
    <3>2. 1 \notin rest /\ rest \subseteq Nat \ {0}
      BY <1>3, <1>4
    <3> QED BY <3>1, <3>2
  <2>2. rest \subseteq Nat
    BY <1>4
  <2> HIDE DEF rest
  <2>3. least = 2
    <3>1. least \in rest /\ \A j \in rest : least <= j
      BY <2>1, Zenon
    <3>2. least <= 2 /\ 2 <= least /\ least \in Nat
      BY <2>1, <2>2, <3>1
    <3> HIDE DEF least
    <3> QED BY <3>2
  <2>4. NoSlashes(p) = SubSeq(p, least, Len(p))
    BY <2>1 DEF NoSlashes, rest
  <2> QED BY <1>6, <2>3, <2>4
<1> QED BY <1>3, <1>5, <1>7, <1>8 DEF p

\* Encoding a path adds the escape of its slash.
LEMMA EncodedPath ==
  ASSUME NamesAssumption, NEW name \in Seq(Chars), Path(name) \in Seq(Chars)
  PROVE  ByteLen(Encode(Path(name))) = 3 + ByteLen(Encode(name))
<1> DEFINE N == Len(name)  p == Path(name)  W == DOMAIN CharWidth
           E(n) == Flat(Escapes(name), n)  F(n) == Flat(Escapes(p), n)
           T == {n \in 0 .. N : ByteLen(F(n + 1)) = 3 + ByteLen(E(n))}
<1>1. N \in Nat /\ Letters \subseteq W
  BY LenProperties DEF Letters
<1>2. Len(p) = N + 1 /\ p[1] = "/" /\ \A n \in 1 .. N : p[n + 1] = name[n]
  <2>1. <<"/">> \in Seq({"/"}) /\ Len(<<"/">>) = 1 /\ <<"/">>[1] = "/"
    OBVIOUS
  <2>2. <<"/">> \in Seq({"/"} \cup Chars) /\ name \in Seq({"/"} \cup Chars)
    OBVIOUS
  <2>3. /\ Len(p) = 1 + N
        /\ \A i \in 1 .. 1 + N : p[i] = IF i <= 1 THEN <<"/">>[i] ELSE name[i - 1]
    BY <2>1, <2>2, ConcatProperties DEF Path
  <2> HIDE DEF p
  <2>4. ASSUME NEW n \in 1 .. N PROVE p[n + 1] = name[n]
    <3>1. n + 1 \in 1 .. 1 + N /\ ~(n + 1 <= 1) /\ (n + 1) - 1 = n
      BY <1>1
    <3> QED BY <2>3, <3>1
  <2> QED BY <1>1, <2>1, <2>3, <2>4
<1>3. /\ Escapes(name) \in Seq(Seq(Letters)) /\ Len(Escapes(name)) = N
      /\ Encode(name) = FlattenSeq(Escapes(name))
      /\ \A n \in 1 .. N : name[n] \in Chars /\ Escapes(name)[n] = Escape(name[n])
  BY Pieces
<1>4. /\ Escapes(p) \in Seq(Seq(Letters)) /\ Len(Escapes(p)) = N + 1
      /\ Encode(p) = FlattenSeq(Escapes(p))
      /\ \A n \in 1 .. N + 1 : p[n] \in Chars /\ Escapes(p)[n] = Escape(p[n])
  BY <1>2, Pieces
<1>5. /\ E(0) = <<>> /\ E(N) = Encode(name)
      /\ \A n \in 1 .. N : E(n) = E(n - 1) \o Escapes(name)[n]
  BY <1>3, FlatStep
<1>6. /\ F(0) = <<>> /\ F(N + 1) = Encode(p)
      /\ \A n \in 1 .. N + 1 : F(n) = F(n - 1) \o Escapes(p)[n]
  BY <1>4, FlatStep
<1>7. \A n \in 0 .. N : E(n) \in Seq(W) /\ F(n) \in Seq(W) /\ F(n + 1) \in Seq(W)
  <2>1. \A n \in 0 .. N : E(n) \in Seq(Letters)
    BY <1>3, FlatType
  <2>2. \A n \in 0 .. N + 1 : F(n) \in Seq(Letters)
    BY <1>4, FlatType
  <2> HIDE DEF E, F, p
  <2>3. \A n \in 0 .. N : n \in 0 .. N + 1 /\ n + 1 \in 0 .. N + 1
    BY <1>1
  <2>4. \A s \in Seq(Letters) : s \in Seq(W)
    BY <1>1
  <2> HIDE DEF W
  <2> QED BY <2>1, <2>2, <2>3, <2>4
<1> HIDE DEF E, F, W, p
<1>8. 0 \in T
  <2>1. 1 \in 1 .. N + 1 /\ 1 - 1 = 0 /\ 0 + 1 = 1 /\ 0 \in 0 .. N
    BY <1>1
  <2>2. F(1) = <<>> \o Escapes(p)[1] /\ Escapes(p)[1] = Escape(p[1])
    BY <1>4, <1>6, <2>1
  <2>3. "/" \in Chars /\ "/" \in DOMAIN Hex
    BY <1>2, <1>4, <2>1 DEF NamesAssumption
  <2>4. Escape("/") \in Seq(Letters) /\ ByteLen(Escape("/")) = 3
    BY <2>3, EscapeReads
  <2>5. F(1) = Escape("/")
    <3>1. <<>> \o Escape("/") = Escape("/")
      BY <2>4, ConcatEmptySeq
    <3> QED BY <1>2, <2>2, <3>1
  <2>6. ByteLen(E(0)) = 0
    <3>1. Len(<<>>) = 0
      OBVIOUS
    <3>2. ByteLen(<<>>) = 0
      BY <3>1, SizeIs
    <3> QED BY <1>5, <3>2
  <2> QED BY <2>1, <2>4, <2>5, <2>6
<1>9. ASSUME NEW n \in 1 .. N, n - 1 \in T PROVE n \in T
  <2>1. /\ n - 1 \in 0 .. N /\ n \in 0 .. N /\ n + 1 \in 1 .. N + 1 /\ (n + 1) - 1 = n
        /\ (n - 1) + 1 = n
    BY <1>1
  <2> DEFINE e == Escape(name[n])
  <2>2. e \in Seq(W) /\ Escapes(name)[n] = e /\ Escapes(p)[n + 1] = e
    <3>1. e \in Seq(Letters)
      BY <1>3, EscapeReads
    <3> QED BY <1>1, <1>2, <1>3, <1>4, <2>1, <3>1
  <2> HIDE DEF e
  <2>3. E(n) = E(n - 1) \o e /\ F(n + 1) = F(n) \o e
    BY <1>5, <1>6, <2>1, <2>2
  <2>4. /\ ByteLen(E(n - 1) \o e) = ByteLen(E(n - 1)) + ByteLen(e)
        /\ ByteLen(F(n) \o e) = ByteLen(F(n)) + ByteLen(e)
    BY <1>7, <2>1, <2>2, SizeOfJoin DEF W
  <2>5. /\ ByteLen(E(n)) = ByteLen(E(n - 1)) + ByteLen(e)
        /\ ByteLen(F(n + 1)) = ByteLen(F(n)) + ByteLen(e)
    BY <2>3, <2>4, Zenon
  <2>6. ByteLen(F(n)) = 3 + ByteLen(E(n - 1))
    BY <1>9, <2>1
  <2>7. ByteLen(e) \in Nat /\ ByteLen(E(n - 1)) \in Nat
    BY <1>7, <2>1, <2>2, SizeOfJoin DEF W
  <2> QED BY <2>1, <2>5, <2>6, <2>7
<1>10. N \in T
  <2> HIDE DEF T
  <2>1. \A n \in 0 .. N : n \in T
    BY <1>1, <1>8, <1>9, CountingTo
  <2> QED BY <1>1, <2>1
<1> QED BY <1>5, <1>6, <1>10 DEF p

-----------------------------------------------------------------------------
(* The names on the device, and what is asked of them.                     *)

\* A name as upload_handler lets it on the device.
Storable(name) ==
  /\ name \in Seq(Chars) /\ name # Rejected /\ ValidUploadName(name)
  /\ 9 + ByteLen(Encode(name)) < MaxPath
  /\ MountSize + 1 + ByteLen(name) + 4 < MaxPath

NamesInv ==
  /\ \A name \in disk : Storable(name)
  /\ \A path \in shown : \E name : Storable(name) /\ path = Path(name)
  /\ NamesKept
  /\ ListedFilesUsable

\* What upload_handler stores is the name it was given.
LEMMA StoredIs ==
  ASSUME NamesAssumption, NEW name \in UserNames
  PROVE  /\ Stored(name) \in {name, Rejected}
         /\ Stored(name) # Rejected => Storable(Stored(name))
<1>1. name \in Seq(Chars)
  BY DEF NamesAssumption
<1>2. Decode(Value(Encode(name))) = name
  BY <1>1, WrittenIsRead
<1>3. CASE Stored(name) = Rejected
  BY <1>3
<1>4. CASE Stored(name) # Rejected
  <2>1. /\ Stored(name) = name /\ ValidUploadName(name)
        /\ 9 + ByteLen(Encode(name)) < MaxPath
        /\ MountSize + 1 + ByteLen(name) + 4 < MaxPath
    BY <1>2, <1>4, Zenon DEF Stored
  <2> QED BY <1>1, <1>4, <2>1 DEF Storable
<1> QED BY <1>3, <1>4

\* Every request is about the file it was made for, but for a status request
\* whose query is too long.
LEMMA TargetIs ==
  ASSUME NamesAssumption, NEW name, Storable(name), NEW kind \in RequestKinds
  PROVE  /\ Target(kind, Path(name)) \in {name, Rejected}
         /\ Tail(Path(name)) = name
         /\ (kind = "status" /\ TooLongToPoll(name)) \/ Target(kind, Path(name)) = name
<1> DEFINE p == Path(name)  text == Written(kind, p)
<1>1. /\ name \in Seq(Chars) /\ name # <<>> /\ ~HasBadPathChars(name)
      /\ \A i \in DOMAIN name : name[i] # "/"
  <2>1. name \in Seq(Chars) /\ ValidUploadName(name)
    BY DEF Storable
  <2>2. "/" \in BadChars
    BY DEF NamesAssumption
  <2> QED BY <2>1, <2>2, Zenon DEF ValidUploadName
<1>2. /\ p \in Seq(Chars) /\ ByteLen(name) \in Nat /\ ByteLen(p) = 1 + ByteLen(name)
      /\ NoSlashes(p) = name /\ Tail(p) = name
  BY <1>1, PathIs
<1>3. /\ ByteLen(Encode(p)) = 3 + ByteLen(Encode(name))
      /\ ByteLen(Encode(name)) \in Nat /\ ByteLen(FormEncode(p)) \in Nat
      /\ ByteLen(FormEncode(p)) <= ByteLen(Encode(p))
  BY <1>1, <1>2, EncodedPath, FormNoLonger
<1>4. Decode(Value(text)) = p /\ Value(text) = text
  BY <1>2, WrittenIsRead DEF Written
<1>5. /\ {MaxPath, FormBuf, MountSize, IdSize, ValuesSize} \subseteq Nat
      /\ 5 + 8 + ValuesSize + MaxPath <= FormBuf
  BY DEF NamesAssumption
<1>6. /\ 9 + ByteLen(Encode(name)) < MaxPath
      /\ MountSize + 1 + ByteLen(name) + 4 < MaxPath
  BY DEF Storable
<1> HIDE DEF p
<1>7. StoragePath(Value(text)) = name
  <2>1. ByteLen(p) < MaxPath /\ MountSize + 1 + ByteLen(name) < MaxPath
    BY <1>2, <1>5, <1>6
  <2> HIDE DEF text
  <2> QED BY <1>1, <1>2, <1>4, <2>1, Zenon DEF StoragePath
<1>8. (kind = "status" /\ TooLongToPoll(name)) \/ Fits(kind, text)
  <2>1. CASE kind \in {"readback", "download"}
    <3>1. text = FormEncode(p) /\ Buffer(kind) = FormBuf
      BY <2>1 DEF Written, Buffer
    <3>2. Around(kind) \in {5, 5 + 8 + ValuesSize}
      BY <2>1 DEF Around
    <3> HIDE DEF text
    <3>3. ByteLen(text) \in Nat /\ ByteLen(text) < MaxPath
      BY <1>3, <1>5, <1>6, <3>1
    <3>4. Around(kind) + ByteLen(text) < FormBuf
      BY <1>5, <3>2, <3>3
    <3> QED BY <1>4, <3>1, <3>3, <3>4 DEF Fits
  <2>2. CASE kind = "status" /\ ~TooLongToPoll(name)
    <3>1. text = Encode(p) /\ Buffer(kind) = MaxPath
      BY <2>2 DEF Written, Buffer
    <3>2. Around("status") = 9 + IdSize
      BY <1>5 DEF Around
    <3> HIDE DEF text
    <3>3. Around(kind) + ByteLen(text) < MaxPath
      <4>1. ~(Around("status") + ByteLen(text) >= MaxPath)
        BY <2>2, <3>1 DEF TooLongToPoll, p
      <4>2. ByteLen(text) \in Nat
        BY <1>3, <3>1
      <4> QED BY <1>5, <2>2, <3>2, <4>1, <4>2
    <3>4. ByteLen(text) < MaxPath
      BY <1>3, <1>5, <1>6, <3>1
    <3> QED BY <1>4, <3>1, <3>3, <3>4 DEF Fits
  <2>3. CASE kind \notin {"readback", "download", "status"}
    <3>1. text = Encode(p) /\ Buffer(kind) = MaxPath /\ Around(kind) = 5
      BY <2>3 DEF Written, Buffer, Around
    <3> HIDE DEF text
    <3>2. 5 + ByteLen(text) < MaxPath /\ ByteLen(text) < MaxPath
      BY <1>3, <1>5, <1>6, <3>1
    <3> QED BY <1>4, <3>1, <3>2 DEF Fits
  <2> QED BY <2>1, <2>2, <2>3
<1>9. Target(kind, p) = IF Fits(kind, text) THEN StoragePath(Value(text))
                             ELSE Rejected
  BY DEF Target
<1> HIDE DEF text
<1> QED BY <1>2, <1>7, <1>8, <1>9 DEF p

LEMMA InitNames == ASSUME NamesInit PROVE NamesInv
  BY DEF NamesInit, NamesInv, NamesKept, ListedFilesUsable, RequestKinds

LEMMA StepNames == ASSUME NamesAssumption, NamesInv, [NamesNext]_namesVars PROVE NamesInv'
<1>1. CASE UNCHANGED namesVars
  BY <1>1 DEF NamesInv, NamesKept, ListedFilesUsable, namesVars
<1>2. ASSUME NEW name \in UserNames, UploadAs(name) PROVE NamesInv'
  <2>1. /\ disk' = disk \cup ({Stored(name)} \ {Rejected}) /\ shown' = shown
        /\ asked' = [kind |-> "upload", of |-> name, got |-> Stored(name)]
    BY <1>2 DEF UploadAs, Ask
  <2>2. \A n \in disk' : Storable(n)
    BY <2>1, StoredIs DEF NamesInv
  <2>3. NamesKept' /\ ListedFilesUsable'
    BY <2>1, StoredIs DEF NamesKept, ListedFilesUsable, RequestKinds
  <2> QED BY <2>1, <2>2, <2>3 DEF NamesInv
<1>3. CASE List
  <2>1. /\ shown' = {Path(name) : name \in {n \in disk : Listable(n)}} /\ disk' = disk
        /\ asked' = [kind |-> "list", of |-> <<>>, got |-> <<>>]
    BY <1>3 DEF List, Ask
  <2>2. \A path \in shown' : \E name : Storable(name) /\ path = Path(name)
    BY <2>1 DEF NamesInv
  <2>3. NamesKept' /\ ListedFilesUsable'
    BY <2>1 DEF NamesKept, ListedFilesUsable, RequestKinds
  <2> QED BY <2>1, <2>2, <2>3 DEF NamesInv
<1>4. ASSUME NEW kind \in RequestKinds, NEW path \in shown, RequestAbout(kind, path) PROVE NamesInv'
  <2>1. PICK name : Storable(name) /\ path = Path(name)
    BY DEF NamesInv
  <2>2. /\ Target(kind, path) \in {name, Rejected} /\ Tail(path) = name
        /\ (kind = "status" /\ TooLongToPoll(name)) \/ Target(kind, path) = name
    BY <2>1, TargetIs
  <2>3. /\ asked' = [kind |-> kind, of |-> name, got |-> Target(kind, path)]
        /\ disk' \subseteq disk /\ shown' = shown
    BY <1>4, <2>2 DEF RequestAbout, Ask
  <2>4. NamesKept' /\ ListedFilesUsable'
    BY <2>1, <2>2, <2>3 DEF NamesKept, ListedFilesUsable, Storable
  <2> QED BY <2>3, <2>4 DEF NamesInv
<1> QED BY <1>1, <1>2, <1>3, <1>4 DEF NamesNext

\* What is on the device are names it takes (storable with their temporary
\* file's), and what the page was given are their paths.
THEOREM NamesInductive == NamesSpec => []NamesInv
<1>1. NamesInit => NamesInv
  BY InitNames
<1>2. NamesInv /\ [NamesNext]_namesVars => NamesInv'
  BY StepNames, NamesHold
<1> QED BY <1>1, <1>2, PTL DEF NamesSpec

\* NamesKept for all names, buffers and widths of characters: what a request
\* says of a file, written by the pages' encodeURIComponent or URLSearchParams
\* and read by url_decode and build_storage_path, is that file or is refused.
THEOREM NamesAreKept == NamesSpec => []NamesKept
<1>1. NamesInv => NamesKept
  BY DEF NamesInv
<1> QED BY <1>1, NamesInductive, PTL

\* ListedFilesUsable: every limit that parse, readback, download and delete put
\* on a path is one its name met when upload_handler took it, and a status
\* request is refused only for a path too long for its query.
THEOREM ListedAreUsable == NamesSpec => []ListedFilesUsable
<1>1. NamesInv => ListedFilesUsable
  BY DEF NamesInv
<1> QED BY <1>1, NamesInductive, PTL
=============================================================================
