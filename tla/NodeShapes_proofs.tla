------------------------- MODULE NodeShapes_proofs --------------------------
(***************************************************************************)
(* For any fields, values and rows: what Filtered does to an order of      *)
(* rows, and so that editing a shape, and merging two that do not clash,   *)
(* gives a shape whose order lists each of its rows once.                  *)
(*                                                                         *)
(* A fact about every sequence is proved by the least counterexample: the  *)
(* set of sequences it holds of has the empty one and is closed under      *)
(* Append, so it has all of them (Growing).                                *)
(***************************************************************************)
EXTENDS NodeShapes, SequenceTheorems, WellFoundedInduction, TLAPS

-----------------------------------------------------------------------------
(* Naturals and sequences *)

\* The order of the naturals, from the library, as a set of pairs.
LEMMA NatLess == IsWellFoundedOn({ss \in Nat \X Nat : ss[1] < ss[2]}, Nat)
  BY NatLessThanWellFounded DEF OpToRel

\* A set of naturals has a least element.
LEMMA Least ==
    ASSUME NEW S \in SUBSET Nat, S # {}
    PROVE \E n \in S : \A m \in S : n <= m
<1> DEFINE R == {ss \in Nat \X Nat : ss[1] < ss[2]}
<1>1. IsWellFoundedOn(R, Nat)
  BY NatLess
<1> HIDE DEF R
<1>2. PICK n \in S : \A m \in S : <<m, n>> \notin R
  BY <1>1, WFMin
<1>3. \A m \in S : ~ (m < n)
  BY <1>2 DEF R
<1> QED
  BY <1>3

\* Counting up reaches every natural.
LEMMA Counting ==
    ASSUME NEW T \in SUBSET Nat, 0 \in T, \A n \in T : n + 1 \in T
    PROVE  T = Nat
<1>1. SUFFICES ASSUME Nat \ T # {} PROVE FALSE
  OBVIOUS
<1>2. PICK n \in Nat \ T : \A m \in Nat \ T : n <= m
  BY <1>1, Least
<1>3. n # 0 /\ n - 1 \in Nat /\ n - 1 \in T
  BY <1>2
<1>4. (n - 1) + 1 \in T
  BY <1>3
<1>5. (n-1)+1 = n
  BY <1>2
<1> QED
  BY <1>2, <1>4, <1>5

\* A sequence is its front with its last element.
LEMMA FrontAndLast ==
    ASSUME NEW S, NEW s \in Seq(S), NEW t \in Seq(S), NEW e \in S,
           Len(s) = Len(t) + 1, e = s[Len(s)], \A i \in 1 .. Len(t) : t[i] = s[i]
    PROVE  Append(t, e) = s
<1>1. /\ Append(t, e) \in Seq(S) /\ Len(Append(t, e)) = Len(t) + 1 /\ Len(t) \in Nat
      /\ Append(t, e)[Len(t) + 1] = e
      /\ \A i \in 1 .. Len(t) : Append(t, e)[i] = t[i]
  BY AppendProperties
<1>2. \A i \in 1 .. Len(t) + 1 : i \in 1 .. Len(t) \/ i = Len(t) + 1
  BY <1>1
<1> QED
  BY <1>1, <1>2, SeqEqual

\* Appending reaches every sequence.
LEMMA Growing ==
    ASSUME NEW S, NEW T \in SUBSET Seq(S), <<>> \in T,
           \A s \in T : \A e \in S : Append(s, e) \in T
    PROVE  T = Seq(S)
<1> DEFINE N == {n \in Nat : \A s \in Seq(S) : Len(s) = n => s \in T}
<1>1. 0 \in N
  <2>1. \A s \in Seq(S) : Len(s) = 0 => s = <<>>
    BY EmptySeq
  <2> QED
    BY <2>1
<1>2. ASSUME NEW n \in N PROVE n + 1 \in N
  <2>1. SUFFICES ASSUME NEW s \in Seq(S), Len(s) = n + 1 PROVE s \in T
    OBVIOUS
  <2> DEFINE front == SubSeq(s, 1, n)
  <2>2. n \in Nat /\ \A i \in 1 .. n + 1 : s[i] \in S
    BY <2>1
  <2>3. front \in Seq(S) /\ Len(front) = n /\ \A i \in 1 .. n : front[i] = s[i]
    BY <2>1, <2>2
  <2>4. front \in T
    BY <2>3
  <2>5. Append(front, s[n+1]) \in T
    BY <2>2, <2>4
  <2>6. Append(front, s[n+1]) = s
    <3> HIDE DEF front
    <3>1. s[n+1] \in S /\ s[n+1] = s[Len(s)] /\ Len(s) = Len(front) + 1
      BY <2>1, <2>2, <2>3
    <3>2. front \in Seq(S) /\ \A i \in 1 .. Len(front) : front[i] = s[i]
      BY <2>3
    <3> QED
      BY <3>1, <3>2, FrontAndLast
  <2> QED
    BY <2>5, <2>6
<1>3. N = Nat
  <2> HIDE DEF N
  <2>1. N \subseteq Nat
    BY DEF N
  <2> QED
    BY <1>1, <1>2, <2>1, Counting
<1>4. ASSUME NEW s \in Seq(S) PROVE s \in T
  <2>1. Len(s) \in N
    BY <1>3
  <2> QED
    BY <2>1
<1> QED
  BY <1>4

-----------------------------------------------------------------------------
(* Filtered *)

\* f is the function that Filtered recurses over.
FilterSteps(s, K, f) ==
    f = [i \in 0 .. Len(s) |-> IF i = 0 THEN <<>>
                               ELSE IF s[i] \in K THEN Append(f[i - 1], s[i]) ELSE f[i - 1]]

\* What Filtered is, with its recursive function as a choice.
LEMMA FilteredBySteps ==
    ASSUME NEW s, NEW K
    PROVE Filtered(s, K) = (CHOOSE f : FilterSteps(s, K, f))[Len(s)]
  BY DEF Filtered, FilterSteps

\* Two such functions agree as far as their sequences do.
LEMMA StepsAgree ==
    ASSUME NEW S, NEW s \in Seq(S), NEW t \in Seq(S), NEW K, NEW f, NEW g,
           FilterSteps(s, K, f), FilterSteps(t, K, g), Len(s) <= Len(t), \A i \in 1 .. Len(s) : s[i] = t[i]
    PROVE  \A i \in 0 .. Len(s) : f[i] = g[i]
<1> DEFINE T == {i \in Nat : i \in 0 .. Len(s) => f[i] = g[i]}
<1>0. Len(s) \in Nat /\ Len(t) \in Nat
  OBVIOUS
<1>1. 0 \in T
  BY <1>0 DEF FilterSteps
<1>2. ASSUME NEW i \in T PROVE i + 1 \in T
  <2>1. SUFFICES ASSUME i + 1 \in 0 .. Len(s) PROVE f[i+1] = g[i+1]
    OBVIOUS
  <2>2. i \in 0 .. Len(s) /\ f[i] = g[i] /\ s[i+1] = t[i+1] /\ i + 1 # 0 /\ (i+1)-1 = i /\ i + 1 \in 0 .. Len(t)
    BY <2>1, <1>0
  <2>3. f[i+1] = IF s[i+1] \in K THEN Append(f[i], s[i+1]) ELSE f[i]
    BY <2>1, <2>2 DEF FilterSteps
  <2>4. g[i+1] = IF t[i+1] \in K THEN Append(g[i], t[i+1]) ELSE g[i]
    BY <2>2 DEF FilterSteps
  <2> QED
    BY <2>2, <2>3, <2>4
<1>3. T = Nat
  <2>1. T \subseteq Nat
    OBVIOUS
  <2> HIDE DEF T
  <2> QED
    BY <1>1, <1>2, <2>1, Counting
<1> QED
  BY <1>3, <1>0

\* There is one for every sequence.
LEMMA StepsExist ==
    ASSUME NEW S, NEW K, NEW s \in Seq(S)
    PROVE  \E f : FilterSteps(s, K, f)
<1> DEFINE T == {x \in Seq(S) : \E f : FilterSteps(x, K, f)}
<1>1. <<>> \in T
  <2>1. FilterSteps(<<>>, K, [i \in 0 .. 0 |-> <<>>])
    BY DEF FilterSteps
  <2> QED
    BY <2>1
<1>2. ASSUME NEW x \in T, NEW e \in S PROVE Append(x, e) \in T
  <2>1. PICK f : FilterSteps(x, K, f)
    OBVIOUS
  <2> DEFINE n == Len(x)
             y == Append(x, e)
             g == [i \in 0 .. n + 1 |-> IF i = n + 1 THEN IF e \in K THEN Append(f[n], e) ELSE f[n]
                                        ELSE f[i]]
  <2>2. n \in Nat /\ y \in Seq(S) /\ Len(y) = n + 1 /\ y[n+1] = e /\ \A i \in 1 .. n : y[i] = x[i]
    BY AppendProperties
  <2>3. ASSUME NEW i \in 0 .. n + 1
        PROVE  g[i] = IF i = 0 THEN <<>> ELSE IF y[i] \in K THEN Append(g[i - 1], y[i]) ELSE g[i - 1]
    <3>1. CASE i = 0
      BY <3>1, <2>1, <2>2 DEF FilterSteps
    <3>2. CASE i \in 1 .. n
      <4>1. g[i] = f[i] /\ g[i-1] = f[i-1] /\ y[i] = x[i] /\ i # 0 /\ i \in 0 .. Len(x)
        BY <3>2, <2>2
      <4>2. f[i] = IF x[i] \in K THEN Append(f[i - 1], x[i]) ELSE f[i - 1]
        BY <2>1, <4>1 DEF FilterSteps
      <4> QED
        BY <4>1, <4>2
    <3>3. CASE i = n + 1
      <4>1. g[i-1] = f[n] /\ y[i] = e /\ i # 0
        BY <3>3, <2>2
      <4> QED
        BY <4>1, <3>3, <2>2
    <3> QED
      BY <3>1, <3>2, <3>3, <2>2
  <2>4. FilterSteps(y, K, g)
    <3>1. g = [i \in 0 .. n + 1 |-> g[i]]
      OBVIOUS
    <3> HIDE DEF g, y
    <3> QED
      BY <2>2, <2>3, <3>1 DEF FilterSteps
  <2>5. y \in Seq(S) /\ \E h : FilterSteps(y, K, h)
    BY <2>2, <2>4
  <2> QED
    BY <2>5
<1>3. T = Seq(S)
  <2>1. T \subseteq Seq(S)
    OBVIOUS
  <2> HIDE DEF T
  <2> QED
    BY <1>1, <1>2, <2>1, Growing
<1> QED
  BY <1>3

\* So Filtered is the last value of one.
LEMMA FilteredOf ==
    ASSUME NEW S, NEW K, NEW s \in Seq(S)
    PROVE  \E f : FilterSteps(s, K, f) /\ Filtered(s, K) = f[Len(s)]
  BY StepsExist, FilteredBySteps

\* What Filtered gives of no rows, and of one row more.
LEMMA FilteredEmpty ==
    ASSUME NEW K
    PROVE Filtered(<<>>, K) = <<>>
<1>1. PICK f : FilterSteps(<<>>, K, f) /\ Filtered(<<>>, K) = f[Len(<<>>)]
  BY FilteredOf, EmptySeq
<1> QED
  BY <1>1 DEF FilterSteps

LEMMA FilteredAppend ==
    ASSUME NEW S, NEW K, NEW s \in Seq(S), NEW e \in S
    PROVE  Filtered(Append(s, e), K) = IF e \in K THEN Append(Filtered(s, K), e) ELSE Filtered(s, K)
<1> DEFINE t == Append(s, e)
           n == Len(s)
<1>1. t \in Seq(S) /\ Len(t) = n + 1 /\ t[n+1] = e /\ (\A i \in 1 .. n : t[i] = s[i]) /\ n \in Nat
  BY AppendProperties
<1> HIDE DEF t
<1>2. PICK f : FilterSteps(s, K, f) /\ Filtered(s, K) = f[n]
  BY FilteredOf
<1>3. PICK g : FilterSteps(t, K, g) /\ Filtered(t, K) = g[n + 1]
  BY <1>1, FilteredOf
<1>4. g[n+1] = IF e \in K THEN Append(g[n], e) ELSE g[n]
  <2>1. n + 1 \in 0 .. Len(t) /\ n + 1 # 0 /\ (n+1)-1 = n
    BY <1>1
  <2> HIDE DEF n
  <2>2. g[n+1] = IF t[n+1] \in K THEN Append(g[n], t[n+1]) ELSE g[n]
    BY <2>1, <1>3 DEF FilterSteps
  <2> QED
    BY <1>1, <2>2
<1>5. \A i \in 0 .. n : f[i] = g[i]
  <2>1. n <= Len(t)
    BY <1>1
  <2> QED
    BY <1>1, <1>2, <1>3, <2>1, StepsAgree
<1>6. f[n] = g[n]
  BY <1>5, <1>1
<1> QED
  BY <1>2, <1>3, <1>4, <1>6 DEF t

\* The elements of a sequence, and what makes one without duplicates.
LEMMA ElementsAre ==
    /\ ToSet(<<>>) = {} /\ IsInjective(<<>>)
    /\ \A S : \A s \in Seq(S) : \A e \in S :
          /\ ToSet(s) \subseteq S
          /\ ToSet(Append(s, e)) = ToSet(s) \cup {e}
          /\ IsInjective(Append(s, e)) <=> IsInjective(s) /\ e \notin ToSet(s)
<1>1. ToSet(<<>>) = {} /\ IsInjective(<<>>)
  BY DEF ToSet, IsInjective
<1>2. ASSUME NEW S, NEW s \in Seq(S), NEW e \in S
      PROVE  /\ ToSet(s) \subseteq S
             /\ ToSet(Append(s, e)) = ToSet(s) \cup {e}
             /\ IsInjective(Append(s, e)) <=> IsInjective(s) /\ e \notin ToSet(s)
  <2> DEFINE t == Append(s, e)
             n == Len(s)
  <2>1. n \in Nat /\ DOMAIN s = 1 .. n /\ DOMAIN t = 1 .. n + 1 /\ t[n+1] = e
        /\ (\A i \in 1 .. n : t[i] = s[i]) /\ (\A i \in 1 .. n : s[i] \in S)
    BY AppendProperties
  <2>2. 1 .. n + 1 = (1 .. n) \cup {n + 1}
    BY <2>1
  <2> HIDE DEF t, n
  <2>3. ToSet(s) \subseteq S
    BY <2>1 DEF ToSet
  <2>4. ToSet(t) = ToSet(s) \cup {e}
    BY <2>1, <2>2 DEF ToSet
  <2>5. IsInjective(t) <=> IsInjective(s) /\ e \notin ToSet(s)
    <3>1. n + 1 \notin 1 .. n
      BY <2>1
    <3>2. e \in ToSet(s) <=> \E i \in 1 .. n : s[i] = e
      BY <2>1 DEF ToSet
    <3> QED
      BY <2>1, <2>2, <3>1, <3>2 DEF IsInjective
  <2> QED
    BY <2>3, <2>4, <2>5 DEF t
<1> QED
  BY <1>1, <1>2

\* Filtered keeps what is in both.
LEMMA FilteredSeq ==
    ASSUME NEW S, NEW K, NEW s \in Seq(S)
    PROVE  /\ Filtered(s, K) \in Seq(S)
           /\ ToSet(Filtered(s, K)) = ToSet(s) \cap K
<1> DEFINE T == {x \in Seq(S) : Filtered(x, K) \in Seq(S) /\ ToSet(Filtered(x, K)) = ToSet(x) \cap K}
<1>1. <<>> \in T
  BY FilteredEmpty, ElementsAre, EmptySeq
<1>2. ASSUME NEW x \in T, NEW e \in S PROVE Append(x, e) \in T
  <2>1. Filtered(Append(x, e), K) = IF e \in K THEN Append(Filtered(x, K), e) ELSE Filtered(x, K)
    BY FilteredAppend
  <2>2. Append(x, e) \in Seq(S) /\ Append(Filtered(x, K), e) \in Seq(S)
    BY AppendProperties
  <2>3. ToSet(Append(x, e)) = ToSet(x) \cup {e} /\ ToSet(Append(Filtered(x, K), e)) = ToSet(Filtered(x, K)) \cup {e}
    BY ElementsAre
  <2> QED
    BY <2>1, <2>2, <2>3
<1>3. T = Seq(S)
  <2>1. T \subseteq Seq(S)
    OBVIOUS
  <2> HIDE DEF T
  <2> QED
    BY <1>1, <1>2, <2>1, Growing
<1> QED
  BY <1>3

\* It does not duplicate.
LEMMA FilteredInjective ==
    ASSUME NEW S, NEW K, NEW s \in Seq(S), IsInjective(s)
    PROVE  IsInjective(Filtered(s, K))
<1> DEFINE T == {x \in Seq(S) : IsInjective(x) => IsInjective(Filtered(x, K))}
<1>1. <<>> \in T
  BY FilteredEmpty, ElementsAre, EmptySeq
<1>2. ASSUME NEW x \in T, NEW e \in S PROVE Append(x, e) \in T
  <2>1. Filtered(Append(x, e), K) = IF e \in K THEN Append(Filtered(x, K), e) ELSE Filtered(x, K)
    BY FilteredAppend
  <2>2. Append(x, e) \in Seq(S) /\ Filtered(x, K) \in Seq(S) /\ ToSet(Filtered(x, K)) \subseteq ToSet(x)
    BY AppendProperties, FilteredSeq
  <2>3. /\ IsInjective(Append(x, e)) => IsInjective(x) /\ e \notin ToSet(x)
        /\ IsInjective(Filtered(x, K)) /\ e \notin ToSet(Filtered(x, K)) => IsInjective(Append(Filtered(x, K), e))
    BY <2>2, ElementsAre
  <2> QED
    BY <2>1, <2>2, <2>3
<1>3. T = Seq(S)
  <2>1. T \subseteq Seq(S)
    OBVIOUS
  <2> HIDE DEF T
  <2> QED
    BY <1>1, <1>2, <2>1, Growing
<1> QED
  BY <1>3

\* Filtering twice keeps what is in both sets.
LEMMA FilteredTwice ==
    ASSUME NEW S, NEW K, NEW L, NEW s \in Seq(S)
    PROVE  Filtered(Filtered(s, K), L) = Filtered(s, K \cap L)
<1> DEFINE T == {x \in Seq(S) : Filtered(Filtered(x, K), L) = Filtered(x, K \cap L)}
<1>1. <<>> \in T
  BY FilteredEmpty, EmptySeq
<1>2. ASSUME NEW x \in T, NEW e \in S PROVE Append(x, e) \in T
  <2>1. Filtered(Append(x, e), K) = IF e \in K THEN Append(Filtered(x, K), e) ELSE Filtered(x, K)
    BY FilteredAppend
  <2>2. Filtered(Append(x, e), K \cap L) = IF e \in K \cap L THEN Append(Filtered(x, K \cap L), e) ELSE Filtered(x, K \cap L)
    BY FilteredAppend
  <2> DEFINE y == Filtered(x, K)
  <2>9. y \in Seq(S)
    BY FilteredSeq
  <2>3. Filtered(y, L) = Filtered(x, K \cap L) /\ Append(x, e) \in Seq(S)
    BY AppendProperties
  <2> HIDE DEF y
  <2>4. Filtered(Append(y, e), L) = IF e \in L THEN Append(Filtered(y, L), e) ELSE Filtered(y, L)
    BY <2>9, FilteredAppend
  <2>5. Filtered(IF e \in K THEN Append(y, e) ELSE y, L) = Filtered(Append(x, e), K \cap L)
    BY <2>2, <2>3, <2>4
  <2> QED
    BY <2>1, <2>3, <2>5 DEF y
<1>3. T = Seq(S)
  <2>1. T \subseteq Seq(S)
    OBVIOUS
  <2> HIDE DEF T
  <2> QED
    BY <1>1, <1>2, <2>1, Growing
<1> QED
  BY <1>3

\* Only what is in the sequence matters of the set.
LEMMA FilteredByElements ==
    ASSUME NEW S, NEW K, NEW L, NEW s \in Seq(S), ToSet(s) \cap K = ToSet(s) \cap L
    PROVE  Filtered(s, K) = Filtered(s, L)
<1> DEFINE T == {x \in Seq(S) : ToSet(x) \cap K = ToSet(x) \cap L => Filtered(x, K) = Filtered(x, L)}
<1>1. <<>> \in T
  BY FilteredEmpty, EmptySeq
<1>2. ASSUME NEW x \in T, NEW e \in S PROVE Append(x, e) \in T
  <2>1. /\ Filtered(Append(x, e), K) = IF e \in K THEN Append(Filtered(x, K), e) ELSE Filtered(x, K)
        /\ Filtered(Append(x, e), L) = IF e \in L THEN Append(Filtered(x, L), e) ELSE Filtered(x, L)
    BY FilteredAppend
  <2>2. Append(x, e) \in Seq(S) /\ ToSet(Append(x, e)) = ToSet(x) \cup {e}
    BY AppendProperties, ElementsAre
  <2> QED
    BY <2>1, <2>2
<1>3. T = Seq(S)
  <2>1. T \subseteq Seq(S)
    OBVIOUS
  <2> HIDE DEF T
  <2> QED
    BY <1>1, <1>2, <2>1, Growing
<1> QED
  BY <1>3

\* Nothing is taken out when all are in the set, and everything when none is.
LEMMA FilteredAll ==
    ASSUME NEW S, NEW K, NEW s \in Seq(S), ToSet(s) \subseteq K
    PROVE  Filtered(s, K) = s
<1> DEFINE T == {x \in Seq(S) : ToSet(x) \subseteq K => Filtered(x, K) = x}
<1>1. <<>> \in T
  BY FilteredEmpty, EmptySeq
<1>2. ASSUME NEW x \in T, NEW e \in S PROVE Append(x, e) \in T
  <2>1. Filtered(Append(x, e), K) = IF e \in K THEN Append(Filtered(x, K), e) ELSE Filtered(x, K)
    BY FilteredAppend
  <2>2. Append(x, e) \in Seq(S) /\ ToSet(Append(x, e)) = ToSet(x) \cup {e}
    BY AppendProperties, ElementsAre
  <2> QED
    BY <2>1, <2>2
<1>3. T = Seq(S)
  <2>1. T \subseteq Seq(S)
    OBVIOUS
  <2> HIDE DEF T
  <2> QED
    BY <1>1, <1>2, <2>1, Growing
<1> QED
  BY <1>3

LEMMA FilteredNone ==
    ASSUME NEW S, NEW K, NEW s \in Seq(S), ToSet(s) \cap K = {}
    PROVE  Filtered(s, K) = <<>>
<1> DEFINE T == {x \in Seq(S) : ToSet(x) \cap K = {} => Filtered(x, K) = <<>>}
<1>1. <<>> \in T
  BY FilteredEmpty, EmptySeq
<1>2. ASSUME NEW x \in T, NEW e \in S PROVE Append(x, e) \in T
  <2>1. Filtered(Append(x, e), K) = IF e \in K THEN Append(Filtered(x, K), e) ELSE Filtered(x, K)
    BY FilteredAppend
  <2>2. Append(x, e) \in Seq(S) /\ ToSet(Append(x, e)) = ToSet(x) \cup {e}
    BY AppendProperties, ElementsAre
  <2> QED
    BY <2>1, <2>2
<1>3. T = Seq(S)
  <2>1. T \subseteq Seq(S)
    OBVIOUS
  <2> HIDE DEF T
  <2> QED
    BY <1>1, <1>2, <2>1, Growing
<1> QED
  BY <1>3

\* Appending to the second of two sequences.
LEMMA AppendToConcat ==
    ASSUME NEW S, NEW s \in Seq(S), NEW t \in Seq(S), NEW e \in S
    PROVE  s \o Append(t, e) = Append(s \o t, e)
<1>1. s \o t \in Seq(S) /\ s \o Append(t, e) \in Seq(S) /\ Append(s \o t, e) \in Seq(S)
  BY ConcatProperties, AppendProperties
<1>2. Append(t, e) = t \o <<e>> /\ Append(s \o t, e) = (s \o t) \o <<e>>
  BY <1>1, AppendIsConcat
<1>3. <<e>> \in Seq(S)
  OBVIOUS
<1> QED
  BY <1>2, <1>3, ConcatAssociative

\* Filtering two sequences one after the other.
LEMMA FilteredConcat ==
    ASSUME NEW S, NEW K, NEW s \in Seq(S), NEW t \in Seq(S)
    PROVE  Filtered(s \o t, K) = Filtered(s, K) \o Filtered(t, K)
<1> DEFINE T == {x \in Seq(S) : Filtered(s \o x, K) = Filtered(s, K) \o Filtered(x, K)}
<1>1. <<>> \in T
  <2>1. s \o <<>> = s /\ Filtered(s, K) \o <<>> = Filtered(s, K)
    BY ConcatEmptySeq, FilteredSeq
  <2> QED
    BY <2>1, FilteredEmpty, EmptySeq
<1>2. ASSUME NEW x \in T, NEW e \in S PROVE Append(x, e) \in T
  <2>1. Filtered(Append(x, e), K) = IF e \in K THEN Append(Filtered(x, K), e) ELSE Filtered(x, K)
    BY FilteredAppend
  <2> DEFINE u == s \o x
             v == Filtered(s, K)
             w == Filtered(x, K)
  <2>2. u \in Seq(S) /\ v \in Seq(S) /\ w \in Seq(S) /\ Append(x, e) \in Seq(S)
    BY ConcatProperties, FilteredSeq, AppendProperties
  <2>3. Filtered(u, K) = v \o w
    OBVIOUS
  <2>4. s \o Append(x, e) = Append(u, e)
    BY AppendToConcat
  <2> HIDE DEF u, v, w
  <2>5. Filtered(Append(u, e), K) = IF e \in K THEN Append(Filtered(u, K), e) ELSE Filtered(u, K)
    BY <2>2, FilteredAppend
  <2>6. v \o Append(w, e) = Append(v \o w, e)
    BY <2>2, AppendToConcat
  <2>7. Filtered(Append(u, e), K) = v \o (IF e \in K THEN Append(w, e) ELSE w)
    BY <2>3, <2>5, <2>6
  <2> QED
    BY <2>1, <2>2, <2>4, <2>7 DEF v, w
<1>3. T = Seq(S)
  <2>1. T \subseteq Seq(S)
    OBVIOUS
  <2> HIDE DEF T
  <2> QED
    BY <1>1, <1>2, <2>1, Growing
<1> QED
  BY <1>3

\* Two sequences one after the other.
LEMMA ConcatElements ==
    ASSUME NEW S, NEW s \in Seq(S), NEW t \in Seq(S)
    PROVE  /\ s \o t \in Seq(S)
           /\ ToSet(s \o t) = ToSet(s) \cup ToSet(t)
           /\ IsInjective(s \o t) <=>
                 IsInjective(s) /\ IsInjective(t) /\ ToSet(s) \cap ToSet(t) = {}
<1> DEFINE T == {x \in Seq(S) :
        /\ ToSet(s \o x) = ToSet(s) \cup ToSet(x)
        /\ IsInjective(s \o x) <=>
              IsInjective(s) /\ IsInjective(x) /\ ToSet(s) \cap ToSet(x) = {}}
<1>1. <<>> \in T
  <2>1. s \o <<>> = s
    BY ConcatEmptySeq
  <2> QED
    BY <2>1, ElementsAre, EmptySeq
<1>2. ASSUME NEW x \in T, NEW e \in S PROVE Append(x, e) \in T
  <2> DEFINE u == s \o x
             y == Append(x, e)
  <2>1. u \in Seq(S) /\ y \in Seq(S) /\ s \o y = Append(u, e)
    BY ConcatProperties, AppendProperties, AppendToConcat
  <2>2. /\ ToSet(u) = ToSet(s) \cup ToSet(x)
        /\ IsInjective(u) <=> IsInjective(s) /\ IsInjective(x) /\ ToSet(s) \cap ToSet(x) = {}
    OBVIOUS
  <2>3. ToSet(y) = ToSet(x) \cup {e} /\ (IsInjective(y) <=> IsInjective(x) /\ e \notin ToSet(x))
    BY ElementsAre
  <2> HIDE DEF u, y
  <2>4. ToSet(Append(u, e)) = ToSet(u) \cup {e} /\ (IsInjective(Append(u, e)) <=> IsInjective(u) /\ e \notin ToSet(u))
    BY <2>1, ElementsAre
  <2>5. y \in T
    BY <2>1, <2>2, <2>3, <2>4
  <2> QED
    BY <2>5 DEF y
<1>3. T = Seq(S)
  <2>1. T \subseteq Seq(S)
    OBVIOUS
  <2> HIDE DEF T
  <2> QED
    BY <1>1, <1>2, <2>1, Growing
<1>4. t \in T
  BY <1>3
<1> QED
  BY <1>4, ConcatProperties

\* A sequence with one more element anywhere in it.
LEMMA InsertedElements ==
    ASSUME NEW S, NEW s \in Seq(S), NEW e \in S, NEW i \in 1 .. Len(s) + 1
    PROVE  /\ InsertAt(s, i, e) \in Seq(S)
           /\ ToSet(InsertAt(s, i, e)) = ToSet(s) \cup {e}
           /\ IsInjective(s) /\ e \notin ToSet(s) => IsInjective(InsertAt(s, i, e))
<1> DEFINE front == SubSeq(s, 1, i - 1)
           back == SubSeq(s, i, Len(s))
           mid == Append(front, e)
<1>1. front \in Seq(S) /\ back \in Seq(S) /\ Len(s) \in Nat /\ i - 1 \in 0 .. Len(s)
  OBVIOUS
<1>2. front \o back = s
  <2>1. 1 \in 1 .. Len(s) + 1 /\ i - 1 \in 1 - 1 .. Len(s) /\ Len(s) \in i - 1 .. Len(s) /\ (i - 1) + 1 = i
    BY <1>1
  <2>2. SubSeq(s, 1, i - 1) \o SubSeq(s, (i - 1) + 1, Len(s)) = SubSeq(s, 1, Len(s))
    BY <2>1, ConcatAdjacentSubSeq
  <2>3. SubSeq(s, 1, Len(s)) = s
    BY SubSeqFull
  <2> QED
    BY <2>1, <2>2, <2>3
<1>3. InsertAt(s, i, e) = (front \o <<e>>) \o back
  BY DEF InsertAt
<1>4. mid \in Seq(S) /\ mid = front \o <<e>>
  BY <1>1, AppendProperties, AppendIsConcat
<1>9. front \in Seq(S) /\ back \in Seq(S)
  BY <1>1
<1>10. mid \in Seq(S)
  BY <1>4
<1> HIDE DEF front, back
<1>5. ToSet(mid) = ToSet(front) \cup {e} /\ (IsInjective(mid) <=> IsInjective(front) /\ e \notin ToSet(front))
  BY <1>1, ElementsAre
<1> HIDE DEF mid
<1>6. /\ mid \o back \in Seq(S)
      /\ ToSet(mid \o back) = ToSet(mid) \cup ToSet(back)
      /\ IsInjective(mid \o back) <=> IsInjective(mid) /\ IsInjective(back) /\ ToSet(mid) \cap ToSet(back) = {}
  BY <1>9, <1>10, ConcatElements
<1>7. /\ ToSet(s) = ToSet(front) \cup ToSet(back)
      /\ IsInjective(s) <=> IsInjective(front) /\ IsInjective(back) /\ ToSet(front) \cap ToSet(back) = {}
  <2>1. /\ ToSet(front \o back) = ToSet(front) \cup ToSet(back)
        /\ IsInjective(front \o back) <=> IsInjective(front) /\ IsInjective(back) /\ ToSet(front) \cap ToSet(back) = {}
    BY <1>9, ConcatElements
  <2> QED
    BY <1>2, <2>1
<1>8. InsertAt(s, i, e) = mid \o back
  BY <1>3, <1>4
<1> QED
  BY <1>5, <1>6, <1>7, <1>8

\* Taking out one element makes a sequence without duplicates one shorter.
LEMMA OneLess ==
    ASSUME NEW S, NEW c \in S, NEW s \in Seq(S), IsInjective(s)
    PROVE  Len(Filtered(s, S \ {c})) = IF c \in ToSet(s) THEN Len(s) - 1 ELSE Len(s)
<1> DEFINE T == {x \in Seq(S) : IsInjective(x) =>
                    Len(Filtered(x, S \ {c})) = IF c \in ToSet(x) THEN Len(x) - 1 ELSE Len(x)}
<1>1. <<>> \in T
  BY FilteredEmpty, ElementsAre, EmptySeq
<1>2. ASSUME NEW x \in T, NEW e \in S PROVE Append(x, e) \in T
  <2> DEFINE y == Append(x, e)
             k == Filtered(x, S \ {c})
  <2>1. Filtered(y, S \ {c}) = IF e \in S \ {c} THEN Append(k, e) ELSE k
    BY FilteredAppend
  <2>2. y \in Seq(S) /\ Len(y) = Len(x) + 1 /\ Len(x) \in Nat
    BY AppendProperties
  <2>3. k \in Seq(S)
    BY FilteredSeq
  <2>4. ToSet(y) = ToSet(x) \cup {e} /\ (IsInjective(y) <=> IsInjective(x) /\ e \notin ToSet(x))
    BY ElementsAre
  <2>5. IsInjective(x) => Len(k) = IF c \in ToSet(x) THEN Len(x) - 1 ELSE Len(x)
    OBVIOUS
  <2> HIDE DEF k, y
  <2>6. Len(Append(k, e)) = Len(k) + 1
    BY <2>3, AppendProperties
  <2>7. IsInjective(y) => Len(Filtered(y, S \ {c})) = IF c \in ToSet(y) THEN Len(y) - 1 ELSE Len(y)
    BY <2>1, <2>2, <2>4, <2>5, <2>6
  <2>8. y \in T
    BY <2>2, <2>7
  <2> QED
    BY <2>8 DEF y
<1>3. T = Seq(S)
  <2>1. T \subseteq Seq(S)
    OBVIOUS
  <2> HIDE DEF T
  <2> QED
    BY <1>1, <1>2, <2>1, Growing
<1> QED
  BY <1>3

-----------------------------------------------------------------------------
(* Shapes *)

\* What a shape is made of.
LEMMA ShapeFields ==
    ASSUME NEW t, NEW s \in Shapes(t)
    PROVE  /\ s = [data |-> s.data, kids |-> s.kids, order |-> s.order, updated |-> s.updated]
           /\ s.data \in [Fields -> Values \cup {Absent}]
           /\ s.kids \in [Rows -> Kinds \cup {Absent}]
           /\ s.order \in Seq(Rows)
           /\ s.updated \in 0 .. t
           /\ ToSet(s.order) = Kept(s.kids)
           /\ IsInjective(s.order)
  BY DEF Shapes, Ids

LEMMA MakeShape ==
    ASSUME NEW t, NEW data \in [Fields -> Values \cup {Absent}],
           NEW kids \in [Rows -> Kinds \cup {Absent}],
           NEW order \in Seq(Rows), NEW updated \in 0 .. t,
           ToSet(order) = Kept(kids), IsInjective(order)
    PROVE  [data |-> data, kids |-> kids, order |-> order, updated |-> updated] \in Shapes(t)
  BY DEF Shapes, Ids

LEMMA NoRows ==
    ASSUME NEW t \in Nat
    PROVE  EmptyShape \in Shapes(t)
<1>1. Kept([c \in Rows |-> Absent]) = {}
  BY DEF Kept
<1>2. ToSet(<<>>) = {} /\ IsInjective(<<>>) /\ <<>> \in Seq(Rows)
  BY ElementsAre, EmptySeq
<1>3. [f \in Fields |-> Absent] \in [Fields -> Values \cup {Absent}]
  OBVIOUS
<1>4. [c \in Rows |-> Absent] \in [Rows -> Kinds \cup {Absent}]
  OBVIOUS
<1>5. 0 \in 0 .. t
  OBVIOUS
<1> DEFINE data == [f \in Fields |-> Absent]
           kids == [c \in Rows |-> Absent]
<1>6. EmptyShape = [data |-> data, kids |-> kids, order |-> <<>>, updated |-> 0]
  BY DEF EmptyShape
<1> HIDE DEF data, kids
<1>7. ToSet(<<>>) = Kept(kids)
  BY <1>1, <1>2 DEF kids
<1>8. data \in [Fields -> Values \cup {Absent}] /\ kids \in [Rows -> Kinds \cup {Absent}]
  BY <1>3, <1>4 DEF data, kids
<1> QED
  BY <1>2, <1>5, <1>6, <1>7, <1>8, MakeShape

\* A shape of an earlier time is one of a later time.
LEMMA LaterShape ==
    ASSUME NEW t \in Int, NEW u \in Int, t <= u, NEW s \in Shapes(t)
    PROVE  s \in Shapes(u)
<1>0. s = [data |-> s.data, kids |-> s.kids, order |-> s.order, updated |-> s.updated]
  BY ShapeFields
<1>1. s.updated \in 0 .. u
  BY ShapeFields
<1>2. /\ s.data \in [Fields -> Values \cup {Absent}]
      /\ s.kids \in [Rows -> Kinds \cup {Absent}]
      /\ s.order \in Seq(Rows)
      /\ ToSet(s.order) = Kept(s.kids)
      /\ IsInjective(s.order)
  BY ShapeFields
<1>3. [data |-> s.data, kids |-> s.kids, order |-> s.order, updated |-> s.updated] \in Shapes(u)
  BY <1>1, <1>2, MakeShape
<1> QED
  BY <1>0, <1>3

-----------------------------------------------------------------------------
(* Editing a shape *)

LEMMA SetFieldShape ==
    ASSUME NEW t \in Nat, NEW s \in Shapes(t), NEW f \in Fields, NEW v \in Values \cup {Absent}
    PROVE  SetField(s, f, v, t) \in Shapes(t)
<1>0. s = [data |-> s.data, kids |-> s.kids, order |-> s.order, updated |-> s.updated]
  BY ShapeFields
<1> DEFINE data == [s.data EXCEPT ![f] = v]
           one == [s EXCEPT !.data = data]
<1>1. SetField(s, f, v, t) = [one EXCEPT !.updated = t]
  BY DEF SetField
<1>2. data \in [Fields -> Values \cup {Absent}]
  BY ShapeFields
<1> HIDE DEF data
<1>3. one = [data |-> data, kids |-> s.kids, order |-> s.order, updated |-> s.updated]
  BY <1>0
<1> HIDE DEF one
<1>4. SetField(s, f, v, t) = [data |-> data, kids |-> s.kids, order |-> s.order, updated |-> t]
  BY <1>1, <1>3
<1>5. /\ s.kids \in [Rows -> Kinds \cup {Absent}]
      /\ s.order \in Seq(Rows)
      /\ ToSet(s.order) = Kept(s.kids)
      /\ IsInjective(s.order)
  BY ShapeFields
<1>6. t \in 0 .. t
  OBVIOUS
<1> QED
  BY <1>2, <1>4, <1>5, <1>6, MakeShape

LEMMA AddRowShape ==
    ASSUME NEW t \in Nat, NEW s \in Shapes(t), NEW c \in Rows \ Ids(s), NEW k \in Kinds,
           NEW i \in 1 .. Len(s.order) + 1
    PROVE  AddRow(s, c, k, i) \in Shapes(t)
<1>0. s = [data |-> s.data, kids |-> s.kids, order |-> s.order, updated |-> s.updated]
  BY ShapeFields
<1> DEFINE kids == [s.kids EXCEPT ![c] = k]
           order == InsertAt(s.order, i, c)
           one == [s EXCEPT !.kids = kids]
<1>1. AddRow(s, c, k, i) = [data |-> s.data, kids |-> kids, order |-> order, updated |-> s.updated]
  <2>1. AddRow(s, c, k, i) = [one EXCEPT !.order = InsertAt(one.order, i, c)]
    BY DEF AddRow
  <2> HIDE DEF kids, order
  <2>2. one = [data |-> s.data, kids |-> kids, order |-> s.order, updated |-> s.updated]
    BY <1>0
  <2> HIDE DEF one
  <2> QED
    BY <2>1, <2>2 DEF order
<1>2. kids \in [Rows -> Kinds \cup {Absent}] /\ Kept(kids) = Kept(s.kids) \cup {c}
  BY ShapeFields, ShapesAssumption DEF Kept
<1>3. /\ order \in Seq(Rows)
      /\ ToSet(order) = ToSet(s.order) \cup {c}
      /\ IsInjective(s.order) /\ c \notin ToSet(s.order) => IsInjective(order)
  <2>1. s.order \in Seq(Rows) /\ c \in Rows
    BY ShapeFields
  <2> QED
    BY <2>1, InsertedElements
<1>4. c \notin ToSet(s.order)
  BY ShapeFields DEF Ids
<1>5. s.data \in [Fields -> Values \cup {Absent}] /\ s.updated \in 0 .. t
  BY ShapeFields
<1>6. ToSet(s.order) = Kept(s.kids) /\ IsInjective(s.order)
  BY ShapeFields
<1> HIDE DEF kids, order, one
<1>7. ToSet(order) = Kept(kids) /\ IsInjective(order)
  BY <1>2, <1>3, <1>4, <1>6
<1>8. kids \in [Rows -> Kinds \cup {Absent}] /\ order \in Seq(Rows)
  BY <1>2, <1>3
<1>9. [data |-> s.data, kids |-> kids, order |-> order, updated |-> s.updated] \in Shapes(t)
  BY <1>5, <1>7, <1>8, MakeShape
<1> QED
  BY <1>1, <1>9

\* The order without one row.
LEMMA WithoutRow ==
    ASSUME NEW t, NEW s \in Shapes(t), NEW c \in Ids(s)
    PROVE  /\ Filtered(s.order, Rows \ {c}) \in Seq(Rows)
           /\ ToSet(Filtered(s.order, Rows \ {c})) = Ids(s) \ {c}
           /\ IsInjective(Filtered(s.order, Rows \ {c}))
           /\ Len(Filtered(s.order, Rows \ {c})) = Len(s.order) - 1
<1>1. s.order \in Seq(Rows) /\ IsInjective(s.order) /\ ToSet(s.order) = Ids(s)
  BY ShapeFields DEF Ids
<1>2. c \in Rows /\ Ids(s) \subseteq Rows
  BY DEF Ids, Kept
<1> QED
  BY <1>1, <1>2, FilteredSeq, FilteredInjective, OneLess

LEMMA DeleteRowShape ==
    ASSUME NEW t \in Nat, NEW s \in Shapes(t), NEW c \in Ids(s)
    PROVE  DeleteRow(s, c) \in Shapes(t)
<1> DEFINE kids == [s.kids EXCEPT ![c] = Absent]
           order == Filtered(s.order, Rows \ {c})
           one == [s EXCEPT !.kids = kids]
<1>0. s = [data |-> s.data, kids |-> s.kids, order |-> s.order, updated |-> s.updated]
  BY ShapeFields
<1>1. DeleteRow(s, c) = [data |-> s.data, kids |-> kids, order |-> order, updated |-> s.updated]
  <2>1. DeleteRow(s, c) = [one EXCEPT !.order = Filtered(one.order, Rows \ {c})]
    BY DEF DeleteRow
  <2> HIDE DEF kids, order
  <2>2. one = [data |-> s.data, kids |-> kids, order |-> s.order, updated |-> s.updated]
    BY <1>0
  <2> HIDE DEF one
  <2> QED
    BY <2>1, <2>2 DEF order
<1>2. kids \in [Rows -> Kinds \cup {Absent}] /\ Kept(kids) = Ids(s) \ {c}
  BY ShapeFields DEF Kept, Ids
<1>3. order \in Seq(Rows) /\ ToSet(order) = Ids(s) \ {c} /\ IsInjective(order)
  BY WithoutRow
<1>4. s.data \in [Fields -> Values \cup {Absent}] /\ s.updated \in 0 .. t
  BY ShapeFields
<1> HIDE DEF kids, order, one
<1>5. ToSet(order) = Kept(kids) /\ IsInjective(order)
  BY <1>2, <1>3
<1>6. kids \in [Rows -> Kinds \cup {Absent}] /\ order \in Seq(Rows)
  BY <1>2, <1>3
<1>7. [data |-> s.data, kids |-> kids, order |-> order, updated |-> s.updated] \in Shapes(t)
  BY <1>4, <1>5, <1>6, MakeShape
<1> QED
  BY <1>1, <1>7

LEMMA SetKindShape ==
    ASSUME NEW t \in Nat, NEW s \in Shapes(t), NEW c \in Ids(s), NEW k \in Kinds
    PROVE  SetKind(s, c, k) \in Shapes(t)
<1> DEFINE kids == [s.kids EXCEPT ![c] = k]
<1>0. s = [data |-> s.data, kids |-> s.kids, order |-> s.order, updated |-> s.updated]
  BY ShapeFields
<1>1. SetKind(s, c, k) = [data |-> s.data, kids |-> kids, order |-> s.order, updated |-> s.updated]
  <2>1. SetKind(s, c, k) = [s EXCEPT !.kids = kids]
    BY DEF SetKind
  <2> HIDE DEF kids, SetKind
  <2> QED
    BY <1>0, <2>1
<1>2. kids \in [Rows -> Kinds \cup {Absent}] /\ Kept(kids) = Kept(s.kids)
  BY ShapeFields, ShapesAssumption DEF Kept, Ids
<1>3. /\ s.data \in [Fields -> Values \cup {Absent}] /\ s.updated \in 0 .. t
      /\ s.order \in Seq(Rows) /\ IsInjective(s.order) /\ ToSet(s.order) = Kept(s.kids)
  BY ShapeFields
<1> HIDE DEF kids
<1>4. ToSet(s.order) = Kept(kids)
  BY <1>2, <1>3
<1> QED
  BY <1>1, <1>2, <1>3, <1>4, MakeShape

LEMMA MoveRowShape ==
    ASSUME NEW t \in Nat, NEW s \in Shapes(t), NEW c \in Ids(s), NEW i \in 1 .. Len(s.order)
    PROVE  MoveRow(s, c, i) \in Shapes(t)
<1> DEFINE others == Filtered(s.order, Rows \ {c})
           order == InsertAt(others, i, c)
<1>0. s = [data |-> s.data, kids |-> s.kids, order |-> s.order, updated |-> s.updated]
  BY ShapeFields
<1>1. MoveRow(s, c, i) = [data |-> s.data, kids |-> s.kids, order |-> order, updated |-> s.updated]
  <2>1. MoveRow(s, c, i) = [s EXCEPT !.order = order]
    BY DEF MoveRow
  <2> HIDE DEF order
  <2> QED
    BY <1>0, <2>1
<1>2. /\ others \in Seq(Rows) /\ ToSet(others) = Ids(s) \ {c} /\ IsInjective(others)
      /\ i \in 1 .. Len(others) + 1
  <2>1. s.order \in Seq(Rows)
    BY ShapeFields
  <2>2. Len(s.order) \in Nat
    BY <2>1
  <2>3. Len(others) = Len(s.order) - 1
    BY WithoutRow
  <2> HIDE DEF others
  <2>4. i \in 1 .. Len(others) + 1
    BY <2>2, <2>3
  <2> QED
    BY <2>4, WithoutRow DEF others
<1>3. c \in Rows
  BY DEF Ids, Kept
<1> HIDE DEF others
<1>4. order \in Seq(Rows) /\ ToSet(order) = ToSet(others) \cup {c} /\ IsInjective(order)
  BY <1>2, <1>3, InsertedElements
<1>5. ToSet(order) = Kept(s.kids)
  BY <1>2, <1>4 DEF Ids
<1>6. /\ s.data \in [Fields -> Values \cup {Absent}] /\ s.updated \in 0 .. t
      /\ s.kids \in [Rows -> Kinds \cup {Absent}]
  BY ShapeFields
<1> HIDE DEF order
<1>7. order \in Seq(Rows) /\ IsInjective(order)
  BY <1>4
<1>8. [data |-> s.data, kids |-> s.kids, order |-> order, updated |-> s.updated] \in Shapes(t)
  BY <1>5, <1>6, <1>7, MakeShape
<1> QED
  BY <1>1, <1>8

\* An edit made now of a shape up to now is a shape up to now.
LEMMA EditIsShape ==
    ASSUME NEW t \in Nat, NEW s \in Shapes(t), NEW e \in Edits(s, t)
    PROVE  e \in Shapes(t)
<1>1. CASE \E f \in Fields, v \in Values \cup {Absent} : e = SetField(s, f, v, t)
  BY <1>1, SetFieldShape
<1>2. CASE \E c \in Rows \ Ids(s), k \in Kinds, i \in 1 .. Len(s.order) + 1 : e = AddRow(s, c, k, i)
  BY <1>2, AddRowShape
<1>3. CASE \E c \in Ids(s) : e = DeleteRow(s, c)
  BY <1>3, DeleteRowShape
<1>4. CASE \E c \in Ids(s) \ Literals, k \in Kinds : e = SetKind(s, c, k)
  BY <1>4, SetKindShape
<1>5. CASE \E c \in Ids(s), i \in 1 .. Len(s.order) : e = MoveRow(s, c, i)
  BY <1>5, MoveRowShape
<1> QED
  BY <1>1, <1>2, <1>3, <1>4, <1>5 DEF Edits

-----------------------------------------------------------------------------
(* Merging shapes *)

\* No field and no row of the two sides clashes.
Agreeing(b, n, c) ==
    /\ \A f \in Fields : ~Clash(b.data[f], n.data[f], c.data[f])
    /\ \A r \in Rows : ~Clash(b.kids[r], n.kids[r], c.kids[r])

LEMMA NotRefused ==
    ASSUME NEW b, NEW n, NEW c, ~Refused(b, n, c)
    PROVE  /\ Agreeing(b, n, c)
           /\ OneValue({b, n, c}) => ~Clash(Ids(b), Ids(n), Ids(c))
           /\ ~OrderClash(b, n, c)
  BY DEF Refused, Agreeing

\* The order that is followed: the one of the side that changed it.
Followed(b, n, c) == IF n.order = b.order THEN c.order ELSE n.order

LEMMA MergedFields ==
    ASSUME NEW b, NEW n, NEW c
    PROVE  /\ mergeNodeShape(b, n, c).data
                 = [f \in Fields |-> Changed(b.data[f], n.data[f], c.data[f])]
           /\ mergeNodeShape(b, n, c).kids = MergedKids(b, n, c)
           /\ mergeNodeShape(b, n, c).order = MergedOrder(b, n, c)
           /\ mergeNodeShape(b, n, c).updated =
                 IF n.updated = b.updated THEN c.updated ELSE Latest(c.updated, n.updated)
  BY DEF mergeNodeShape

\* What the two parts of the merged order are, and that no row is left out: a row that
\* is kept and not in the order that is followed is one the other side has.
LEMMA MergedOrderParts ==
    ASSUME NEW t, NEW b \in Shapes(t), NEW n \in Shapes(t), NEW c \in Shapes(t),
           Agreeing(b, n, c),
           NEW kept, kept = Kept(MergedKids(b, n, c)),
           NEW rest, rest = kept \ ToSet(Followed(b, n, c))
    PROVE  /\ Followed(b, n, c) \in Seq(Rows) /\ IsInjective(Followed(b, n, c))
           /\ c.order \in Seq(Rows) /\ IsInjective(c.order)
           /\ MergedOrder(b, n, c) = Filtered(Followed(b, n, c), kept) \o Filtered(c.order, rest)
           /\ rest \subseteq ToSet(c.order)
<1>1. /\ b.order \in Seq(Rows) /\ n.order \in Seq(Rows) /\ c.order \in Seq(Rows)
      /\ IsInjective(n.order) /\ IsInjective(c.order)
  BY ShapeFields
<1>2. ToSet(b.order) = Kept(b.kids) /\ ToSet(n.order) = Kept(n.kids) /\ ToSet(c.order) = Kept(c.kids)
  BY ShapeFields
<1>3. MergedOrder(b, n, c) = Filtered(Followed(b, n, c), kept) \o Filtered(c.order, rest)
  BY DEF MergedOrder, Followed, Among
<1>4. ASSUME NEW r \in rest PROVE r \in ToSet(c.order)
  <2>1. r \in Rows /\ MergedKids(b, n, c)[r] # Absent /\ r \notin ToSet(Followed(b, n, c))
    BY DEF Kept
  <2>2. MergedKids(b, n, c)[r] = Changed(b.kids[r], n.kids[r], c.kids[r])
    BY <2>1 DEF MergedKids
  <2>3. ~Clash(b.kids[r], n.kids[r], c.kids[r])
    BY <2>1 DEF Agreeing
  <2>4. CASE n.order = b.order
    <3>1. b.kids[r] # Absent <=> n.kids[r] # Absent
      BY <1>2, <2>1, <2>4 DEF Kept
    <3>2. c.kids[r] # Absent
      BY <2>1, <2>2, <2>3, <3>1 DEF Clash, Changed
    <3> QED
      BY <1>2, <2>1, <3>2 DEF Kept
  <2>5. CASE n.order # b.order
    <3>1. n.kids[r] = Absent
      BY <1>2, <2>1, <2>5 DEF Kept, Followed
    <3>2. c.kids[r] # Absent
      BY <2>1, <2>2, <3>1 DEF Changed
    <3> QED
      BY <1>2, <2>1, <3>2 DEF Kept
  <2> QED
    BY <2>4, <2>5
<1> QED
  BY <1>1, <1>3, <1>4 DEF Followed

\* The merged order lists each row that is kept once.
LEMMA MergedOrderIs ==
    ASSUME NEW t, NEW b \in Shapes(t), NEW n \in Shapes(t), NEW c \in Shapes(t),
           Agreeing(b, n, c)
    PROVE  /\ MergedOrder(b, n, c) \in Seq(Rows)
           /\ ToSet(MergedOrder(b, n, c)) = Kept(MergedKids(b, n, c))
           /\ IsInjective(MergedOrder(b, n, c))
<1> DEFINE kept == Kept(MergedKids(b, n, c))
           order == Followed(b, n, c)
           rest == kept \ ToSet(order)
           first == Filtered(order, kept)
           last == Filtered(c.order, rest)
<1>1. /\ order \in Seq(Rows) /\ IsInjective(order)
      /\ c.order \in Seq(Rows) /\ IsInjective(c.order)
      /\ MergedOrder(b, n, c) = first \o last
      /\ rest \subseteq ToSet(c.order)
  BY MergedOrderParts
<1> HIDE DEF order
<1>2. first \in Seq(Rows) /\ ToSet(first) = ToSet(order) \cap kept /\ IsInjective(first)
  BY <1>1, FilteredSeq, FilteredInjective
<1>3. last \in Seq(Rows) /\ ToSet(last) = ToSet(c.order) \cap rest /\ IsInjective(last)
  BY <1>1, FilteredSeq, FilteredInjective
<1>9. first \in Seq(Rows) /\ last \in Seq(Rows)
  BY <1>2, <1>3
<1> HIDE DEF first, last
<1>4. /\ first \o last \in Seq(Rows)
      /\ ToSet(first \o last) = ToSet(first) \cup ToSet(last)
      /\ IsInjective(first \o last) <=>
            IsInjective(first) /\ IsInjective(last) /\ ToSet(first) \cap ToSet(last) = {}
  BY <1>9, ConcatElements
<1>5. ToSet(first) \cap ToSet(last) = {} /\ ToSet(first) \cup ToSet(last) = kept
  BY <1>1, <1>2, <1>3
<1> QED
  BY <1>1, <1>2, <1>3, <1>4, <1>5

\* Merging two shapes that do not clash gives a shape (mergeNodeShape).
THEOREM MergeIsShape ==
    ASSUME NEW t \in Nat, NEW b \in Shapes(t), NEW n \in Shapes(t), NEW c \in Shapes(t),
           Agreeing(b, n, c)
    PROVE  mergeNodeShape(b, n, c) \in Shapes(t)
<1> DEFINE data == mergeNodeShape(b, n, c).data
           kids == MergedKids(b, n, c)
           order == MergedOrder(b, n, c)
           updated == mergeNodeShape(b, n, c).updated
<1>1. mergeNodeShape(b, n, c) = [data |-> data, kids |-> kids, order |-> order, updated |-> updated]
  BY DEF mergeNodeShape
<1>2. data \in [Fields -> Values \cup {Absent}]
  <2>1. data = [f \in Fields |-> Changed(b.data[f], n.data[f], c.data[f])]
    BY DEF mergeNodeShape
  <2>2. n.data \in [Fields -> Values \cup {Absent}] /\ c.data \in [Fields -> Values \cup {Absent}]
    BY ShapeFields
  <2> QED
    BY <2>1, <2>2 DEF Changed
<1>3. kids \in [Rows -> Kinds \cup {Absent}]
  <2>1. kids = [r \in Rows |-> Changed(b.kids[r], n.kids[r], c.kids[r])]
    BY DEF MergedKids
  <2>2. n.kids \in [Rows -> Kinds \cup {Absent}] /\ c.kids \in [Rows -> Kinds \cup {Absent}]
    BY ShapeFields
  <2> QED
    BY <2>1, <2>2 DEF Changed
<1>4. updated \in 0 .. t
  <2>1. updated = IF n.updated = b.updated THEN c.updated ELSE Latest(c.updated, n.updated)
    BY DEF mergeNodeShape
  <2>2. n.updated \in 0 .. t /\ c.updated \in 0 .. t
    BY ShapeFields
  <2> QED
    BY <2>1, <2>2 DEF Latest
<1>5. order \in Seq(Rows) /\ IsInjective(order)
  BY MergedOrderIs
<1>6. ToSet(order) = Kept(kids)
  BY MergedOrderIs
<1> HIDE DEF data, kids, order, updated
<1>7. [data |-> data, kids |-> kids, order |-> order, updated |-> updated] \in Shapes(t)
  BY <1>2, <1>3, <1>4, <1>5, <1>6, MakeShape
<1> QED
  BY <1>1, <1>7

\* A change that is applied is there: it does not clash with the outcome, and changes
\* nothing when applied again.
LEMMA ChangedTwice ==
    ASSUME NEW b, NEW n, NEW c
    PROVE  /\ ~Clash(b, n, Changed(b, n, c))
           /\ Changed(b, n, Changed(b, n, c)) = Changed(b, n, c)
  BY DEF Clash, Changed

\* Fields and rows of the outcome.
LEMMA FieldsAgain ==
    ASSUME NEW b, NEW n, NEW c, NEW m, m = mergeNodeShape(b, n, c)
    PROVE  /\ Agreeing(b, n, m)
           /\ mergeNodeShape(b, n, m).data = m.data
           /\ MergedKids(b, n, m) = MergedKids(b, n, c)
<1>1. /\ m.data = [f \in Fields |-> Changed(b.data[f], n.data[f], c.data[f])]
      /\ m.kids = [r \in Rows |-> Changed(b.kids[r], n.kids[r], c.kids[r])]
  BY DEF mergeNodeShape, MergedKids
<1>2. Agreeing(b, n, m)
  BY <1>1, ChangedTwice DEF Agreeing
<1>3. mergeNodeShape(b, n, m).data = [f \in Fields |-> Changed(b.data[f], n.data[f], m.data[f])]
  BY DEF mergeNodeShape
<1>4. mergeNodeShape(b, n, m).data = m.data
  <2>1. [f \in Fields |-> Changed(b.data[f], n.data[f], m.data[f])]
          = [f \in Fields |-> Changed(b.data[f], n.data[f], c.data[f])]
    BY <1>1, ChangedTwice
  <2> QED
    BY <1>1, <1>3, <2>1
<1>5. MergedKids(b, n, m) = [r \in Rows |-> Changed(b.kids[r], n.kids[r], m.kids[r])]
  BY DEF MergedKids
<1>6. MergedKids(b, n, m) = MergedKids(b, n, c)
  <2>1. [r \in Rows |-> Changed(b.kids[r], n.kids[r], m.kids[r])]
          = [r \in Rows |-> Changed(b.kids[r], n.kids[r], c.kids[r])]
    BY <1>1, ChangedTwice
  <2> QED
    BY <1>5, <2>1 DEF MergedKids
<1> QED
  BY <1>2, <1>4, <1>6

\* A node that is one value: the outcome has the rows of the side that changed them.
LEMMA OneValueAgain ==
    ASSUME NEW b, NEW n, NEW c, ~Refused(b, n, c),
           NEW m, m = mergeNodeShape(b, n, c), OneValue({b, n, m})
    PROVE  ~Clash(Ids(b), Ids(n), Ids(m))
<1>1. \A r \in Rows : /\ m.kids[r] = Changed(b.kids[r], n.kids[r], c.kids[r])
                      /\ ~Clash(b.kids[r], n.kids[r], c.kids[r])
  BY NotRefused DEF mergeNodeShape, MergedKids, Agreeing
<1>2. /\ \A r \in Ids(c) : r \in Rows /\ (r \in Ids(m) \/ r \in Ids(b))
      /\ \A s \in {b, n, m} : Ids(s) \subseteq Literals
  BY <1>1 DEF Ids, Kept, Changed, OneValue
<1>3. OneValue({b, n, c}) /\ ~Clash(Ids(b), Ids(n), Ids(c))
  BY <1>2, NotRefused DEF OneValue
<1>4. CASE Ids(n) = Ids(b)
  BY <1>4 DEF Clash
<1>5. CASE Ids(c) = Ids(b)
  <2>1. \A r \in Rows : r \in Ids(m) <=> r \in Ids(n)
    BY <1>1, <1>5 DEF Ids, Kept, Changed
  <2>2. Ids(m) = Ids(n)
    BY <2>1 DEF Ids, Kept
  <2> QED
    BY <2>2 DEF Clash
<1>6. CASE Ids(c) = Ids(n)
  <2>1. \A r \in Rows : r \in Ids(m) <=> r \in Ids(n)
    BY <1>1, <1>6 DEF Ids, Kept, Changed
  <2>2. Ids(m) = Ids(n)
    BY <2>1 DEF Ids, Kept
  <2> QED
    BY <2>2 DEF Clash
<1> QED
  BY <1>3, <1>4, <1>5, <1>6 DEF Clash

\* When the order of n is followed: the outcome has the rows of n in the order of n, and
\* the others after them in the order of c.
LEMMA FollowedAgain ==
    ASSUME NEW t, NEW b \in Shapes(t), NEW n \in Shapes(t), NEW c \in Shapes(t),
           Agreeing(b, n, c), n.order # b.order,
           NEW kept, kept = Kept(MergedKids(b, n, c)),
           NEW order, order = MergedOrder(b, n, c)
    PROVE  /\ \A K : K \subseteq kept \cap Ids(n) => Filtered(order, K) = Filtered(n.order, K)
           /\ Filtered(order, kept \ Ids(n)) = Filtered(c.order, kept \ Ids(n))
<1> DEFINE rest == kept \ Ids(n)
           first == Filtered(n.order, kept)
           last == Filtered(c.order, rest)
<1>0. n.order \in Seq(Rows) /\ c.order \in Seq(Rows) /\ ToSet(n.order) = Ids(n)
  BY ShapeFields DEF Ids
<1>1. order = first \o last
  BY <1>0 DEF MergedOrder, Among
<1>2. /\ first \in Seq(Rows) /\ ToSet(first) = Ids(n) \cap kept
      /\ last \in Seq(Rows) /\ ToSet(last) \subseteq rest
  BY <1>0, FilteredSeq
<1>3. first \in Seq(Rows) /\ last \in Seq(Rows)
  BY <1>2
<1>4. \A K : Filtered(order, K) = Filtered(first, K) \o Filtered(last, K)
  <2> HIDE DEF first, last
  <2> QED
    BY <1>1, <1>3, FilteredConcat
<1>5. ASSUME NEW K, K \subseteq kept \cap Ids(n) PROVE Filtered(order, K) = Filtered(n.order, K)
  <2>1. Filtered(first, K) = Filtered(n.order, kept \cap K) /\ kept \cap K = K
    BY <1>0, <1>5, FilteredTwice
  <2>2. ToSet(last) \cap K = {}
    BY <1>2, <1>5
  <2>3. Filtered(last, K) = <<>>
    <3> HIDE DEF last
    <3> QED
      BY <1>3, <2>2, FilteredNone
  <2>4. Filtered(n.order, K) \in Seq(Rows)
    BY <1>0, FilteredSeq
  <2>5. Filtered(n.order, K) \o <<>> = Filtered(n.order, K)
    BY <2>4, ConcatEmptySeq
  <2> QED
    BY <1>4, <2>1, <2>3, <2>5
<1>6. Filtered(order, rest) = Filtered(c.order, rest)
  <2>1. Filtered(last, rest) = Filtered(c.order, rest \cap rest) /\ rest \cap rest = rest
    BY <1>0, FilteredTwice
  <2>2. ToSet(first) \cap rest = {}
    BY <1>2
  <2>3. Filtered(first, rest) = <<>>
    <3> HIDE DEF first
    <3> QED
      BY <1>3, <2>2, FilteredNone
  <2>4. <<>> \o last = last
    BY <1>3, ConcatEmptySeq
  <2> QED
    BY <1>4, <2>1, <2>3, <2>4
<1> QED
  BY <1>5, <1>6

\* The order of the outcome is kept, and does not clash with what made it.
LEMMA OrderAgain ==
    ASSUME NEW t \in Nat, NEW b \in Shapes(t), NEW n \in Shapes(t), NEW c \in Shapes(t),
           Agreeing(b, n, c),
           NEW m, m = mergeNodeShape(b, n, c)
    PROVE  /\ ~OrderClash(b, n, m)
           /\ MergedOrder(b, n, m) = m.order
<1> DEFINE kept == Kept(MergedKids(b, n, c))
           common == Common(b, n, m)
<1>1. m.order = MergedOrder(b, n, c) /\ MergedKids(b, n, m) = MergedKids(b, n, c)
  <2>1. m.order = MergedOrder(b, n, c)
    BY DEF mergeNodeShape
  <2> QED
    BY <2>1, FieldsAgain
<1>2. m.order \in Seq(Rows) /\ ToSet(m.order) = kept
  BY <1>1, MergedOrderIs
<1>3. common \subseteq kept \cap Ids(n)
  BY <1>1 DEF Common
<1>4. CASE n.order = b.order
  <2>1. ~OrderClash(b, n, m)
    BY <1>4 DEF OrderClash, Clash, Among
  <2>2. MergedOrder(b, n, m) = Filtered(m.order, kept) \o Filtered(m.order, kept \ ToSet(m.order))
    BY <1>1, <1>4 DEF MergedOrder, Among
  <2>3. Filtered(m.order, kept) = m.order /\ Filtered(m.order, kept \ ToSet(m.order)) = <<>>
    BY <1>2, FilteredAll, FilteredNone
  <2>4. m.order \o <<>> = m.order
    BY <1>2, ConcatEmptySeq
  <2> QED
    BY <2>1, <2>2, <2>3, <2>4
<1>5. CASE n.order # b.order
  <2>1. /\ \A K : K \subseteq kept \cap Ids(n) => Filtered(m.order, K) = Filtered(n.order, K)
        /\ Filtered(m.order, kept \ Ids(n)) = Filtered(c.order, kept \ Ids(n))
    BY <1>1, <1>5, FollowedAgain
  <2>2. ~OrderClash(b, n, m)
    BY <1>3, <2>1 DEF OrderClash, Clash, Among
  <2>3. ToSet(n.order) = Ids(n)
    BY ShapeFields DEF Ids
  <2>4. MergedOrder(b, n, m) = Filtered(n.order, kept) \o Filtered(m.order, kept \ Ids(n))
    BY <1>1, <1>5, <2>3 DEF MergedOrder, Among
  <2>5. MergedOrder(b, n, c) = Filtered(n.order, kept) \o Filtered(c.order, kept \ Ids(n))
    BY <1>5, <2>3 DEF MergedOrder, Among
  <2> QED
    BY <1>1, <2>1, <2>2, <2>4, <2>5
<1> QED
  BY <1>4, <1>5

\* A change that is sent again to what came of it is not refused and changes nothing.
THEOREM MergedAgain ==
    ASSUME NEW t \in Nat, NEW b \in Shapes(t), NEW n \in Shapes(t), NEW c \in Shapes(t),
           ~Refused(b, n, c),
           NEW m, m = mergeNodeShape(b, n, c)
    PROVE  ~Refused(b, n, m) /\ mergeNodeShape(b, n, m) = m
<1>1. Agreeing(b, n, c)
  BY NotRefused
<1>2. Agreeing(b, n, m) /\ mergeNodeShape(b, n, m).data = m.data /\ MergedKids(b, n, m) = m.kids
  <2>1. m.kids = MergedKids(b, n, c)
    BY DEF mergeNodeShape
  <2> QED
    BY <2>1, FieldsAgain
<1>3. ~OrderClash(b, n, m) /\ MergedOrder(b, n, m) = m.order
  BY <1>1, OrderAgain
<1>4. ~Refused(b, n, m)
  BY <1>2, <1>3, OneValueAgain DEF Refused, Agreeing
<1>5. mergeNodeShape(b, n, m).updated = m.updated
  <2>1. n.updated \in Int /\ c.updated \in Int
    BY ShapeFields
  <2>2. m.updated = IF n.updated = b.updated THEN c.updated ELSE Latest(c.updated, n.updated)
    BY DEF mergeNodeShape
  <2>3. mergeNodeShape(b, n, m).updated = IF n.updated = b.updated THEN m.updated ELSE Latest(m.updated, n.updated)
    BY DEF mergeNodeShape
  <2> QED
    BY <2>1, <2>2, <2>3 DEF Latest
<1>6. m = [data |-> m.data, kids |-> m.kids, order |-> m.order, updated |-> m.updated]
  BY DEF mergeNodeShape
<1>7. mergeNodeShape(b, n, m)
        = [data |-> mergeNodeShape(b, n, m).data, kids |-> MergedKids(b, n, m),
           order |-> MergedOrder(b, n, m), updated |-> mergeNodeShape(b, n, m).updated]
  BY DEF mergeNodeShape
<1> QED
  BY <1>2, <1>3, <1>4, <1>5, <1>6, <1>7
=============================================================================
