--------------------------- MODULE SequenceLemmas ---------------------------
(***************************************************************************)
(* Facts about positions, sequences and the recursive FlattenSeq, for      *)
(* every sequence: what the proofs about texts, rules and walks rest on.   *)
(***************************************************************************)
EXTENDS SequencesExt, FiniteSetTheorems, WellFoundedInduction, TLAPS

(* A non-empty set of positions has a first one.                           *)
LEMMA FirstPosition ==
    ASSUME NEW S, S \subseteq Nat, S # {}
    PROVE  \E i \in S : \A j \in S : i <= j
<1> DEFINE lt == OpToRel(<, Nat)
<1>1. IsWellFoundedOn(lt, Nat)
  BY NatLessThanWellFounded
<1>2. PICK i \in S : \A j \in S : ~ (<<j, i>> \in lt)
  <2> HIDE DEF lt
  <2>1. QED  BY <1>1, WFMin
<1>3. \A j \in S : i <= j
  <2>1. SUFFICES ASSUME NEW j \in S, j < i PROVE FALSE
    OBVIOUS
  <2>2. <<j, i>> \in lt
    BY <2>1 DEF OpToRel
  <2>3. QED  BY <1>2, <2>2
<1>4. QED  BY <1>3

(* What holds of 0 and of the successor of what it holds of.               *)
LEMMA Induction ==
    ASSUME NEW S, 0 \in S, \A n \in Nat : n \in S => n + 1 \in S
    PROVE  Nat \subseteq S
<1> SUFFICES ASSUME Nat \ S # {} PROVE FALSE
  OBVIOUS
<1>1. PICK i \in Nat \ S : \A j \in Nat \ S : i <= j
  BY FirstPosition
<1>2. i - 1 \in Nat /\ i - 1 \in S
  BY <1>1
<1>3. QED  BY <1>1, <1>2

-----------------------------------------------------------------------------
(* FlattenSeq.                                                             *)

(* What its recursion defines exists.                                      *)
Joins(f, s, n) ==
    f = [i \in 1..n |-> IF i = 1 THEN s[i] ELSE f[i-1] \o s[i]]

LEMMA JoinsPointwise ==
    ASSUME NEW s, NEW n, NEW f, Joins(f, s, n)
    PROVE  \A i \in 1..n : f[i] = IF i = 1 THEN s[i] ELSE f[i-1] \o s[i]
<1> DEFINE r == [i \in 1..n |-> IF i = 1 THEN s[i] ELSE f[i-1] \o s[i]]
<1> SUFFICES ASSUME NEW i \in 1..n PROVE f[i] = IF i = 1 THEN s[i] ELSE f[i-1] \o s[i]
  OBVIOUS
<1>1. r[i] = IF i = 1 THEN s[i] ELSE f[i-1] \o s[i]
  OBVIOUS
<1>2. f = r
  BY DEF Joins
<1>3. f[i] = r[i]
  <2> HIDE DEF r
  <2>1. QED  BY <1>2, Zenon
<1>4. QED
  <2> HIDE DEF r
  <2>1. QED  BY <1>1, <1>3, Zenon

LEMMA FlattenRecursion ==
    ASSUME NEW s, NEW n \in Nat
    PROVE  \E f : Joins(f, s, n)
<1> DEFINE T == {m \in Nat : \E f : Joins(f, s, m)}
<1>1. 0 \in T
  <2>1. Joins([i \in 1..0 |-> s[i]], s, 0)
    BY DEF Joins
  <2>2. QED  BY <2>1
<1>2. ASSUME NEW m \in Nat, m \in T PROVE m + 1 \in T
  <2>1. PICK f : Joins(f, s, m)
    BY <1>2
  <2> DEFINE g == [i \in 1..(m + 1) |->
                      IF i = 1 THEN s[i] ELSE f[i-1] \o s[i]]
             r == [i \in 1..(m + 1) |->
                      IF i = 1 THEN s[i] ELSE g[i-1] \o s[i]]
  <2>2. ASSUME NEW i \in 1..m PROVE g[i] = f[i]
    <3>1. f[i] = IF i = 1 THEN s[i] ELSE f[i-1] \o s[i]
      BY <2>1, JoinsPointwise
    <3>2. g[i] = IF i = 1 THEN s[i] ELSE f[i-1] \o s[i]
      OBVIOUS
    <3> HIDE DEF g
    <3>3. QED  BY <3>1, <3>2, Zenon
  <2>3. ASSUME NEW i \in 1..(m + 1) PROVE g[i] = r[i]
    <3>1. i # 1 => i - 1 \in 1..m
      OBVIOUS
    <3>2. i # 1 => g[i-1] = f[i-1]
      <4> HIDE DEF g
      <4>1. QED  BY <2>2, <3>1
    <3>3. /\ g[i] = IF i = 1 THEN s[i] ELSE f[i-1] \o s[i]
          /\ r[i] = IF i = 1 THEN s[i] ELSE g[i-1] \o s[i]
      OBVIOUS
    <3> HIDE DEF g, r
    <3>4. QED  BY <3>2, <3>3
  <2>4. g = r
    BY <2>3
  <2>5. Joins(g, s, m + 1)
    BY <2>4 DEF Joins
  <2>6. QED  BY <2>5
<1>3. Nat \subseteq T
  <2> HIDE DEF T
  <2>1. QED  BY <1>1, <1>2, Induction
<1>4. QED  BY <1>3

(* The defining equations, with what is joined after each element.         *)
LEMMA Flattening ==
    ASSUME NEW A, NEW s \in Seq(Seq(A))
    PROVE  \E f \in [0..Len(s) -> Seq(A)] :
              /\ f[0] = <<>>
              /\ \A i \in 1..Len(s) : f[i] = f[i-1] \o s[i]
              /\ f[Len(s)] = FlattenSeq(s)
<1>1. Len(s) \in Nat /\ \A i \in 1..Len(s) : s[i] \in Seq(A)
  OBVIOUS
<1>2. CASE Len(s) = 0
  <2>1. FlattenSeq(s) = <<>>
    BY <1>2 DEF FlattenSeq
  <2> DEFINE f == [i \in 0..Len(s) |-> <<>>]
  <2>2. f \in [0..Len(s) -> Seq(A)] /\ f[0] = <<>>
    BY <1>2
  <2> HIDE DEF f
  <2>3. f[Len(s)] = FlattenSeq(s) /\ 1..Len(s) = {}
    BY <1>2, <2>1, <2>2
  <2>4. QED  BY <2>2, <2>3
<1>3. CASE Len(s) # 0
  <2> DEFINE h == CHOOSE g : Joins(g, s, Len(s))
  <2>1. Joins(h, s, Len(s))
    <3>1. \E g : Joins(g, s, Len(s))
      BY <1>1, FlattenRecursion
    <3>2. QED  BY <3>1
  <2>2. FlattenSeq(s) = h[Len(s)]
    BY <1>3 DEF FlattenSeq, Joins
  <2> DEFINE f == [i \in 0..Len(s) |-> IF i = 0 THEN <<>> ELSE h[i]]
             T == {n \in Nat : n <= Len(s) => f[n] \in Seq(A)}
  <2> HIDE DEF h
  <2>3. /\ f[0] = <<>> /\ f[Len(s)] = FlattenSeq(s)
        /\ f[1] = s[1]
        /\ \A i \in 1..Len(s) : i # 1 => f[i] = f[i-1] \o s[i]
    <3>1. \A i \in 1..Len(s) : h[i] = IF i = 1 THEN s[i] ELSE h[i-1] \o s[i]
      BY <2>1, JoinsPointwise, SMTT(20)
    <3>2. /\ f[0] = <<>>
          /\ \A i \in 1..Len(s) : f[i] = h[i]
      OBVIOUS
    <3>3. \A i \in 1..Len(s) : i # 1 => f[i-1] = h[i-1]
      <4> HIDE DEF f
      <4>1. \A i \in 1..Len(s) : i # 1 => i - 1 \in 1..Len(s)
        BY <1>1
      <4>2. QED  BY <3>2, <4>1
    <3> HIDE DEF f
    <3>4. 1 \in 1..Len(s) /\ Len(s) \in 1..Len(s)
      BY <1>1, <1>3
    <3>5. QED  BY <2>2, <3>1, <3>2, <3>3, <3>4
  <2>4. 0 \in T
    OBVIOUS
  <2>5. ASSUME NEW n \in Nat, n \in T PROVE n + 1 \in T
    <3>1. SUFFICES ASSUME n + 1 <= Len(s) PROVE f[n + 1] \in Seq(A)
      OBVIOUS
    <3> HIDE DEF f
    <3>2. CASE n = 0
      BY <1>1, <2>3, <3>1, <3>2
    <3>3. CASE n # 0
      <4>1. f[n] \in Seq(A) /\ s[n + 1] \in Seq(A)
        BY <1>1, <2>5, <3>1
      <4>2. n + 1 \in 1..Len(s) /\ n + 1 # 1 /\ (n + 1) - 1 = n
        BY <1>1, <3>1, <3>3
      <4>3. f[n + 1] = f[n] \o s[n + 1]
        BY <2>3, <4>2
      <4>4. QED  BY <4>1, <4>3
    <3>4. QED  BY <3>2, <3>3
  <2>6. Nat \subseteq T
    <3> HIDE DEF T
    <3>1. QED  BY <2>4, <2>5, Induction
  <2>7. f \in [0..Len(s) -> Seq(A)]
    <3>1. \A n \in 0..Len(s) : f[n] \in Seq(A)
      <4> HIDE DEF f
      <4>1. \A n \in Nat : n \in T
        BY <2>6
      <4>2. QED  BY <1>1, <4>1
    <3>2. f = [i \in 0..Len(s) |-> f[i]]
      OBVIOUS
    <3> HIDE DEF f, T
    <3>3. QED  BY <3>1, <3>2
  <2>8. \A i \in 1..Len(s) : f[i] = f[i-1] \o s[i]
    <3>1. <<>> \o s[1] = s[1]
      BY <1>1, <1>3
    <3> HIDE DEF f, T
    <3>2. f[1 - 1] = <<>>
      BY <2>3
    <3>3. QED  BY <2>3, <3>1, <3>2
  <2> HIDE DEF f, T
  <2>9. QED  BY <2>3, <2>7, <2>8
<1>4. QED  BY <1>2, <1>3

(* Induction up to a bound.                                                *)
LEMMA InductionUpTo ==
    ASSUME NEW m \in Nat, NEW S, 0 \in S, \A n \in 0..(m - 1) : n \in S => n + 1 \in S
    PROVE  0..m \subseteq S
<1> DEFINE T == {n \in Nat : n <= m => n \in S}
<1>1. 0 \in T
  OBVIOUS
<1>2. ASSUME NEW n \in Nat, n \in T PROVE n + 1 \in T
  BY <1>2
<1>3. Nat \subseteq T
  <2> HIDE DEF T
  <2>1. QED  BY <1>1, <1>2, Induction
<1>4. QED  BY <1>3

LEMMA FlattenType ==
    ASSUME NEW A, NEW s \in Seq(Seq(A))
    PROVE  FlattenSeq(s) \in Seq(A)
<1>1. PICK f \in [0..Len(s) -> Seq(A)] : f[Len(s)] = FlattenSeq(s)
  BY Flattening
<1>2. Len(s) \in 0..Len(s)
  OBVIOUS
<1>3. f[Len(s)] \in Seq(A)
  BY <1>2
<1>4. QED  BY <1>1, <1>3

(* A sequence of one-element sequences.                                    *)
LEMMA FlattenSingles ==
    ASSUME NEW A, NEW t \in Seq(A)
    PROVE  FlattenSeq([i \in DOMAIN t |-> <<t[i]>>]) = t
<1> DEFINE s == [i \in DOMAIN t |-> <<t[i]>>]
<1>0. /\ Len(t) \in Nat /\ DOMAIN t = 1..Len(t)
      /\ \A i \in 1..Len(t) : t[i] \in A
  OBVIOUS
<1>1. s \in Seq(Seq(A)) /\ Len(s) = Len(t)
  <2>1. \A x \in A : <<x>> \in Seq(A)
    OBVIOUS
  <2>2. s \in [1..Len(t) -> Seq(A)]
    BY <1>0, <2>1
  <2> HIDE DEF s
  <2>3. QED  BY <1>0, <2>2
<1>2. \A i \in 1..Len(t) : s[i] = <<t[i]>> /\ t[i] \in A
  BY <1>0
<1> HIDE DEF s
<1>3. PICK f \in [0..Len(t) -> Seq(A)] :
          /\ f[0] = <<>>
          /\ \A i \in 1..Len(t) : f[i] = f[i-1] \o s[i]
          /\ f[Len(t)] = FlattenSeq(s)
  BY <1>1, Flattening, ZenonT(25)
<1> DEFINE T == {n \in Nat : /\ Len(f[n]) = n
                             /\ \A j \in 1..n : f[n][j] = t[j]}
<1>4. 0 \in T
  BY <1>3
<1>5. ASSUME NEW n \in 0..(Len(t) - 1), n \in T PROVE n + 1 \in T
  <2>1. /\ n \in Nat /\ n + 1 \in Nat /\ n \in 0..Len(t)
        /\ n + 1 \in 1..Len(t) /\ (n + 1) - 1 = n
    BY <1>0
  <2>2. f[n + 1] = f[n] \o <<t[n + 1]>>
    BY <1>2, <1>3, <2>1
  <2>3. f[n] \in Seq(A) /\ Len(f[n]) = n /\ \A j \in 1..n : f[n][j] = t[j]
    BY <1>3, <1>5, <2>1
  <2>4. Len(f[n + 1]) = n + 1
    BY <1>0, <2>1, <2>2, <2>3
  <2>5. ASSUME NEW j \in 1..(n + 1) PROVE f[n + 1][j] = t[j]
    <3>1. CASE j \in 1..n
      BY <1>0, <2>1, <2>2, <2>3, <3>1
    <3>2. CASE j = n + 1
      BY <1>0, <2>1, <2>2, <2>3, <3>2
    <3>3. QED  BY <2>1, <3>1, <3>2
  <2>6. QED  BY <2>1, <2>4, <2>5
<1>6. 0..Len(t) \subseteq T
  <2> HIDE DEF T
  <2>1. QED  BY <1>0, <1>4, <1>5, InductionUpTo
<1>7. Len(t) \in 0..Len(t)
  BY <1>0
<1>8. /\ f[Len(t)] \in Seq(A) /\ Len(f[Len(t)]) = Len(t)
      /\ \A j \in 1..Len(t) : f[Len(t)][j] = t[j]
  BY <1>3, <1>6, <1>7
<1>9. f[Len(t)] = t
  BY <1>0, <1>8
<1>10. QED  BY <1>3, <1>9 DEF s

(* t has something at k, where s and all that follows in it are empty.     *)
Fills(t, s, k) ==
    /\ k \in 1..Len(s) /\ Len(t) = Len(s)
    /\ \A i \in k..Len(s) : s[i] = <<>>
    /\ \A i \in 1..Len(s) : i # k => t[i] = s[i]

LEMMA FlattenFilled ==
    ASSUME NEW A, NEW s \in Seq(Seq(A)), NEW t \in Seq(Seq(A)),
           NEW k, Fills(t, s, k)
    PROVE  FlattenSeq(t) = FlattenSeq(s) \o t[k]
<1>1. PICK m : m = Len(s)
  OBVIOUS
<1>2. /\ m \in Nat /\ k \in Nat /\ 1 <= k /\ k <= m /\ k \in 1..m
      /\ m = Len(t)
  BY <1>1 DEF Fills
<1>3. /\ \A i \in k..m : s[i] = <<>>
      /\ \A i \in 1..m : i # k => t[i] = s[i]
      /\ t[k] \in Seq(A)
  BY <1>1, <1>2 DEF Fills
<1>4. PICK f \in [0..m -> Seq(A)] :
          /\ f[0] = <<>>
          /\ \A i \in 1..m : f[i] = f[i-1] \o s[i]
          /\ f[m] = FlattenSeq(s)
  BY <1>1, Flattening
<1>5. PICK g \in [0..m -> Seq(A)] :
          /\ g[0] = <<>>
          /\ \A i \in 1..m : g[i] = g[i-1] \o t[i]
          /\ g[m] = FlattenSeq(t)
  <2>1. m = Len(t)
    BY <1>2
  <2>2. PICK g \in [0..Len(t) -> Seq(A)] :
            /\ g[0] = <<>>
            /\ \A i \in 1..Len(t) : g[i] = g[i-1] \o t[i]
            /\ g[Len(t)] = FlattenSeq(t)
    BY Flattening
  <2>3. QED  BY <2>1, <2>2, Zenon
<1> DEFINE T == {n \in Nat : /\ n < k => g[n] = f[n]
                             /\ ~ (n < k) => g[n] = f[n] \o t[k]}
<1>6. 0 \in T
  BY <1>2, <1>4, <1>5
<1>7. ASSUME NEW n \in 0..(m - 1), n \in T PROVE n + 1 \in T
  <2>1. /\ n \in Nat /\ n + 1 \in Nat
        /\ n + 1 \in 1..m /\ n \in 0..m /\ (n + 1) - 1 = n
    BY <1>2
  <2>2. f[n + 1] = f[n] \o s[n + 1] /\ g[n + 1] = g[n] \o t[n + 1]
    BY <1>4, <1>5, <2>1
  <2>3. f[n] \in Seq(A) /\ g[n] \in Seq(A)
    BY <1>4, <1>5, <2>1
  <2>4. /\ n < k => g[n] = f[n]
        /\ ~ (n < k) => g[n] = f[n] \o t[k]
    BY <1>7
  <2>5. CASE n + 1 < k
    <3>1. n < k /\ t[n + 1] = s[n + 1]
      BY <1>2, <1>3, <2>1, <2>5
    <3>2. g[n + 1] = f[n + 1]
      BY <2>2, <2>4, <3>1
    <3>3. QED  BY <2>1, <2>5, <3>2
  <2>6. CASE n + 1 = k
    <3>1. n < k /\ n + 1 \in k..m /\ ~ (n + 1 < k)
      BY <1>2, <2>1, <2>6
    <3>2. s[n + 1] = <<>> /\ t[n + 1] = t[k]
      BY <1>3, <2>6, <3>1
    <3>3. f[n + 1] = f[n] /\ g[n] = f[n]
      BY <2>2, <2>3, <2>4, <3>1, <3>2
    <3>4. g[n + 1] = f[n + 1] \o t[k]
      BY <2>2, <3>2, <3>3
    <3>5. QED  BY <2>1, <3>1, <3>4
  <2>7. CASE n + 1 > k
    <3>1. ~ (n < k) /\ n + 1 \in k..m /\ n + 1 # k /\ ~ (n + 1 < k)
      BY <1>2, <2>1, <2>7
    <3>2. s[n + 1] = <<>> /\ t[n + 1] = <<>>
      BY <1>3, <2>1, <3>1
    <3>3. f[n + 1] = f[n] /\ g[n + 1] = g[n]
      BY <2>2, <2>3, <3>2
    <3>4. QED  BY <2>1, <2>4, <3>1, <3>3
  <2>8. n + 1 < k \/ n + 1 = k \/ n + 1 > k
    <3>1. \A i, j \in Nat : i < j \/ i = j \/ i > j
      OBVIOUS
    <3>2. QED  BY <1>2, <2>1, <3>1, Zenon
  <2>9. QED  BY <2>5, <2>6, <2>7, <2>8, Zenon
<1>8. 0..m \subseteq T
  <2> HIDE DEF T
  <2>1. QED  BY <1>2, <1>6, <1>7, InductionUpTo
<1>9. m \in T /\ ~ (m < k)
  <2>1. m \in 0..m /\ ~ (m < k)
    BY <1>2
  <2> HIDE DEF T
  <2>2. QED  BY <1>8, <2>1
<1>10. g[m] = f[m] \o t[k]
  BY <1>9
<1>11. QED  BY <1>4, <1>5, <1>10

LEMMA FlattenEmpties ==
    ASSUME NEW s \in Seq({<<>>})
    PROVE  FlattenSeq(s) = <<>>
<1>1. <<>> \in Seq({})
  OBVIOUS
<1>2. Len(s) \in Nat /\ s \in [1..Len(s) -> {<<>>}]
  OBVIOUS
<1>3. s \in [1..Len(s) -> Seq({})]
  BY <1>1, <1>2
<1>4. s \in Seq(Seq({}))
  BY <1>2, <1>3
<1>5. FlattenSeq(s) \in Seq({})
  BY <1>4, FlattenType
<1>6. \A t \in Seq({}) : t = <<>>
  OBVIOUS
<1>7. QED  BY <1>5, <1>6

-----------------------------------------------------------------------------
(* The elements of a sequence.                                             *)

LEMMA ElementsOfAppend ==
    ASSUME NEW A, NEW s \in Seq(A), NEW x \in A
    PROVE  /\ Append(s, x) \in Seq(A)
           /\ ToSet(Append(s, x)) = ToSet(s) \cup {x}
           /\ Len(Append(s, x)) = Len(s) + 1
           /\ Append(s, x)[Len(s) + 1] = x
           /\ \A i \in 1..Len(s) : Append(s, x)[i] = s[i]
<1> DEFINE b == Append(s, x)
<1>1. /\ b \in Seq(A) /\ Len(b) = Len(s) + 1 /\ b[Len(s) + 1] = x
      /\ \A i \in 1..Len(s) : b[i] = s[i]
      /\ Len(s) \in Nat /\ DOMAIN s = 1..Len(s) /\ DOMAIN b = 1..(Len(s) + 1)
  OBVIOUS
<1> HIDE DEF b
<1>2. ToSet(b) \subseteq ToSet(s) \cup {x}
  <2>1. \A i \in 1..(Len(s) + 1) : i \in 1..Len(s) \/ i = Len(s) + 1
    BY <1>1
  <2>2. QED  BY <1>1, <2>1 DEF ToSet
<1>3. ToSet(s) \cup {x} \subseteq ToSet(b)
  <2>1. Len(s) + 1 \in 1..(Len(s) + 1) /\ \A i \in 1..Len(s) : i \in 1..(Len(s) + 1)
    BY <1>1
  <2>2. QED  BY <1>1, <2>1 DEF ToSet
<1>4. ToSet(b) = ToSet(s) \cup {x}
  BY <1>2, <1>3
<1>5. QED  BY <1>1, <1>4 DEF b

LEMMA ElementsOfJoin ==
    ASSUME NEW A, NEW s \in Seq(A), NEW t \in Seq(A)
    PROVE  /\ s \o t \in Seq(A)
           /\ ToSet(s \o t) = ToSet(s) \cup ToSet(t)
           /\ IsInjective(s) /\ IsInjective(t) /\ ToSet(s) \cap ToSet(t) = {}
                  => IsInjective(s \o t)
<1> DEFINE b == s \o t
           L == Len(s)
<1>1. /\ b \in Seq(A) /\ L \in Nat /\ Len(t) \in Nat
      /\ DOMAIN s = 1..L /\ DOMAIN t = 1..Len(t) /\ DOMAIN b = 1..(L + Len(t))
      /\ \A i \in 1..L : b[i] = s[i]
      /\ \A i \in 1..Len(t) : b[L + i] = t[i]
  OBVIOUS
<1> HIDE DEF b, L
<1>2. \A i \in 1..(L + Len(t)) :
          \/ i \in 1..L /\ b[i] = s[i]
          \/ i > L /\ i - L \in 1..Len(t) /\ b[i] = t[i - L]
  <2>1. \A i \in 1..(L + Len(t)) : i \in 1..L \/ (i > L /\ i - L \in 1..Len(t)
                                                 /\ L + (i - L) = i)
    BY <1>1
  <2>2. QED  BY <1>1, <2>1
<1>3. /\ \A i \in 1..L : i \in 1..(L + Len(t))
      /\ \A i \in 1..Len(t) : L + i \in 1..(L + Len(t))
  BY <1>1
<1>4. ToSet(b) \subseteq ToSet(s) \cup ToSet(t)
  BY <1>1, <1>2 DEF ToSet
<1>5. ToSet(s) \cup ToSet(t) \subseteq ToSet(b)
  BY <1>1, <1>3 DEF ToSet
<1>6. ASSUME IsInjective(s), IsInjective(t), ToSet(s) \cap ToSet(t) = {}
      PROVE  IsInjective(b)
  <2>1. SUFFICES ASSUME NEW i \in 1..(L + Len(t)), NEW j \in 1..(L + Len(t)), b[i] = b[j]
                 PROVE  i = j
    BY <1>1 DEF IsInjective
  <2>2. \A k \in 1..L, m \in 1..Len(t) : s[k] # t[m]
    BY <1>1, <1>6 DEF ToSet
  <2>3. CASE i \in 1..L /\ j \in 1..L /\ b[i] = s[i] /\ b[j] = s[j]
    BY <1>1, <1>6, <2>1, <2>3 DEF IsInjective
  <2>4. CASE /\ i > L /\ i - L \in 1..Len(t) /\ b[i] = t[i - L]
             /\ j > L /\ j - L \in 1..Len(t) /\ b[j] = t[j - L]
    <3>1. i - L = j - L
      BY <1>1, <1>6, <2>1, <2>4 DEF IsInjective
    <3>2. QED  BY <1>1, <3>1
  <2>5. QED  BY <1>2, <2>1, <2>2, <2>3, <2>4
<1>7. ToSet(b) = ToSet(s) \cup ToSet(t)
  BY <1>4, <1>5
<1>8. QED  BY <1>1, <1>6, <1>7 DEF b

LEMMA ElementsOfRest ==
    ASSUME NEW A, NEW s \in Seq(A), s # <<>>
    PROVE  /\ Head(s) \in A /\ Tail(s) \in Seq(A)
           /\ Head(s) \in ToSet(s)
           /\ ToSet(s) = {Head(s)} \cup ToSet(Tail(s))
           /\ IsInjective(s) => IsInjective(Tail(s)) /\ Head(s) \notin ToSet(Tail(s))
<1> DEFINE t == Tail(s)
<1>1. /\ Len(s) \in Nat /\ Len(s) >= 1 /\ DOMAIN s = 1..Len(s)
      /\ Head(s) = s[1] /\ Head(s) \in A
      /\ t \in Seq(A) /\ DOMAIN t = 1..(Len(s) - 1)
      /\ \A i \in 1..(Len(s) - 1) : t[i] = s[i + 1]
  OBVIOUS
<1> HIDE DEF t
<1>2. /\ \A i \in 1..(Len(s) - 1) : i + 1 \in 1..Len(s) /\ i + 1 # 1
      /\ \A i \in 1..Len(s) : i = 1 \/ (i - 1 \in 1..(Len(s) - 1) /\ (i - 1) + 1 = i)
      /\ 1 \in 1..Len(s)
  BY <1>1
<1>3. ToSet(s) \subseteq {Head(s)} \cup ToSet(t)
  <2>1. SUFFICES ASSUME NEW i \in 1..Len(s) PROVE s[i] \in {s[1]} \cup ToSet(t)
    BY <1>1 DEF ToSet
  <2>2. CASE i = 1
    BY <2>2
  <2>3. CASE i # 1
    <3>1. i - 1 \in 1..(Len(s) - 1) /\ t[i - 1] = s[i]
      BY <1>1, <1>2, <2>3
    <3>2. QED  BY <1>1, <3>1 DEF ToSet
  <2>4. QED  BY <2>2, <2>3
<1>4. {Head(s)} \cup ToSet(t) \subseteq ToSet(s)
  <2>1. s[1] \in ToSet(s)
    BY <1>1, <1>2 DEF ToSet
  <2>2. ASSUME NEW x \in ToSet(t) PROVE x \in ToSet(s)
    <3>1. PICK i \in 1..(Len(s) - 1) : x = t[i]
      BY <1>1, <2>2 DEF ToSet
    <3>2. i + 1 \in 1..Len(s) /\ x = s[i + 1]
      BY <1>1, <1>2, <3>1
    <3>3. QED  BY <1>1, <3>2 DEF ToSet
  <2>3. QED  BY <1>1, <2>1, <2>2
<1>5. ASSUME IsInjective(s) PROVE IsInjective(t) /\ Head(s) \notin ToSet(t)
  <2>1. \A i, j \in 1..Len(s) : s[i] = s[j] => i = j
    BY <1>1, <1>5 DEF IsInjective
  <2>2. Head(s) \notin ToSet(t)
    BY <1>1, <1>2, <2>1 DEF ToSet
  <2>3. ASSUME NEW i \in 1..(Len(s) - 1), NEW j \in 1..(Len(s) - 1), t[i] = t[j]
        PROVE  i = j
    <3>1. i + 1 = j + 1
      BY <1>1, <1>2, <2>1, <2>3
    <3>2. QED  BY <3>1
  <2>4. QED  BY <1>1, <2>2, <2>3 DEF IsInjective
<1>6. ToSet(s) = {Head(s)} \cup ToSet(t)
  BY <1>3, <1>4
<1>7. QED  BY <1>1, <1>5, <1>6 DEF t

(* SetToSeq: the elements of a finite set, each once.                      *)
LEMMA ElementsOfSet ==
    ASSUME NEW S, IsFiniteSet(S)
    PROVE  /\ SetToSeq(S) \in Seq(S)
           /\ ToSet(SetToSeq(S)) = S
           /\ IsInjective(SetToSeq(S))
<1> DEFINE n == Cardinality(S)
           f == SetToSeq(S)
<1>1. n \in Nat /\ ExistsBijection(1..n, S)
  BY FS_CardinalityType
<1>2. PICK g \in Bijection(1..n, S) : TRUE
  BY <1>1 DEF ExistsBijection
<1>3. g \in [1..n -> S] /\ IsInjective(g)
  BY <1>2 DEF Bijection, Injection, IsInjective
<1>4. f \in [1..n -> S] /\ IsInjective(f)
  BY <1>3 DEF SetToSeq
<1> HIDE DEF f
<1>5. f \in Seq(S) /\ DOMAIN f = 1..n
  BY <1>1, <1>4
<1>6. f \in Injection(1..n, S)
  BY <1>4 DEF Injection, IsInjective
<1>7. IsFiniteSet(1..n) /\ Cardinality(1..n) = n
  <2>1. 1 \in Int /\ n \in Int
    BY <1>1
  <2>2. Cardinality(1..n) = IF 1 > n THEN 0 ELSE n - 1 + 1
    BY <2>1, FS_Interval
  <2>3. QED  BY <1>1, <2>1, <2>2, FS_Interval
<1>8. f \in Surjection(1..n, S)
  <2> HIDE DEF n
  <2>1. Cardinality(1..n) = Cardinality(S)
    BY <1>7 DEF n
  <2>2. QED  BY <1>6, <2>1, FS_Injection
<1>9. ToSet(f) = S
  BY <1>4, <1>5, <1>8 DEF ToSet, Surjection
<1>10. QED  BY <1>4, <1>5, <1>9 DEF f

-----------------------------------------------------------------------------
(* Prefixes.                                                               *)

LEMMA PrefixPointwise ==
    ASSUME NEW S, NEW s \in Seq(S), NEW t \in Seq(S)
    PROVE  IsPrefix(s, t) <=> /\ Len(s) <= Len(t)
                              /\ \A i \in 1..Len(s) : s[i] = t[i]
<1>1. ASSUME Len(s) <= Len(t) PROVE
      /\ SubSeq(s, 1, Len(s)) \in Seq(S) /\ Len(SubSeq(s, 1, Len(s))) = Len(s)
      /\ SubSeq(t, 1, Len(s)) \in Seq(S) /\ Len(SubSeq(t, 1, Len(s))) = Len(s)
      /\ \A i \in 1..Len(s) : SubSeq(s, 1, Len(s))[i] = s[i] /\ SubSeq(t, 1, Len(s))[i] = t[i]
  BY <1>1
<1>2. ASSUME IsPrefix(s, t), NEW i \in 1..Len(s) PROVE s[i] = t[i]
  BY <1>1, <1>2 DEF IsPrefix
<1>3. ASSUME Len(s) <= Len(t), \A i \in 1..Len(s) : s[i] = t[i] PROVE IsPrefix(s, t)
  <2> DEFINE a == SubSeq(s, 1, Len(s))
             b == SubSeq(t, 1, Len(s))
  <2>1. /\ a \in Seq(S) /\ b \in Seq(S) /\ Len(a) = Len(s) /\ Len(b) = Len(s)
        /\ \A i \in 1..Len(s) : a[i] = b[i]
    BY <1>1, <1>3
  <2> HIDE DEF a, b
  <2>2. a = b
    BY <2>1
  <2>3. QED  BY <1>3, <2>2 DEF IsPrefix, a, b
<1>4. QED  BY <1>2, <1>3 DEF IsPrefix

LEMMA FrontOfPath ==
    ASSUME NEW S, NEW s \in Seq(S), s # <<>>
    PROVE  /\ Front(s) \in Seq(S) /\ Len(s) \in Nat /\ Len(s) >= 1
           /\ Len(Front(s)) = Len(s) - 1
           /\ \A i \in 1..(Len(s) - 1) : Front(s)[i] = s[i]
<1>1. Len(s) \in Nat /\ Len(s) >= 1
  OBVIOUS
<1>2. \A n \in 0..Len(s) : /\ SubSeq(s, 1, n) \in Seq(S)
                           /\ Len(SubSeq(s, 1, n)) = n
                           /\ \A i \in 1..n : SubSeq(s, 1, n)[i] = s[i]
  <2>1. SUFFICES ASSUME NEW n \in 0..Len(s)
                 PROVE  /\ SubSeq(s, 1, n) \in Seq(S)
                        /\ Len(SubSeq(s, 1, n)) = n
                        /\ \A i \in 1..n : SubSeq(s, 1, n)[i] = s[i]
    OBVIOUS
  <2>2. n \in Nat /\ n <= Len(s)
    BY <1>1
  <2>3. QED  BY <2>2
<1>3. Len(s) - 1 \in 0..Len(s)
  BY <1>1
<1>4. QED  BY <1>1, <1>2, <1>3 DEF Front

(* A prefix of the path one up is a prefix of the path, and the path's     *)
(* other prefix is the path itself.                                        *)
LEMMA PrefixOfFront ==
    ASSUME NEW S, NEW s \in Seq(S), NEW b \in Seq(S), s # <<>>
    PROVE  IsPrefix(b, Front(s)) <=> IsPrefix(b, s) /\ s # b
<1> DEFINE f == Front(s)
<1>1. /\ f \in Seq(S) /\ Len(s) \in Nat /\ Len(b) \in Nat /\ Len(f) = Len(s) - 1
      /\ \A i \in 1..(Len(s) - 1) : f[i] = s[i]
  BY FrontOfPath
<1> HIDE DEF f
<1>2. /\ IsPrefix(b, s) <=> Len(b) <= Len(s) /\ \A i \in 1..Len(b) : b[i] = s[i]
      /\ IsPrefix(b, f) <=> Len(b) <= Len(f) /\ \A i \in 1..Len(b) : b[i] = f[i]
  BY <1>1, PrefixPointwise
<1>3. ASSUME IsPrefix(b, f) PROVE IsPrefix(b, s) /\ s # b
  BY <1>1, <1>2, <1>3
<1>4. ASSUME IsPrefix(b, s), s # b PROVE IsPrefix(b, f)
  <2>1. Len(b) # Len(s)
    BY <1>2, <1>4
  <2>2. Len(b) <= Len(s) - 1
    BY <1>1, <1>2, <1>4, <2>1
  <2>3. \A i \in 1..Len(b) : i \in 1..(Len(s) - 1)
    BY <1>1, <2>2
  <2>4. QED  BY <1>1, <1>2, <1>4, <2>2, <2>3
<1>5. QED  BY <1>3, <1>4 DEF f

(* One more element.                                                       *)
LEMMA AppendsTo ==
    ASSUME NEW S, NEW s \in Seq(S), NEW t \in Seq(S), NEW c \in S,
           Len(t) = Len(s) + 1, t[Len(t)] = c, \A i \in 1..Len(s) : t[i] = s[i]
    PROVE  Append(s, c) = t
<1>1. PICK u : u = Append(s, c)
  OBVIOUS
<1>2. /\ u \in Seq(S) /\ Len(s) \in Nat /\ Len(u) = Len(s) + 1 /\ u[Len(s) + 1] = c
      /\ \A i \in 1..Len(s) : u[i] = s[i]
  BY <1>1
<1>3. \A i \in 1..(Len(s) + 1) : i \in 1..Len(s) \/ i = Len(s) + 1
  BY <1>2
<1>4. \A i \in 1..Len(t) : u[i] = t[i]
  BY <1>2, <1>3
<1>5. u = t
  BY <1>2, <1>4
<1>6. QED  BY <1>1, <1>5

LEMMA AppendToPair ==
    ASSUME NEW a, NEW b, NEW c
    PROVE  Append(<<a, b>>, c) = <<a, b, c>>
<1>1. PICK S : S = {a, b, c}
  OBVIOUS
<1>2. PICK s : s = <<a, b>>
  OBVIOUS
<1>3. PICK t : t = <<a, b, c>>
  OBVIOUS
<1>4. /\ s \in Seq(S) /\ t \in Seq(S) /\ c \in S
      /\ Len(s) = 2 /\ Len(t) = 3 /\ t[3] = c
      /\ t[1] = s[1] /\ t[2] = s[2]
  BY <1>1, <1>2, <1>3
<1>5. \A i \in 1..2 : i = 1 \/ i = 2
  OBVIOUS
<1>6. Len(t) = Len(s) + 1 /\ t[Len(t)] = c /\ \A i \in 1..Len(s) : t[i] = s[i]
  BY <1>4, <1>5
<1>7. Append(s, c) = t
  BY <1>4, <1>6, AppendsTo, ZenonT(25)
<1>8. QED  BY <1>2, <1>3, <1>7

LEMMA AppendToTriple ==
    ASSUME NEW a, NEW b, NEW c, NEW d
    PROVE  Append(<<a, b, c>>, d) = <<a, b, c, d>>
<1>1. PICK S : S = {a, b, c, d}
  OBVIOUS
<1>2. PICK s : s = <<a, b, c>>
  OBVIOUS
<1>3. PICK t : t = <<a, b, c, d>>
  OBVIOUS
<1>4. /\ s \in Seq(S) /\ t \in Seq(S) /\ d \in S
      /\ Len(s) = 3 /\ Len(t) = 4 /\ t[4] = d
      /\ t[1] = s[1] /\ t[2] = s[2] /\ t[3] = s[3]
  BY <1>1, <1>2, <1>3
<1>5. \A i \in 1..3 : i = 1 \/ i = 2 \/ i = 3
  OBVIOUS
<1>6. Len(t) = Len(s) + 1 /\ t[Len(t)] = d /\ \A i \in 1..Len(s) : t[i] = s[i]
  BY <1>4, <1>5
<1>7. Append(s, d) = t
  BY <1>4, <1>6, AppendsTo
<1>8. QED  BY <1>2, <1>3, <1>7

LEMMA FifthReplaced ==
    ASSUME NEW a, NEW b, NEW c, NEW d, NEW e, NEW x
    PROVE  [<<a, b, c, d, e>> EXCEPT ![5] = Append(@, x)] = <<a, b, c, d, Append(e, x)>>
OBVIOUS

LEMMA AppendToQuadruple ==
    ASSUME NEW a, NEW b, NEW c, NEW d, NEW e
    PROVE  Append(<<a, b, c, d>>, e) = <<a, b, c, d, e>>
<1>1. PICK S : S = {a, b, c, d, e}
  OBVIOUS
<1>2. PICK s : s = <<a, b, c, d>>
  OBVIOUS
<1>3. PICK t : t = <<a, b, c, d, e>>
  OBVIOUS
<1>4. /\ s \in Seq(S) /\ t \in Seq(S) /\ e \in S
      /\ Len(s) = 4 /\ Len(t) = 5 /\ t[5] = e
      /\ t[1] = s[1] /\ t[2] = s[2] /\ t[3] = s[3] /\ t[4] = s[4]
  BY <1>1, <1>2, <1>3
<1>5. \A i \in 1..4 : i = 1 \/ i = 2 \/ i = 3 \/ i = 4
  OBVIOUS
<1>6. Len(t) = Len(s) + 1 /\ t[Len(t)] = e /\ \A i \in 1..Len(s) : t[i] = s[i]
  BY <1>4, <1>5
<1>7. Append(s, e) = t
  BY <1>4, <1>6, AppendsTo
<1>8. QED  BY <1>2, <1>3, <1>7
-----------------------------------------------------------------------------
(* Joining sequences.                                                      *)

LEMMA JoinType ==
    ASSUME NEW A, NEW s \in Seq(A), NEW t \in Seq(A)
    PROVE  /\ s \o t \in Seq(A) /\ Len(s \o t) = Len(s) + Len(t)
           /\ Len(s) \in Nat /\ Len(t) \in Nat
           /\ \A i \in 1..Len(s) : (s \o t)[i] = s[i]
           /\ \A i \in 1..Len(t) : (s \o t)[Len(s) + i] = t[i]
OBVIOUS

(* b is s followed by t.                                                   *)
IsJoin(b, s, t) ==
    /\ b = s \o t /\ Len(b) = Len(s) + Len(t)
    /\ \A i \in 1..Len(s) : b[i] = s[i]
    /\ \A i \in 1..Len(t) : b[Len(s) + i] = t[i]

LEMMA Joined ==
    ASSUME NEW A, NEW s \in Seq(A), NEW t \in Seq(A)
    PROVE  \E b \in Seq(A) : IsJoin(b, s, t)
<1> DEFINE b == s \o t
<1>1. b \in Seq(A) /\ IsJoin(b, s, t)
  BY JoinType DEF IsJoin
<1> HIDE DEF b
<1>2. QED  BY <1>1

LEMMA SamePointwise ==
    ASSUME NEW A, NEW s \in Seq(A), NEW t \in Seq(A), Len(s) = Len(t),
           \A i \in 1..Len(s) : s[i] = t[i]
    PROVE  s = t
OBVIOUS

LEMMA JoinEmpty ==
    ASSUME NEW A, NEW s \in Seq(A)
    PROVE  s \o <<>> = s /\ <<>> \o s = s
OBVIOUS

LEMMA ListedIsSeq ==
    ASSUME NEW A, NEW m \in Nat, NEW f \in [1..m -> A]
    PROVE  f \in Seq(A) /\ Len(f) = m /\ DOMAIN f = 1..m
OBVIOUS

Associates(s, t, u) == (s \o t) \o u = s \o (t \o u)

LEMMA JoinAssociates ==
    ASSUME NEW A, NEW s \in Seq(A), NEW t \in Seq(A), NEW u \in Seq(A)
    PROVE  Associates(s, t, u)
<1>1. (s \o t) \o u = s \o (t \o u)
  OBVIOUS
<1>2. QED  BY <1>1 DEF Associates

LEMMA FlattenOne ==
    ASSUME NEW A, NEW x \in Seq(A)
    PROVE  FlattenSeq(<<x>>) = x
<1> DEFINE s == <<x>>
<1>1. s \in Seq(Seq(A)) /\ Len(s) = 1 /\ s[1] = x
  OBVIOUS
<1> HIDE DEF s
<1>2. PICK f \in [0..Len(s) -> Seq(A)] :
          /\ f[0] = <<>>
          /\ \A i \in 1..Len(s) : f[i] = f[i-1] \o s[i]
          /\ f[Len(s)] = FlattenSeq(s)
  BY <1>1, Flattening
<1>3. f[1] = f[1-1] \o s[1] /\ f[1 - 1] = <<>>
  BY <1>1, <1>2
<1>4. f[1] = x
  BY <1>1, <1>3, JoinEmpty
<1>5. QED  BY <1>1, <1>2, <1>4 DEF s

(* Only one part has something in it.                                      *)
OnlyAt(r, k) == k \in 1..Len(r) /\ \A i \in 1..Len(r) : i # k => r[i] = <<>>

LEMMA FlattenAlone ==
    ASSUME NEW A, NEW r \in Seq(Seq(A)), NEW k, OnlyAt(r, k)
    PROVE  FlattenSeq(r) = r[k]
<1>0. PICK m \in Nat : m = Len(r) /\ DOMAIN r = 1..m
  OBVIOUS
<1> DEFINE e == [i \in 1..m |-> <<>>]
<1>1. /\ e \in [1..m -> {<<>>}] /\ e \in [1..m -> Seq(A)]
      /\ \A i \in 1..m : e[i] = <<>>
  <2>1. <<>> \in Seq(A)
    OBVIOUS
  <2>2. QED  BY <2>1
<1> HIDE DEF e
<1>2. e \in Seq({<<>>}) /\ e \in Seq(Seq(A)) /\ Len(e) = m
  BY <1>1, ListedIsSeq
<1>3. k \in 1..m /\ \A i \in k..m : i \in 1..m
  BY <1>0 DEF OnlyAt
<1>4. Fills(r, e, k)
  BY <1>0, <1>1, <1>2, <1>3 DEF Fills, OnlyAt
<1>5. FlattenSeq(r) = FlattenSeq(e) \o r[k]
  BY <1>2, <1>4, FlattenFilled
<1>6. FlattenSeq(e) = <<>>
  BY <1>2, FlattenEmpties
<1>7. PICK x \in Seq(A) : x = r[k]
  BY <1>0, <1>3
<1>8. <<>> \o x = x
  BY JoinEmpty
<1>9. QED  BY <1>5, <1>6, <1>7, <1>8

LEMMA FlattenJoin ==
    ASSUME NEW A, NEW s \in Seq(Seq(A)), NEW t \in Seq(Seq(A))
    PROVE  FlattenSeq(s \o t) = FlattenSeq(s) \o FlattenSeq(t)
<1>0. PICK l \in Nat, m \in Nat : l = Len(s) /\ m = Len(t)
  OBVIOUS
<1>1. PICK b \in Seq(Seq(A)) : /\ b = s \o t /\ Len(b) = l + m
                               /\ \A i \in 1..l : b[i] = s[i]
                               /\ \A i \in 1..m : b[l + i] = t[i]
  <2>1. PICK b \in Seq(Seq(A)) : IsJoin(b, s, t)
    BY Joined
  <2>2. QED  BY <1>0, <2>1 DEF IsJoin
<1>2. PICK f \in [0..l -> Seq(A)] :
          /\ f[0] = <<>>
          /\ \A i \in 1..l : f[i] = f[i-1] \o s[i]
          /\ f[l] = FlattenSeq(s)
  BY <1>0, Flattening
<1>3. PICK g \in [0..m -> Seq(A)] :
          /\ g[0] = <<>>
          /\ \A i \in 1..m : g[i] = g[i-1] \o t[i]
          /\ g[m] = FlattenSeq(t)
  BY <1>0, Flattening
<1>4. PICK h \in [0..(l + m) -> Seq(A)] :
          /\ h[0] = <<>>
          /\ \A i \in 1..(l + m) : h[i] = h[i-1] \o b[i]
          /\ h[l + m] = FlattenSeq(b)
  <2>1. PICK h \in [0..Len(b) -> Seq(A)] :
            /\ h[0] = <<>>
            /\ \A i \in 1..Len(b) : h[i] = h[i-1] \o b[i]
            /\ h[Len(b)] = FlattenSeq(b)
    BY Flattening
  <2>2. QED  BY <1>1, <2>1, Zenon
<1> DEFINE F == {n \in Nat : h[n] = f[n]}
           G == {n \in Nat : h[l + n] = f[l] \o g[n]}
<1>5. 0 \in F
  BY <1>2, <1>4
<1>6. ASSUME NEW n \in 0..(l - 1), n \in F PROVE n + 1 \in F
  <2>1. n + 1 \in 1..l /\ n + 1 \in 1..(l + m) /\ (n + 1) - 1 = n /\ n + 1 \in Nat
    BY <1>0
  <2>2. h[n + 1] = h[n] \o s[n + 1] /\ f[n + 1] = f[n] \o s[n + 1]
    BY <1>1, <1>2, <1>4, <2>1
  <2>3. h[n] = f[n]
    BY <1>6
  <2>4. QED  BY <2>1, <2>2, <2>3
<1>7. 0..l \subseteq F
  <2> HIDE DEF F
  <2>1. QED  BY <1>0, <1>5, <1>6, InductionUpTo
<1>8. h[l] = f[l] /\ f[l] \in Seq(A)
  <2>1. l \in 0..l
    BY <1>0
  <2>2. QED  BY <1>2, <1>7, <2>1
<1>9. 0 \in G
  <2>1. h[l + 0] = h[l] /\ f[l] \o <<>> = f[l]
    BY <1>0, <1>8, JoinEmpty
  <2>2. QED  BY <1>3, <1>8, <2>1
<1>10. ASSUME NEW n \in 0..(m - 1), n \in G PROVE n + 1 \in G
  <2>1. /\ n + 1 \in 1..m /\ (n + 1) - 1 = n /\ n + 1 \in Nat /\ n \in 0..m
        /\ l + (n + 1) \in 1..(l + m) /\ (l + (n + 1)) - 1 = l + n
    BY <1>0
  <2>2. h[l + (n + 1)] = h[l + n] \o t[n + 1] /\ g[n + 1] = g[n] \o t[n + 1]
    BY <1>1, <1>3, <1>4, <2>1
  <2>3. h[l + n] = f[l] \o g[n] /\ g[n] \in Seq(A) /\ t[n + 1] \in Seq(A)
    <3>1. h[l + n] = f[l] \o g[n]
      BY <1>10
    <3>2. g[n] \in Seq(A)
      BY <1>3, <2>1
    <3>3. t[n + 1] \in Seq(A)
      BY <1>0, <2>1
    <3>4. QED  BY <3>1, <3>2, <3>3
  <2>4. (f[l] \o g[n]) \o t[n + 1] = f[l] \o (g[n] \o t[n + 1])
    <3>1. PICK x \in Seq(A), y \in Seq(A), z \in Seq(A) : x = f[l] /\ y = g[n] /\ z = t[n + 1]
      BY <1>8, <2>3
    <3>2. Associates(x, y, z)
      BY JoinAssociates
    <3>3. QED  BY <3>1, <3>2 DEF Associates
  <2>5. QED  BY <2>1, <2>2, <2>3, <2>4
<1>11. 0..m \subseteq G
  <2> HIDE DEF G
  <2>1. QED  BY <1>0, <1>9, <1>10, InductionUpTo
<1>12. h[l + m] = f[l] \o g[m]
  <2>1. m \in 0..m
    BY <1>0
  <2>2. QED  BY <1>11, <2>1
<1>13. QED  BY <1>1, <1>2, <1>3, <1>4, <1>12

LEMMA ElementsOfFlatten ==
    ASSUME NEW A, NEW s \in Seq(Seq(A))
    PROVE  ToSet(FlattenSeq(s)) = UNION {ToSet(s[i]) : i \in DOMAIN s}
<1>0. PICK m \in Nat : m = Len(s) /\ DOMAIN s = 1..m
  OBVIOUS
<1>1. PICK f \in [0..m -> Seq(A)] :
          /\ f[0] = <<>>
          /\ \A i \in 1..m : f[i] = f[i-1] \o s[i]
          /\ f[m] = FlattenSeq(s)
  BY <1>0, Flattening
<1> DEFINE U(n) == UNION {ToSet(s[i]) : i \in 1..n}
           T == {n \in Nat : ToSet(f[n]) = U(n)}
<1>2. 0 \in T
  <2>1. ToSet(<<>>) = {} /\ 1..0 = {}
    BY DEF ToSet
  <2>2. QED  BY <1>1, <2>1
<1>3. ASSUME NEW n \in 0..(m - 1), n \in T PROVE n + 1 \in T
  <2>1. n + 1 \in 1..m /\ (n + 1) - 1 = n /\ n + 1 \in Nat /\ n \in 0..m
    BY <1>0
  <2>2. f[n + 1] = f[n] \o s[n + 1] /\ f[n] \in Seq(A) /\ s[n + 1] \in Seq(A)
    <3>1. f[n + 1] = f[n] \o s[n + 1] /\ f[n] \in Seq(A)
      BY <1>1, <2>1
    <3>2. s[n + 1] \in Seq(A)
      BY <1>0, <2>1
    <3>3. QED  BY <3>1, <3>2
  <2>3. ToSet(f[n + 1]) = U(n) \cup ToSet(s[n + 1])
    <3>1. PICK x \in Seq(A), y \in Seq(A) : x = f[n] /\ y = s[n + 1]
      BY <2>2
    <3>2. ToSet(x \o y) = ToSet(x) \cup ToSet(y)
      BY ElementsOfJoin
    <3>3. ToSet(x) = U(n)
      BY <1>3, <3>1
    <3>4. QED  BY <2>2, <3>1, <3>2, <3>3
  <2>4. 1..(n + 1) = (1..n) \cup {n + 1}
    BY <2>1
  <2>5. U(n + 1) = U(n) \cup ToSet(s[n + 1])
    BY <2>4
  <2>6. QED  BY <2>1, <2>3, <2>5
<1>4. 0..m \subseteq T
  <2> HIDE DEF T
  <2>1. QED  BY <1>0, <1>2, <1>3, InductionUpTo
<1>5. m \in T
  <2>1. m \in 0..m
    BY <1>0
  <2>2. QED  BY <1>4, <2>1
<1>6. QED  BY <1>0, <1>1, <1>5

-----------------------------------------------------------------------------
(* The elements of s that are in S, in order.                              *)

KeptParts(s, S) == [i \in DOMAIN s |-> IF s[i] \in S THEN <<s[i]>> ELSE <<>>]
Kept(s, S) == FlattenSeq(KeptParts(s, S))

ArePartsOf(k, s, S) ==
    /\ k = KeptParts(s, S) /\ Len(k) = Len(s) /\ DOMAIN k = 1..Len(s)
    /\ \A i \in 1..Len(s) : k[i] = IF s[i] \in S THEN <<s[i]>> ELSE <<>>

LEMMA KeptPartsType ==
    ASSUME NEW A, NEW s \in Seq(A), NEW S
    PROVE  \E k \in Seq(Seq(A)) : ArePartsOf(k, s, S)
<1> DEFINE k == KeptParts(s, S)
<1>1. /\ Len(s) \in Nat /\ DOMAIN s = 1..Len(s) /\ \A i \in 1..Len(s) : s[i] \in A
  OBVIOUS
<1>2. /\ \A i \in 1..Len(s) : k[i] = IF s[i] \in S THEN <<s[i]>> ELSE <<>>
      /\ k = [i \in 1..Len(s) |-> k[i]]
  BY <1>1 DEF KeptParts
<1>3. \A x \in A : <<x>> \in Seq(A)
  OBVIOUS
<1>4. <<>> \in Seq(A)
  OBVIOUS
<1> HIDE DEF k
<1>5. \A i \in 1..Len(s) : k[i] \in Seq(A)
  BY <1>1, <1>2, <1>3, <1>4
<1>6. k \in [1..Len(s) -> Seq(A)]
  BY <1>2, <1>5
<1>7. k \in Seq(Seq(A)) /\ Len(k) = Len(s) /\ DOMAIN k = 1..Len(s)
  BY <1>1, <1>6
<1>8. k = KeptParts(s, S)
  BY DEF k
<1>9. QED  BY <1>2, <1>7, <1>8 DEF ArePartsOf

LEMMA KeptElements ==
    ASSUME NEW A, NEW s \in Seq(A), NEW S
    PROVE  /\ Kept(s, S) \in Seq(A)
           /\ ToSet(Kept(s, S)) = ToSet(s) \cap S
<1>0. PICK k \in Seq(Seq(A)) : ArePartsOf(k, s, S)
  BY KeptPartsType
<1>1. /\ k = KeptParts(s, S) /\ DOMAIN k = 1..Len(s)
      /\ \A i \in 1..Len(s) : k[i] = IF s[i] \in S THEN <<s[i]>> ELSE <<>>
  BY <1>0 DEF ArePartsOf
<1>2. FlattenSeq(k) \in Seq(A) /\ ToSet(FlattenSeq(k)) = UNION {ToSet(k[i]) : i \in 1..Len(s)}
  BY <1>1, FlattenType, ElementsOfFlatten
<1>3. \A x : ToSet(<<x>>) = {x}
  BY DEF ToSet
<1>4. ToSet(<<>>) = {}
  BY DEF ToSet
<1>5. ToSet(s) = {s[i] : i \in 1..Len(s)}
  BY DEF ToSet
<1>6. \A i \in 1..Len(s) : ToSet(k[i]) = IF s[i] \in S THEN {s[i]} ELSE {}
  BY <1>1, <1>3, <1>4
<1>7. UNION {ToSet(k[i]) : i \in 1..Len(s)} = ToSet(s) \cap S
  BY <1>5, <1>6
<1>8. QED  BY <1>1, <1>2, <1>7 DEF Kept

LEMMA KeptAll ==
    ASSUME NEW A, NEW s \in Seq(A), NEW S, ToSet(s) \subseteq S
    PROVE  Kept(s, S) = s
<1>1. \A i \in DOMAIN s : s[i] \in S
  BY DEF ToSet
<1>2. KeptParts(s, S) = [i \in DOMAIN s |-> <<s[i]>>]
  BY <1>1 DEF KeptParts
<1>3. QED  BY <1>2, FlattenSingles DEF Kept

LEMMA KeptNone ==
    ASSUME NEW A, NEW s \in Seq(A), NEW S, ToSet(s) \cap S = {}
    PROVE  Kept(s, S) = <<>>
<1>1. Kept(s, S) \in Seq(A) /\ ToSet(Kept(s, S)) = {}
  BY KeptElements
<1>2. \A t \in Seq(A) : ToSet(t) = {} => t = <<>>
  <2>1. SUFFICES ASSUME NEW t \in Seq(A), ToSet(t) = {} PROVE t = <<>>
    OBVIOUS
  <2>2. t # <<>> => 1 \in DOMAIN t
    OBVIOUS
  <2>3. QED  BY <2>1, <2>2 DEF ToSet
<1>3. QED  BY <1>1, <1>2

KeepsJoin(s, t, S) == Kept(s \o t, S) = Kept(s, S) \o Kept(t, S)

LEMMA KeptJoin ==
    ASSUME NEW A, NEW s \in Seq(A), NEW t \in Seq(A), NEW S
    PROVE  KeepsJoin(s, t, S)
<1>0. PICK l \in Nat, m \in Nat : l = Len(s) /\ m = Len(t)
  OBVIOUS
<1>1. PICK b \in Seq(A) : /\ b = s \o t /\ Len(b) = l + m
                          /\ \A i \in 1..l : b[i] = s[i]
                          /\ \A i \in 1..m : b[l + i] = t[i]
  <2>1. PICK b \in Seq(A) : IsJoin(b, s, t)
    BY Joined
  <2>2. QED  BY <1>0, <2>1 DEF IsJoin
<1>2. PICK p \in Seq(Seq(A)) :
          /\ p = KeptParts(s, S) /\ Len(p) = l
          /\ \A i \in 1..l : p[i] = IF s[i] \in S THEN <<s[i]>> ELSE <<>>
  <2>1. PICK p \in Seq(Seq(A)) : ArePartsOf(p, s, S)
    BY KeptPartsType
  <2>2. QED  BY <1>0, <2>1 DEF ArePartsOf
<1>3. PICK q \in Seq(Seq(A)) :
          /\ q = KeptParts(t, S) /\ Len(q) = m
          /\ \A i \in 1..m : q[i] = IF t[i] \in S THEN <<t[i]>> ELSE <<>>
  <2>1. PICK q \in Seq(Seq(A)) : ArePartsOf(q, t, S)
    BY KeptPartsType
  <2>2. QED  BY <1>0, <2>1 DEF ArePartsOf
<1>4. PICK r \in Seq(Seq(A)) :
          /\ r = KeptParts(b, S) /\ Len(r) = l + m
          /\ \A i \in 1..(l + m) : r[i] = IF b[i] \in S THEN <<b[i]>> ELSE <<>>
  <2>1. PICK r \in Seq(Seq(A)) : ArePartsOf(r, b, S)
    BY KeptPartsType
  <2>2. QED  BY <1>1, <2>1 DEF ArePartsOf
<1>5. PICK c \in Seq(Seq(A)) : /\ c = p \o q /\ Len(c) = l + m
                               /\ \A i \in 1..l : c[i] = p[i]
                               /\ \A i \in 1..m : c[l + i] = q[i]
  <2>1. PICK c \in Seq(Seq(A)) : IsJoin(c, p, q)
    BY Joined
  <2>2. QED  BY <1>2, <1>3, <2>1 DEF IsJoin
<1>6. \A i \in 1..(l + m) : i \in 1..l \/ \E j \in 1..m : i = l + j
  <2>1. SUFFICES ASSUME NEW i \in 1..(l + m), i \notin 1..l PROVE \E j \in 1..m : i = l + j
    OBVIOUS
  <2>2. i - l \in 1..m /\ i = l + (i - l)
    BY <2>1
  <2>3. QED  BY <2>2
<1>7. \A i \in 1..(l + m) : r[i] = c[i]
  <2>1. SUFFICES ASSUME NEW i \in 1..(l + m) PROVE r[i] = c[i]
    OBVIOUS
  <2>2. CASE i \in 1..l
    <3>1. b[i] = s[i] /\ c[i] = p[i]
      BY <1>1, <1>5, <2>2
    <3>2. /\ r[i] = IF b[i] \in S THEN <<b[i]>> ELSE <<>>
          /\ p[i] = IF s[i] \in S THEN <<s[i]>> ELSE <<>>
      BY <1>2, <1>4, <2>2
    <3>3. QED  BY <3>1, <3>2
  <2>3. ASSUME NEW j \in 1..m, i = l + j PROVE r[i] = c[i]
    <3>1. b[i] = t[j] /\ c[i] = q[j]
      BY <1>1, <1>5, <2>3
    <3>2. /\ r[i] = IF b[i] \in S THEN <<b[i]>> ELSE <<>>
          /\ q[j] = IF t[j] \in S THEN <<t[j]>> ELSE <<>>
      BY <1>3, <1>4
    <3>3. QED  BY <3>1, <3>2
  <2>4. QED  BY <1>6, <2>2, <2>3
<1>8. r = c
  BY <1>4, <1>5, <1>7, SamePointwise
<1>9. FlattenSeq(p \o q) = FlattenSeq(p) \o FlattenSeq(q)
  BY FlattenJoin
<1>10. QED  BY <1>1, <1>2, <1>3, <1>4, <1>5, <1>8, <1>9 DEF Kept, KeepsJoin

KeptOnce(s, S) == IsInjective(s) => IsInjective(Kept(s, S))

LEMMA KeptInjective ==
    ASSUME NEW A, NEW s \in Seq(A), NEW S
    PROVE  KeptOnce(s, S)
<1> DEFINE T == {n \in Nat : \A t \in Seq(A) : Len(t) = n => KeptOnce(t, S)}
<1>1. 0 \in T
  <2>1. SUFFICES ASSUME NEW t \in Seq(A), Len(t) = 0 PROVE KeptOnce(t, S)
    OBVIOUS
  <2>2. ToSet(t) \cap S = {} /\ t = <<>>
    BY <2>1 DEF ToSet
  <2>3. Kept(t, S) = t
    BY <2>2, KeptNone
  <2>4. QED  BY <2>3 DEF KeptOnce
<1>2. ASSUME NEW n \in Nat, n \in T PROVE n + 1 \in T
  <2>1. SUFFICES ASSUME NEW t \in Seq(A), Len(t) = n + 1, IsInjective(t)
                 PROVE  IsInjective(Kept(t, S))
    BY DEF KeptOnce
  <2>2. DOMAIN t = 1..(n + 1) /\ \A i \in 1..(n + 1) : t[i] \in A
    BY <2>1
  <2>3. [i \in 1..n |-> t[i]] \in Seq(A)
    <3>1. [i \in 1..n |-> t[i]] \in [1..n -> A]
      BY <2>2
    <3>2. QED  BY <3>1
  <2>4. PICK x \in Seq(A) : Len(x) = n /\ DOMAIN x = 1..n /\ \A i \in 1..n : x[i] = t[i]
    <3>1. PICK x \in Seq(A) : x = [i \in 1..n |-> t[i]]
      BY <2>3
    <3>2. QED  BY <3>1
  <2>5. PICK e \in A : e = t[n + 1]
    BY <2>2
  <2>6. PICK y \in Seq(A) : y = <<e>> /\ Len(y) = 1 /\ y[1] = e /\ DOMAIN y = 1..1
    <3>1. <<e>> \in Seq(A) /\ Len(<<e>>) = 1 /\ <<e>>[1] = e
      OBVIOUS
    <3>2. PICK y \in Seq(A) : y = <<e>>
      BY <3>1
    <3>3. DOMAIN y = 1..Len(y) /\ Len(y) = 1 /\ y[1] = e
      BY <3>1, <3>2
    <3>4. QED  BY <3>2, <3>3
  <2>7. PICK b \in Seq(A) : IsJoin(b, x, y)
    BY Joined
  <2>8. b = x \o y /\ Len(b) = n + 1 /\ b[n + 1] = e /\ \A i \in 1..n : b[i] = t[i]
    BY <2>4, <2>6, <2>7 DEF IsJoin
  <2>9. b = t
    <3>1. \A i \in 1..(n + 1) : i \in 1..n \/ i = n + 1
      OBVIOUS
    <3>2. \A i \in 1..(n + 1) : b[i] = t[i]
      BY <2>5, <2>8, <3>1
    <3>3. QED  BY <2>1, <2>8, <3>2, SamePointwise
  <2>10. PICK k, l : k = Kept(x, S) /\ l = Kept(y, S)
    OBVIOUS
  <2>11. Kept(t, S) = k \o l
    <3>1. KeepsJoin(x, y, S)
      BY KeptJoin
    <3>2. QED  BY <2>8, <2>9, <2>10, <3>1 DEF KeepsJoin
  <2>12. /\ k \in Seq(A) /\ ToSet(k) = ToSet(x) \cap S
         /\ l \in Seq(A) /\ ToSet(l) = ToSet(y) \cap S
    BY <2>10, KeptElements
  <2>13. IsInjective(k)
    <3>1. IsInjective(x)
      BY <2>1, <2>2, <2>4 DEF IsInjective
    <3>2. KeptOnce(x, S)
      BY <1>2, <2>4
    <3>3. QED  BY <2>10, <3>1, <3>2 DEF KeptOnce
  <2>14. ToSet(y) = {e} /\ IsInjective(y) /\ IsInjective(<<>>)
    BY <2>6 DEF ToSet, IsInjective
  <2>15. IsInjective(l)
    <3>1. CASE e \in S
      <4>1. Kept(y, S) = y
        BY <2>14, <3>1, KeptAll
      <4>2. QED  BY <2>10, <2>14, <4>1
    <3>2. CASE e \notin S
      <4>1. Kept(y, S) = <<>>
        BY <2>14, <3>2, KeptNone
      <4>2. QED  BY <2>10, <2>14, <4>1
    <3>3. QED  BY <3>1, <3>2
  <2>16. e \notin ToSet(x)
    <3>1. n + 1 \in 1..(n + 1) /\ \A i \in 1..n : i \in 1..(n + 1) /\ i # n + 1
      OBVIOUS
    <3>2. \A i, j \in 1..(n + 1) : t[i] = t[j] => i = j
      BY <2>1, <2>2 DEF IsInjective
    <3>3. PICK last \in 1..(n + 1) : last = n + 1
      BY <3>1
    <3>4. \A i \in 1..n : t[i] # t[last]
      BY <3>1, <3>2, <3>3
    <3>5. QED  BY <2>4, <2>5, <3>3, <3>4 DEF ToSet
  <2>17. ToSet(k) \cap ToSet(l) = {}
    BY <2>12, <2>14, <2>16
  <2>18. QED  BY <2>11, <2>12, <2>13, <2>15, <2>17, ElementsOfJoin
<1> HIDE DEF T
<1>3. Nat \subseteq T
  BY <1>1, <1>2, Induction
<1>4. Len(s) \in Nat
  OBVIOUS
<1>5. QED  BY <1>3, <1>4 DEF T

LEMMA NarrowSeq ==
    ASSUME NEW A, NEW R, NEW s \in Seq(A), ToSet(s) \subseteq R
    PROVE  s \in Seq(R)
<1>1. Len(s) \in Nat /\ DOMAIN s = 1..Len(s) /\ s = [i \in 1..Len(s) |-> s[i]]
  OBVIOUS
<1>2. \A i \in 1..Len(s) : s[i] \in R
  BY <1>1 DEF ToSet
<1>3. s \in [1..Len(s) -> R]
  BY <1>1, <1>2
<1>4. QED  BY <1>1, <1>3

LEMMA KeptType ==
    ASSUME NEW A, NEW s \in Seq(A), NEW S
    PROVE  Kept(s, S) \in Seq(A \cap S)
<1>1. PICK k \in Seq(A) : k = Kept(s, S) /\ ToSet(k) = ToSet(s) \cap S
  <2>1. PICK k : k = Kept(s, S)
    OBVIOUS
  <2>2. QED  BY <2>1, KeptElements
<1>2. ToSet(k) \subseteq A \cap S
  BY <1>1 DEF ToSet
<1>3. k \in Seq(A \cap S)
  BY <1>2, NarrowSeq
<1>4. QED  BY <1>1, <1>3

(* What is kept of a flattened sequence is what is kept of its parts.      *)
LEMMA KeptFlatten ==
    ASSUME NEW A, NEW s \in Seq(Seq(A)), NEW t \in Seq(Seq(A)), NEW S, Len(t) = Len(s),
           \A i \in 1..Len(s) : t[i] = Kept(s[i], S)
    PROVE  Kept(FlattenSeq(s), S) = FlattenSeq(t)
<1>0. PICK m \in Nat : m = Len(s) /\ DOMAIN s = 1..m
  OBVIOUS
<1>1. PICK f \in [0..m -> Seq(A)] :
          /\ f[0] = <<>>
          /\ \A i \in 1..m : f[i] = f[i-1] \o s[i]
          /\ f[m] = FlattenSeq(s)
  BY <1>0, Flattening
<1>2. PICK g \in [0..m -> Seq(A)] :
          /\ g[0] = <<>>
          /\ \A i \in 1..m : g[i] = g[i-1] \o t[i]
          /\ g[m] = FlattenSeq(t)
  <2>1. PICK g \in [0..Len(t) -> Seq(A)] :
            /\ g[0] = <<>>
            /\ \A i \in 1..Len(t) : g[i] = g[i-1] \o t[i]
            /\ g[Len(t)] = FlattenSeq(t)
    BY Flattening
  <2>2. Len(t) = m
    BY <1>0
  <2>3. QED  BY <2>1, <2>2, Zenon
<1> DEFINE T == {n \in Nat : Kept(f[n], S) = g[n]}
<1>3. 0 \in T
  <2>1. <<>> \in Seq(A) /\ ToSet(<<>>) \cap S = {}
    BY DEF ToSet
  <2>2. QED  BY <1>1, <1>2, <2>1, KeptNone
<1>4. ASSUME NEW n \in 0..(m - 1), n \in T PROVE n + 1 \in T
  <2>1. n + 1 \in 1..m /\ (n + 1) - 1 = n /\ n + 1 \in Nat /\ n \in 0..m
    BY <1>0
  <2>2. PICK x \in Seq(A), y \in Seq(A) : x = f[n] /\ y = s[n + 1]
    <3>1. f[n] \in Seq(A)
      BY <1>1, <2>1
    <3>2. s[n + 1] \in Seq(A)
      BY <1>0, <2>1
    <3>3. QED  BY <3>1, <3>2
  <2>3. f[n + 1] = x \o y /\ g[n + 1] = g[n] \o t[n + 1]
    BY <1>1, <1>2, <2>1, <2>2
  <2>4. Kept(x \o y, S) = Kept(x, S) \o Kept(y, S)
    <3>1. KeepsJoin(x, y, S)
      BY KeptJoin
    <3>2. QED  BY <3>1 DEF KeepsJoin
  <2>5. Kept(x, S) = g[n] /\ Kept(y, S) = t[n + 1]
    BY <1>0, <1>4, <2>1, <2>2
  <2>6. QED  BY <2>1, <2>3, <2>4, <2>5
<1>5. 0..m \subseteq T
  <2> HIDE DEF T
  <2>1. QED  BY <1>0, <1>3, <1>4, InductionUpTo
<1>6. m \in T
  <2>1. m \in 0..m
    BY <1>0
  <2>2. QED  BY <1>5, <2>1
<1>7. QED  BY <1>1, <1>2, <1>6

-----------------------------------------------------------------------------
(* Sequences in the order of a measure.                                    *)

Ascends(s, m) == \A i, j \in DOMAIN s : i < j => m[s[i]] <= m[s[j]]

LEMMA AscendsJoin ==
    ASSUME NEW A, NEW m \in [A -> Nat], NEW s \in Seq(A), NEW t \in Seq(A),
           Ascends(s, m), Ascends(t, m),
           \A x \in ToSet(s), y \in ToSet(t) : m[x] <= m[y]
    PROVE  Ascends(s \o t, m)
<1>1. PICK b \in Seq(A) : IsJoin(b, s, t)
  BY Joined
<1>2. PICK l \in Nat, k \in Nat : /\ l = Len(s) /\ DOMAIN s = 1..l
                                  /\ k = Len(t) /\ DOMAIN t = 1..k
  OBVIOUS
<1>3. /\ b = s \o t /\ DOMAIN b = 1..(l + k)
      /\ \A i \in 1..l : b[i] = s[i]
      /\ \A i \in 1..k : b[l + i] = t[i]
  BY <1>1, <1>2 DEF IsJoin
<1> SUFFICES ASSUME NEW i \in 1..(l + k), NEW j \in 1..(l + k), i < j
             PROVE  m[b[i]] <= m[b[j]]
  BY <1>3 DEF Ascends
<1>4. CASE j \in 1..l
  <2>1. i \in 1..l
    BY <1>4
  <2>2. QED  BY <1>2, <1>3, <1>4, <2>1 DEF Ascends
<1>5. CASE i \in 1..l /\ j \notin 1..l
  <2>1. PICK y \in 1..k : j = l + y
    <3>1. j - l \in 1..k /\ j = l + (j - l)
      BY <1>5
    <3>2. QED  BY <3>1
  <2>2. b[i] \in ToSet(s) /\ b[j] \in ToSet(t)
    BY <1>2, <1>3, <1>5, <2>1 DEF ToSet
  <2>3. QED  BY <2>2
<1>6. CASE i \notin 1..l
  <2>1. PICK x \in 1..k : i = l + x
    <3>1. i - l \in 1..k /\ i = l + (i - l)
      BY <1>6
    <3>2. QED  BY <3>1
  <2>2. PICK y \in 1..k : j = l + y
    <3>1. j - l \in 1..k /\ j = l + (j - l)
      BY <1>6
    <3>2. QED  BY <3>1
  <2>3. x < y /\ b[i] = t[x] /\ b[j] = t[y]
    BY <1>3, <2>1, <2>2, SMTT(20)
  <2>4. QED  BY <1>2, <2>3 DEF Ascends
<1>7. QED  BY <1>4, <1>5, <1>6

LEMMA AscendsFlatten ==
    ASSUME NEW A, NEW m \in [A -> Nat], NEW s \in Seq(Seq(A)),
           \A i \in DOMAIN s : Ascends(s[i], m),
           \A i, j \in DOMAIN s : \A x \in ToSet(s[i]), y \in ToSet(s[j]) :
               i < j => m[x] <= m[y]
    PROVE  Ascends(FlattenSeq(s), m)
<1>0. PICK k \in Nat : k = Len(s) /\ DOMAIN s = 1..k
  OBVIOUS
<1>1. PICK f \in [0..k -> Seq(A)] :
          /\ f[0] = <<>>
          /\ \A i \in 1..k : f[i] = f[i-1] \o s[i]
          /\ f[k] = FlattenSeq(s)
  BY <1>0, Flattening
<1> DEFINE T == {n \in Nat : /\ Ascends(f[n], m)
                             /\ \A x \in ToSet(f[n]) : \E i \in 1..n : x \in ToSet(s[i])}
<1>2. 0 \in T
  <2>1. ToSet(<<>>) = {} /\ Ascends(<<>>, m)
    BY DEF ToSet, Ascends
  <2>2. QED  BY <1>1, <2>1
<1>3. ASSUME NEW n \in 0..(k - 1), n \in T PROVE n + 1 \in T
  <2>1. n + 1 \in 1..k /\ (n + 1) - 1 = n /\ n + 1 \in Nat /\ n \in 0..k
    BY <1>0
  <2>2. PICK x \in Seq(A), y \in Seq(A) : x = f[n] /\ y = s[n + 1]
    <3>1. f[n] \in Seq(A)
      BY <1>1, <2>1
    <3>2. s[n + 1] \in Seq(A)
      BY <1>0, <2>1
    <3>3. QED  BY <3>1, <3>2
  <2>3. f[n + 1] = x \o y
    BY <1>1, <2>1, <2>2
  <2>4. Ascends(x, m) /\ \A e \in ToSet(x) : \E i \in 1..n : e \in ToSet(s[i])
    BY <1>3, <2>2
  <2>5. \A e \in ToSet(x), d \in ToSet(y) : m[e] <= m[d]
    <3>1. SUFFICES ASSUME NEW e \in ToSet(x), NEW d \in ToSet(y) PROVE m[e] <= m[d]
      OBVIOUS
    <3>2. PICK i \in 1..n : e \in ToSet(s[i])
      BY <2>4
    <3>3. i \in DOMAIN s /\ n + 1 \in DOMAIN s /\ i < n + 1
      BY <1>0, <2>1
    <3>4. QED  BY <2>2, <3>2, <3>3
  <2>6. Ascends(y, m)
    BY <1>0, <2>1, <2>2
  <2>7. Ascends(x \o y, m)
    BY <2>4, <2>5, <2>6, AscendsJoin
  <2>8. ToSet(x \o y) = ToSet(x) \cup ToSet(y)
    BY ElementsOfJoin
  <2>9. \A e \in ToSet(x \o y) : \E i \in 1..(n + 1) : e \in ToSet(s[i])
    <3>1. \A i \in 1..n : i \in 1..(n + 1)
      BY <2>1
    <3>2. n + 1 \in 1..(n + 1)
      BY <2>1
    <3>3. QED  BY <2>2, <2>4, <2>8, <3>1, <3>2
  <2>10. QED  BY <2>1, <2>3, <2>7, <2>9
<1>4. 0..k \subseteq T
  <2> HIDE DEF T
  <2>1. QED  BY <1>0, <1>2, <1>3, InductionUpTo
<1>5. k \in T
  <2>1. k \in 0..k
    BY <1>0
  <2>2. QED  BY <1>4, <2>1
<1>6. QED  BY <1>1, <1>5

LEMMA AscendsKept ==
    ASSUME NEW A, NEW m \in [A -> Nat], NEW s \in Seq(A), NEW S, Ascends(s, m)
    PROVE  Ascends(Kept(s, S), m)
<1>1. PICK k \in Seq(Seq(A)) : ArePartsOf(k, s, S)
  BY KeptPartsType
<1>2. /\ k = KeptParts(s, S) /\ DOMAIN k = 1..Len(s) /\ DOMAIN k = DOMAIN s
      /\ \A i \in 1..Len(s) : k[i] = IF s[i] \in S THEN <<s[i]>> ELSE <<>>
  BY <1>1 DEF ArePartsOf
<1>3. \A x : ToSet(<<x>>) = {x} /\ Ascends(<<x>>, m)
  BY DEF ToSet, Ascends
<1>4. ToSet(<<>>) = {} /\ Ascends(<<>>, m)
  BY DEF ToSet, Ascends
<1>5. \A i \in DOMAIN k : Ascends(k[i], m) /\ \A x \in ToSet(k[i]) : x = s[i]
  BY <1>2, <1>3, <1>4
<1>6. \A i, j \in DOMAIN k : \A x \in ToSet(k[i]), y \in ToSet(k[j]) :
          i < j => m[x] <= m[y]
  <2>1. \A i, j \in DOMAIN k : i < j => m[s[i]] <= m[s[j]]
    BY <1>2 DEF Ascends
  <2>2. \A i \in DOMAIN k : \A x \in ToSet(k[i]) : x = s[i]
    BY <1>5
  <2>3. QED  BY ONLY <2>1, <2>2
<1>7. Ascends(FlattenSeq(k), m)
  BY <1>5, <1>6, AscendsFlatten
<1>8. QED  BY <1>2, <1>7 DEF Kept

=============================================================================
