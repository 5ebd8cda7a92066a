--------------------------- MODULE OpenVPNProofs ---------------------------
(***************************************************************************)
(* Proofs about the OpenVPN backend, for any users, clients, bounds and    *)
(* faults: who is cut off, and what is counted.                            *)
(***************************************************************************)
EXTENDS OpenVPN, FiniteSetTheorems, WellFoundedInduction, SequenceTheorems, TLAPS
-----------------------------------------------------------------------------
(***************************************************************************)
(* Finite sums. The library defines them by a choice of the order of the   *)
(* terms; what follows from it for every function is proved by induction   *)
(* over the subsets of its domain, with a set in place of the predicate.   *)
(***************************************************************************)
(* Induction over the natural numbers, with a set in place of the          *)
(* predicate: what is left out has no least element.                       *)
LEMMA Induction ==
    ASSUME NEW G, 0 \in G, \A n \in Nat : n \in G => n + 1 \in G
    PROVE  Nat \subseteq G
<1> DEFINE B == Nat \ G
           T == {1..n : n \in B}
           R == StrictSubsetOrdering(Nat)
<1> SUFFICES ASSUME B # {} PROVE FALSE
  OBVIOUS
<1>1. IsWellFoundedOn(R, FiniteSubsetsOf(Nat))
  BY FS_StrictSubsetOrderingWellFounded
<1>2. T \subseteq FiniteSubsetsOf(Nat) /\ T # {}
  <2>1. \A n \in Nat : IsFiniteSet(1..n) /\ (1..n) \in SUBSET Nat
    BY FS_Interval
  <2> QED
    BY <2>1 DEF FiniteSubsetsOf
<1>3. PICK x \in T : \A y \in T : <<y, x>> \notin R
  <2> HIDE DEF T, R
  <2> QED
    BY <1>1, <1>2, WFMin
<1>4. PICK n \in B : x = 1..n
  OBVIOUS
<1>5. n # 0 /\ n - 1 \in Nat /\ (n - 1) + 1 = n
  OBVIOUS
<1>6. n - 1 \in B
  BY <1>5
<1>7. (1..(n - 1)) \subseteq (1..n) /\ n \in 1..n /\ n \notin 1..(n - 1)
  BY <1>5
<1>8. <<1..(n - 1), x>> \in R
  BY <1>4, <1>7 DEF StrictSubsetOrdering
<1> QED
  BY <1>3, <1>6, <1>8

(* Induction over the subsets of a finite set, one element at a time.      *)
LEMMA SubsetInduction ==
    ASSUME NEW D, IsFiniteSet(D), NEW G, {} \in G,
           \A T \in SUBSET D : \A x \in D \ T : T \in G => T \cup {x} \in G
    PROVE  \A T \in SUBSET D : T \in G
<1> DEFINE B == (SUBSET D) \ G
           R == StrictSubsetOrdering(D)
<1> SUFFICES ASSUME B # {} PROVE FALSE
  OBVIOUS
<1>1. IsWellFoundedOn(R, SUBSET D)
  BY FS_StrictSubsetOrderingWellFounded, FS_FiniteSubsetsOfFinite
<1>2. PICK T \in B : \A y \in B : <<y, T>> \notin R
  <2>1. B \subseteq SUBSET D
    OBVIOUS
  <2> HIDE DEF B, R
  <2> QED
    BY <1>1, <2>1, WFMin
<1>3. PICK x \in T : TRUE
  OBVIOUS
<1>4. <<T \ {x}, T>> \in R
  BY <1>3 DEF StrictSubsetOrdering
<1>5. T \ {x} \in G
  BY <1>2, <1>4
<1>6. T = (T \ {x}) \cup {x} /\ x \in D \ (T \ {x})
  BY <1>3
<1> QED
  BY <1>5, <1>6

(* The values a fold over the subsets of a function's domain goes through. *)
Summable(f) == IsFiniteSet(DOMAIN f) /\ \A x \in DOMAIN f : f[x] \in Int
PartialSums(h, f) ==
    /\ h \in [SUBSET DOMAIN f -> Int]
    /\ h[{}] = 0
    /\ \A s \in SUBSET DOMAIN f : \A x \in s : h[s] = f[x] + h[s \ {x}]

Chosen(s) == CHOOSE x \in s : TRUE
Iter(f, h, s) == IF s = {} THEN 0 ELSE f[Chosen(s)] + h[s \ {Chosen(s)}]

LEMMA Smaller ==
    ASSUME NEW D, IsFiniteSet(D), NEW s \in SUBSET D, NEW n \in Nat, NEW x \in s
    PROVE  /\ Cardinality(s) \in Nat /\ s \ {x} \in SUBSET D
           /\ Cardinality(s) <= n + 1 => Cardinality(s \ {x}) <= n
           /\ Cardinality(s) <= Cardinality(D)
<1>1. IsFiniteSet(s) /\ Cardinality(s) <= Cardinality(D)
  BY FS_Subset
<1>2. Cardinality(s) \in Nat
  BY <1>1, FS_CardinalityType
<1>3. Cardinality(s \ {x}) = Cardinality(s) - 1
  BY <1>1, FS_RemoveElement
<1> QED
  BY <1>1, <1>2, <1>3

LEMMA SubsetsAreSmall ==
    ASSUME NEW D, IsFiniteSet(D), NEW s \in SUBSET D
    PROVE  /\ Cardinality(D) \in Nat /\ Cardinality(s) \in Nat /\ Cardinality(s) <= Cardinality(D)
           /\ Cardinality(s) <= 0 => s = {}
<1>1. IsFiniteSet(s) /\ Cardinality(s) <= Cardinality(D)
  BY FS_Subset
<1> QED
  BY <1>1, FS_CardinalityType, FS_EmptySet

LEMMA FoldExists ==
    ASSUME NEW f, Summable(f)
    PROVE  \E h \in [SUBSET DOMAIN f -> Int] : \A s \in SUBSET DOMAIN f : h[s] = Iter(f, h, s)
<1> DEFINE D == DOMAIN f
           Good(h, n) == \A s \in SUBSET D : Cardinality(s) <= n => h[s] = Iter(f, h, s)
           G == {n \in Nat : \E h \in [SUBSET D -> Int] : Good(h, n)}
<1>0. IsFiniteSet(D) /\ \A x \in D : f[x] \in Int
  BY DEF Summable
<1>1. 0 \in G
  <2> DEFINE h == [s \in SUBSET D |-> 0]
  <2>1. h \in [SUBSET D -> Int] /\ \A s \in SUBSET D : Cardinality(s) <= 0 => h[s] = Iter(f, h, s)
    BY <1>0, SubsetsAreSmall DEF Iter
  <2> HIDE DEF h
  <2>2. Good(h, 0)
    BY <2>1
  <2> QED
    BY <2>1, <2>2
<1>2. ASSUME NEW n \in Nat, n \in G PROVE n + 1 \in G
  <2>1. PICK h \in [SUBSET D -> Int] : Good(h, n)
    BY <1>2
  <2> DEFINE g == [s \in SUBSET D |-> IF Cardinality(s) <= n THEN h[s] ELSE Iter(f, h, s)]
  <2>2. ASSUME NEW s \in SUBSET D PROVE Iter(f, h, s) \in Int
    <3>1. s # {} => Chosen(s) \in s
      BY DEF Chosen
    <3> QED
      BY <1>0, <3>1 DEF Iter
  <2>3. g \in [SUBSET D -> Int]
    BY <2>2
  <2>4. ASSUME NEW s \in SUBSET D, Cardinality(s) <= n + 1 PROVE g[s] = Iter(f, g, s)
    <3>1. g[s] = Iter(f, h, s)
      BY <2>1
    <3>2. CASE s = {}
      BY <3>1, <3>2 DEF Iter
    <3>3. CASE s # {}
      <4> DEFINE t == s \ {Chosen(s)}
      <4>1. Chosen(s) \in s
        BY <3>3 DEF Chosen
      <4>2. t \in SUBSET D /\ Cardinality(t) <= n
        BY <1>0, <2>4, <4>1, Smaller
      <4>3. g[t] = h[t]
        BY <4>2
      <4> HIDE DEF g
      <4> QED
        BY <3>1, <3>3, <4>3 DEF Iter
    <3> QED
      BY <3>2, <3>3
  <2> HIDE DEF g
  <2>5. Good(g, n + 1)
    BY <2>4
  <2> QED
    BY <2>3, <2>5
<1>3. Cardinality(D) \in G
  <2>1. Cardinality(D) \in Nat
    BY <1>0, FS_CardinalityType
  <2> HIDE DEF G
  <2> QED
    BY <1>1, <1>2, <2>1, Induction
<1>4. PICK h \in [SUBSET D -> Int] : Good(h, Cardinality(D))
  BY <1>3
<1>5. \A s \in SUBSET D : h[s] = Iter(f, h, s)
  BY <1>0, <1>4, SubsetsAreSmall
<1> QED
  BY <1>5

LEMMA FoldIsSum ==
    ASSUME NEW f, Summable(f)
    PROVE  \E h : PartialSums(h, f) /\ SumFunction(f) = h[DOMAIN f]
<1> DEFINE D == DOMAIN f
           Whole(g) == [s \in SUBSET D |-> Iter(f, g, s)]
           h == CHOOSE g : g = Whole(g)
<1>0. IsFiniteSet(D) /\ \A x \in D : f[x] \in Int
  BY DEF Summable
<1>1. SumFunction(f) = h[D]
  BY DEF SumFunction, SumFunctionOnSet, FoldFunctionOnSet, MapThenFoldSet, Iter, Chosen
<1>2. \E g : g = Whole(g)
  <2>1. PICK g \in [SUBSET D -> Int] : \A s \in SUBSET D : g[s] = Iter(f, g, s)
    BY FoldExists
  <2>2. g = Whole(g)
    BY <2>1
  <2> QED
    BY <2>2
<1>3. h = Whole(h)
  BY <1>2
<1>4. /\ DOMAIN Whole(h) = SUBSET D
      /\ \A s \in SUBSET D : Whole(h)[s] = Iter(f, h, s)
      /\ Whole(h) = [s \in SUBSET D |-> Whole(h)[s]]
  <2> HIDE DEF h
  <2> QED
    OBVIOUS
<1> HIDE DEF h, Whole
<1>5. /\ DOMAIN h = SUBSET D
      /\ \A s \in SUBSET D : h[s] = Iter(f, h, s)
      /\ h = [s \in SUBSET D |-> h[s]]
  BY <1>3, <1>4
<1>6. h[{}] = 0
  BY <1>5 DEF Iter
<1> DEFINE I == {n \in Nat : \A s \in SUBSET D : Cardinality(s) <= n => h[s] \in Int}
           L == {n \in Nat : \A s \in SUBSET D : Cardinality(s) <= n => \A x \in s : h[s] = f[x] + h[s \ {x}]}
<1>7. Cardinality(D) \in I
  <2>1. 0 \in I
    BY <1>0, <1>6, SubsetsAreSmall
  <2>2. ASSUME NEW n \in Nat, n \in I PROVE n + 1 \in I
    <3> SUFFICES ASSUME NEW s \in SUBSET D, Cardinality(s) <= n + 1 PROVE h[s] \in Int
      OBVIOUS
    <3>1. CASE s # {}
      <4>1. Chosen(s) \in s
        BY <3>1 DEF Chosen
      <4>2. h[s \ {Chosen(s)}] \in Int
        BY <1>0, <2>2, <4>1, Smaller
      <4>3. h[s] = f[Chosen(s)] + h[s \ {Chosen(s)}]
        BY <1>5, <3>1 DEF Iter
      <4>4. f[Chosen(s)] \in Int
        BY <1>0, <4>1
      <4> QED
        BY <4>2, <4>3, <4>4
    <3> QED
      BY <1>6, <3>1
  <2>3. Cardinality(D) \in Nat
    BY <1>0, FS_CardinalityType
  <2> HIDE DEF I
  <2> QED
    BY <2>1, <2>2, <2>3, Induction
<1>8. \A s \in SUBSET D : h[s] \in Int
  BY <1>0, <1>7, SubsetsAreSmall
<1>9. Cardinality(D) \in L
  <2>1. 0 \in L
    BY <1>0, SubsetsAreSmall
  <2>2. ASSUME NEW n \in Nat, n \in L PROVE n + 1 \in L
    <3> SUFFICES ASSUME NEW s \in SUBSET D, Cardinality(s) <= n + 1, NEW x \in s
                 PROVE  h[s] = f[x] + h[s \ {x}]
      OBVIOUS
    <3> DEFINE y == Chosen(s)
    <3>1. y \in s /\ h[s] = f[y] + h[s \ {y}]
      <4>1. s # {}
        OBVIOUS
      <4>2. Chosen(s) \in s
        BY <4>1 DEF Chosen
      <4> QED
        BY <1>5, <4>1, <4>2 DEF Iter
    <3> HIDE DEF y
    <3>2. CASE y # x
      <4>1. /\ s \ {y} \in SUBSET D /\ Cardinality(s \ {y}) <= n /\ x \in s \ {y}
            /\ s \ {x} \in SUBSET D /\ Cardinality(s \ {x}) <= n /\ y \in s \ {x}
            /\ (s \ {y}) \ {x} = (s \ {x}) \ {y} /\ (s \ {y}) \ {x} \in SUBSET D
        BY <1>0, <3>1, <3>2, Smaller
      <4>2. h[s \ {y}] = f[x] + h[(s \ {y}) \ {x}] /\ h[s \ {x}] = f[y] + h[(s \ {x}) \ {y}]
        BY <2>2, <4>1
      <4>3. f[x] \in Int /\ f[y] \in Int /\ h[(s \ {y}) \ {x}] \in Int
        BY <1>0, <1>8, <3>1, <4>1
      <4> DEFINE a == f[x]
                 b == f[y]
                 c == h[(s \ {y}) \ {x}]
      <4>4. h[s] = b + (a + c) /\ h[s \ {x}] = b + c
        BY <3>1, <4>1, <4>2
      <4>5. a \in Int /\ b \in Int /\ c \in Int
        BY <4>3
      <4> HIDE DEF a, b, c
      <4>6. h[s] = a + h[s \ {x}]
        BY <4>4, <4>5
      <4> QED
        BY <4>6 DEF a
    <3> QED
      BY <3>1, <3>2
  <2>3. Cardinality(D) \in Nat
    BY <1>0, FS_CardinalityType
  <2> HIDE DEF L
  <2> QED
    BY <2>1, <2>2, <2>3, Induction
<1>10. \A s \in SUBSET D : \A x \in s : h[s] = f[x] + h[s \ {x}]
  BY <1>0, <1>9, SubsetsAreSmall
<1>11. PartialSums(h, f)
  BY <1>5, <1>6, <1>8, <1>10 DEF PartialSums
<1> QED
  BY <1>1, <1>11

LEMMA PartialStep ==
    ASSUME NEW f, NEW h, PartialSums(h, f), NEW T, NEW D, DOMAIN f = D, T \in SUBSET D
    PROVE  /\ h[T] \in Int
           /\ \A x \in D \ T : h[T \cup {x}] = f[x] + h[T]
<1>1. h[T] \in Int
  BY DEF PartialSums
<1>2. ASSUME NEW x \in D \ T PROVE h[T \cup {x}] = f[x] + h[T]
  <2>1. T \cup {x} \in SUBSET D /\ x \in T \cup {x} /\ (T \cup {x}) \ {x} = T
    OBVIOUS
  <2> QED
    BY <2>1 DEF PartialSums
<1> QED
  BY <1>1, <1>2

(* A sum over a function that lists the values of another one, and leaves  *)
(* out zeroes at most, is the same.                                        *)
LEMMA SumVia ==
    ASSUME NEW f, Summable(f), NEW g, Summable(g), NEW b \in [DOMAIN g -> DOMAIN f],
           \A x, y \in DOMAIN g : b[x] = b[y] => x = y,
           \A x \in DOMAIN g : g[x] = f[b[x]],
           \A y \in DOMAIN f : (\A x \in DOMAIN g : b[x] # y) => f[y] = 0
    PROVE  SumFunction(g) = SumFunction(f)
<1>1. PICK hf : PartialSums(hf, f) /\ SumFunction(f) = hf[DOMAIN f]
  BY FoldIsSum
<1>2. PICK hg : PartialSums(hg, g) /\ SumFunction(g) = hg[DOMAIN g]
  BY FoldIsSum
<1> DEFINE D == DOMAIN f
           E == DOMAIN g
           Pre(T) == {x \in E : b[x] \in T}
           G == {T \in SUBSET D : hf[T] = hg[Pre(T)]}
<1>3. {} \in G
  <2>1. Pre({}) = {}
    OBVIOUS
  <2> QED
    BY <1>1, <1>2, <2>1 DEF PartialSums
<1>4. ASSUME NEW T \in SUBSET D, NEW y \in D \ T, T \in G PROVE T \cup {y} \in G
  <2>1. hf[T \cup {y}] = f[y] + hf[T]
    <3>1. T \cup {y} \in SUBSET D /\ y \in T \cup {y} /\ (T \cup {y}) \ {y} = T
      OBVIOUS
    <3> QED
      BY <1>1, <3>1 DEF PartialSums
  <2>2. hf[T] = hg[Pre(T)] /\ hf[T] \in Int
    BY <1>1, <1>4 DEF PartialSums
  <2>3. CASE \E x \in E : b[x] = y
    <3>1. PICK x \in E : b[x] = y
      BY <2>3
    <3>2. /\ Pre(T \cup {y}) \in SUBSET E /\ x \in Pre(T \cup {y})
          /\ Pre(T \cup {y}) \ {x} = Pre(T)
      BY <3>1
    <3> HIDE DEF Pre
    <3>3. hg[Pre(T \cup {y})] = g[x] + hg[Pre(T)]
      <4> DEFINE P == Pre(T)
      <4>1. P \in SUBSET E /\ x \in E \ P /\ Pre(T \cup {y}) = P \cup {x}
        BY <3>2
      <4> HIDE DEF P
      <4>2. hg[P \cup {x}] = g[x] + hg[P]
        BY <1>2, <4>1, PartialStep
      <4> QED
        BY <4>1, <4>2 DEF P
    <3> QED
      BY <2>1, <2>2, <3>1, <3>3
  <2>4. CASE \A x \in E : b[x] # y
    <3>1. Pre(T \cup {y}) = Pre(T)
      BY <2>4
    <3>2. f[y] = 0
      BY <2>4
    <3> HIDE DEF Pre
    <3> QED
      BY <2>1, <2>2, <3>1, <3>2
  <2> QED
    BY <2>3, <2>4
<1>5. D \in G
  <2>1. IsFiniteSet(D)
    BY DEF Summable
  <2>2. \A T \in SUBSET D : T \in G
    <3> HIDE DEF G, D
    <3> QED
      BY <1>3, <1>4, <2>1, SubsetInduction
  <2> QED
    BY <2>2
<1>6. Pre(D) = E
  OBVIOUS
<1> QED
  BY <1>1, <1>2, <1>5, <1>6

(* Sums over one domain add up point by point.                             *)
LEMMA SumAdd ==
    ASSUME NEW f, Summable(f), NEW g, Summable(g), NEW k, Summable(k),
           DOMAIN f = DOMAIN k, DOMAIN g = DOMAIN k,
           \A x \in DOMAIN k : k[x] = f[x] + g[x]
    PROVE  SumFunction(k) = SumFunction(f) + SumFunction(g)
<1>1. PICK hf : PartialSums(hf, f) /\ SumFunction(f) = hf[DOMAIN f]
  BY FoldIsSum
<1>2. PICK hg : PartialSums(hg, g) /\ SumFunction(g) = hg[DOMAIN g]
  BY FoldIsSum
<1>3. PICK hk : PartialSums(hk, k) /\ SumFunction(k) = hk[DOMAIN k]
  BY FoldIsSum
<1> DEFINE D == DOMAIN k
           G == {T \in SUBSET D : hk[T] = hf[T] + hg[T]}
<1>4. {} \in G
  BY <1>1, <1>2, <1>3 DEF PartialSums
<1>5. ASSUME NEW T \in SUBSET D, NEW y \in D \ T, T \in G PROVE T \cup {y} \in G
  <2>1. T \cup {y} \in SUBSET D /\ y \in T \cup {y} /\ (T \cup {y}) \ {y} = T
    OBVIOUS
  <2>2. /\ hf[T \cup {y}] = f[y] + hf[T]
        /\ hg[T \cup {y}] = g[y] + hg[T]
        /\ hk[T \cup {y}] = k[y] + hk[T]
    <3>1. T \in SUBSET DOMAIN f /\ T \in SUBSET DOMAIN g /\ y \in DOMAIN f \ T /\ y \in DOMAIN g \ T
      BY <1>5
    <3> HIDE DEF D
    <3>2. hf[T \cup {y}] = f[y] + hf[T]
      <4>1. PartialSums(hf, f)
        BY <1>1
      <4>2. \A x \in DOMAIN f \ T : hf[T \cup {x}] = f[x] + hf[T]
        BY <3>1, <4>1, PartialStep
      <4> QED
        BY <3>1, <4>2
    <3>3. hg[T \cup {y}] = g[y] + hg[T]
      BY <1>2, <3>1, PartialStep
    <3>4. hk[T \cup {y}] = k[y] + hk[T]
      BY <1>3, <1>5, PartialStep DEF D
    <3> QED
      BY <3>2, <3>3, <3>4
  <2>3. hf[T] \in Int /\ hg[T] \in Int /\ f[y] \in Int /\ g[y] \in Int
    BY <1>1, <1>2 DEF PartialSums, Summable
  <2>4. hk[T] = hf[T] + hg[T] /\ k[y] = f[y] + g[y]
    BY <1>5
  <2> DEFINE p == hf[T]
             q == hg[T]
             r == f[y]
             s == g[y]
  <2>5. /\ hf[T \cup {y}] = r + p /\ hg[T \cup {y}] = s + q
        /\ hk[T \cup {y}] = (r + s) + (p + q) /\ p \in Int /\ q \in Int /\ r \in Int /\ s \in Int
    BY <2>2, <2>3, <2>4
  <2> HIDE DEF p, q, r, s
  <2>6. hk[T \cup {y}] = hf[T \cup {y}] + hg[T \cup {y}]
    BY <2>5
  <2> QED
    BY <2>1, <2>6
<1>6. \A T \in SUBSET D : T \in G
  <2>1. IsFiniteSet(D)
    BY DEF Summable
  <2> HIDE DEF G
  <2> QED
    BY <1>4, <1>5, <2>1, SubsetInduction
<1> QED
  BY <1>1, <1>2, <1>3, <1>6

LEMMA SumType ==
    ASSUME NEW f, Summable(f)
    PROVE  SumFunction(f) \in Int
<1>1. PICK h : PartialSums(h, f) /\ SumFunction(f) = h[DOMAIN f]
  BY FoldIsSum
<1> QED
  BY <1>1 DEF PartialSums

(* A sum with one term at most.                                            *)
LEMMA SumSingle ==
    ASSUME NEW f, Summable(f), NEW x \in DOMAIN f, \A y \in DOMAIN f : y # x => f[y] = 0
    PROVE  SumFunction(f) = f[x]
<1>1. PICK h : PartialSums(h, f) /\ SumFunction(f) = h[DOMAIN f]
  BY FoldIsSum
<1> DEFINE D == DOMAIN f
           G == {T \in SUBSET D : h[T] = IF x \in T THEN f[x] ELSE 0}
<1>2. {} \in G
  BY <1>1 DEF PartialSums
<1>3. ASSUME NEW T \in SUBSET D, NEW y \in D \ T, T \in G PROVE T \cup {y} \in G
  <2>1. T \cup {y} \in SUBSET D /\ y \in T \cup {y} /\ (T \cup {y}) \ {y} = T
    OBVIOUS
  <2>2. h[T \cup {y}] = f[y] + h[T] /\ f[y] \in Int /\ f[x] \in Int
    BY <1>1, <2>1 DEF PartialSums, Summable
  <2> QED
    BY <1>3, <2>1, <2>2
<1>4. \A T \in SUBSET D : T \in G
  <2>1. IsFiniteSet(D)
    BY DEF Summable
  <2> HIDE DEF G, D
  <2> QED
    BY <1>2, <1>3, <2>1, SubsetInduction
<1> QED
  BY <1>1, <1>4

LEMMA SumZero ==
    ASSUME NEW f, Summable(f), \A y \in DOMAIN f : f[y] = 0
    PROVE  SumFunction(f) = 0
<1>1. CASE DOMAIN f = {}
  BY <1>1, FoldIsSum DEF PartialSums
<1>2. CASE DOMAIN f # {}
  BY <1>2, SumSingle
<1> QED
  BY <1>1, <1>2
-----------------------------------------------------------------------------
(***************************************************************************)
(* OpenVPN: who is cut off.                                                *)
(***************************************************************************)
(* The types of what the daemon has and says.                              *)
Sessions == [cn : Users, serial : Certs, st : {"pending", "up"}, bytes : Nat]
Row == [cn : Users, bytes : Nat]
RowMaps == UNION {[D -> Row] : D \in SUBSET Nat}
Connects == [type : {"connect"}, cid : Nat, cn : Users, serial : Certs]
Disconnects == [type : {"disconnect"}, cid : Nat, cn : Users, bytes : Nat]
Statuses == [type : {"status"}, rows : RowMaps]
Events == Connects \cup Disconnects \cup Statuses
Verdicts == [type : {"auth", "deny"}, cid : Nat]

TypeOK ==
    /\ allow \in [Users -> Pins]
    /\ daemon \in {"up", "down"}
    /\ nextCid \in Nat
    /\ client \in UNION {[D -> Sessions] : D \in SUBSET (0..(nextCid - 1))}
    /\ link \in BOOLEAN
    /\ toNode \in Seq(Events)
    /\ reader \in Verdicts \cup {None}
    /\ kills \in [Requests -> SUBSET Users]

(* Clients are those of the daemon the node is connected to.               *)
Connected ==
    /\ DOMAIN client # {} => Heard
    /\ restart = "start" => daemon = "down"
    /\ restart = "connect" => ~link

(* An announcement and a verdict on its way are of a session of this       *)
(* daemon: no id is given out for a second time before Restart has closed  *)
(* the connection.                                                         *)
Announced(e) ==
    /\ link => e.cid < nextCid
    /\ e.cid \in DOMAIN client => client[e.cid].cn = e.cn /\ client[e.cid].serial = e.serial
Queued == \A e \in Range(toNode) : e.type = "connect" => Announced(e)

(* A user is let in, or is being cut off. This has to hold of a session    *)
(* from the moment it is authorized, before the verdict has reached it.    *)
Covered(u, serial) ==
    \/ Authorized(u, serial)
    \/ \E r \in Requests : u \in kills[r]
    \/ restart = "stop"
    \/ u \in spared
Verdict ==
    reader # None =>
        /\ link => reader.cid < nextCid
        /\ reader.type = "auth" /\ reader.cid \in DOMAIN client =>
             Covered(client[reader.cid].cn, client[reader.cid].serial)

UsersInv == TypeOK /\ Connected /\ Queued /\ Verdict /\ CutOff

LEMMA SetToSeqListsAll ==
    ASSUME NEW S, IsFiniteSet(S)
    PROVE  /\ SetToSeq(S) \in [1..Cardinality(S) -> S] /\ SetToSeq(S) \in Seq(S)
           /\ IsInjective(SetToSeq(S))
           /\ \A x \in S : \E i \in 1..Len(SetToSeq(S)) : SetToSeq(S)[i] = x
<1> DEFINE n == Cardinality(S)
           f == SetToSeq(S)
           R == {f[i] : i \in 1..n}
<1>1. n \in Nat /\ \E g \in [1..n -> S] : IsInjective(g)
  BY FS_CardinalityType DEF ExistsBijection, Bijection, Injection
<1>2. f \in [1..n -> S] /\ IsInjective(f)
  BY <1>1 DEF SetToSeq
<1>3. f \in Bijection(1..n, R)
  BY <1>2 DEF Bijection, Injection, Surjection
<1>4. IsFiniteSet(R) /\ Cardinality(R) = n
  <2>1. ExistsBijection(1..n, R)
    BY <1>3 DEF ExistsBijection
  <2>2. IsFiniteSet(R)
    BY <1>1, <2>1, FS_NatBijection
  <2> QED
    BY <1>1, <2>1, <2>2, FS_CountingElements
<1>5. R = S
  <2>1. R \subseteq S
    BY <1>2
  <2> QED
    BY <1>4, <2>1, FS_Subset
<1> HIDE DEF f
<1>6. f \in Seq(S) /\ Len(f) = n
  BY <1>1, <1>2
<1> QED
  BY <1>2, <1>5, <1>6 DEF f

(* What is in a queue.                                                     *)
LEMMA QueueRanges ==
    ASSUME NEW S, NEW s \in Seq(S)
    PROVE  /\ Range(s) \subseteq S
           /\ s # <<>> => Tail(s) \in Seq(S) /\ Head(s) \in Range(s) /\ Range(Tail(s)) \subseteq Range(s)
           /\ \A x \in S : Append(s, x) \in Seq(S) /\ Range(Append(s, x)) = Range(s) \cup {x}
           /\ \A t \in Seq(S) : s \o t \in Seq(S) /\ Range(s \o t) = Range(s) \cup Range(t)
<1>1. Range(s) \subseteq S
  BY DEF Range
<1>2. ASSUME s # <<>> PROVE Tail(s) \in Seq(S) /\ Head(s) \in Range(s) /\ Range(Tail(s)) \subseteq Range(s)
  BY <1>2 DEF Range
<1>3. ASSUME NEW x \in S PROVE Append(s, x) \in Seq(S) /\ Range(Append(s, x)) = Range(s) \cup {x}
  <2>1. /\ Append(s, x) \in Seq(S) /\ DOMAIN Append(s, x) = DOMAIN s \cup {Len(s) + 1}
        /\ \A i \in DOMAIN s : Append(s, x)[i] = s[i]
        /\ Append(s, x)[Len(s) + 1] = x
    OBVIOUS
  <2> DEFINE q == Append(s, x)
  <2> HIDE DEF q
  <2>2. Range(q) = Range(s) \cup {x}
    BY <2>1, Zenon DEF Range, q
  <2> QED
    BY <2>1, <2>2 DEF q
<1>4. ASSUME NEW t \in Seq(S) PROVE s \o t \in Seq(S) /\ Range(s \o t) = Range(s) \cup Range(t)
  <2>1. /\ s \o t \in Seq(S) /\ Len(s \o t) = Len(s) + Len(t) /\ Len(s) \in Nat /\ Len(t) \in Nat
        /\ \A i \in 1..Len(s) : (s \o t)[i] = s[i]
        /\ \A i \in 1..Len(t) : (s \o t)[Len(s) + i] = t[i]
    BY ConcatProperties
  <2>2. \A i \in 1..(Len(s) + Len(t)) : i \in 1..Len(s) \/ (i - Len(s) \in 1..Len(t) /\ i = Len(s) + (i - Len(s)))
    BY <2>1
  <2>3. DOMAIN (s \o t) = 1..(Len(s) + Len(t)) /\ DOMAIN s = 1..Len(s) /\ DOMAIN t = 1..Len(t)
    BY <2>1
  <2> DEFINE q == s \o t
  <2> HIDE DEF q
  <2>4. Range(q) \subseteq Range(s) \cup Range(t)
    BY <2>1, <2>2, <2>3 DEF Range, q
  <2>5. Range(s) \cup Range(t) \subseteq Range(q)
    <3>1. \A i \in DOMAIN s : i \in DOMAIN q /\ q[i] = s[i]
      BY <2>1, <2>3 DEF q
    <3>2. \A i \in DOMAIN t : Len(s) + i \in DOMAIN q /\ q[Len(s) + i] = t[i]
      BY <2>1, <2>3 DEF q
    <3> QED
      BY <3>1, <3>2, Zenon DEF Range
  <2> QED
    BY <2>1, <2>4, <2>5 DEF q
<1> QED
  BY <1>1, <1>2, <1>3, <1>4

(* The clients the daemon has are finitely many, and each is reported with *)
(* its totals.                                                             *)
LEMMA ClientTypes ==
    ASSUME TypeOK
    PROVE  /\ IsFiniteSet(DOMAIN client) /\ DOMAIN client \subseteq 0..(nextCid - 1) /\ DOMAIN client \subseteq Nat
           /\ client = [c \in DOMAIN client |-> client[c]]
           /\ \A c \in DOMAIN client : client[c] \in Sessions
<1>1. PICK D \in SUBSET (0..(nextCid - 1)) : client \in [D -> Sessions]
  BY DEF TypeOK
<1>2. IsFiniteSet(0..(nextCid - 1))
  <2>1. 0 \in Int /\ nextCid - 1 \in Int
    BY DEF TypeOK
  <2> QED
    BY ONLY <2>1, FS_Interval
<1>3. DOMAIN client = D
  BY <1>1
<1>4. IsFiniteSet(D)
  BY <1>2, FS_Subset
<1>5. 0..(nextCid - 1) \subseteq Nat
  BY DEF TypeOK
<1>6. client = [c \in DOMAIN client |-> client[c]] /\ \A c \in D : client[c] \in Sessions
  BY <1>1
<1> QED
  BY <1>3, <1>4, <1>5, <1>6

LEMMA ClosingTypes ==
    ASSUME TypeOK, NEW S \in SUBSET DOMAIN client
    PROVE  Closing(S) \in Seq(Disconnects)
<1> DEFINE ids == SetToSeq(S)
<1>1. ids \in Seq(S) /\ S \subseteq Nat /\ \A c \in S : client[c] \in Sessions
  <2>1. IsFiniteSet(S)
    BY ClientTypes, FS_Subset
  <2> QED
    BY <2>1, ClientTypes, SetToSeqListsAll
<1> HIDE DEF ids
<1>2. \A k \in DOMAIN ids : [type |-> "disconnect", cid |-> ids[k], cn |-> client[ids[k]].cn,
                              bytes |-> client[ids[k]].bytes] \in Disconnects
  BY <1>1 DEF Disconnects, Sessions
<1>3. Closing(S) = [k \in DOMAIN ids |-> [type |-> "disconnect", cid |-> ids[k], cn |-> client[ids[k]].cn,
                                          bytes |-> client[ids[k]].bytes]]
  BY DEF Closing, ids
<1>4. DOMAIN ids = 1..Len(ids) /\ Len(ids) \in Nat
  BY <1>1
<1> HIDE DEF Disconnects
<1> QED
  BY <1>2, <1>3, <1>4

(* The reader takes an event, or the daemon adds one that is no            *)
(* announcement or a right one.                                            *)
LEMMA QueueStep ==
    ASSUME UsersInv, toNode' \in Seq(Events),
           \A e \in Range(toNode') : e \in Range(toNode) \/ e.type # "connect" \/ Announced(e),
           UNCHANGED <<allow, kills, spared, daemon, client, nextCid, link, reader, restart>>
    PROVE  UsersInv'
<1>1. TypeOK' /\ Connected' /\ Verdict' /\ CutOff'
  BY DEF UsersInv, TypeOK, Connected, Verdict, CutOff, Heard, Covered, Authorized
<1>2. Queued'
  BY DEF UsersInv, Queued, Announced
<1> QED
  BY <1>1, <1>2 DEF UsersInv

(* Sessions end, and the rest stays.                                       *)
LEMMA GoneTypes ==
    ASSUME UsersInv, NEW S \in SUBSET DOMAIN client, client' = Without(client, S),
           toNode' \in {toNode, toNode \o Closing(S)},
           UNCHANGED <<nextCid, link>>
    PROVE  /\ DOMAIN client' = DOMAIN client \ S
           /\ \A c \in DOMAIN client' : client'[c] = client[c]
           /\ client' \in UNION {[D -> Sessions] : D \in SUBSET (0..(nextCid - 1))}
           /\ toNode' \in Seq(Events)
           /\ Queued'
<1>1. /\ DOMAIN client' = DOMAIN client \ S
      /\ \A c \in DOMAIN client' : client'[c] = client[c]
      /\ client' = [c \in DOMAIN client' |-> client'[c]]
  BY DEF Without
<1>2. client' \in UNION {[D -> Sessions] : D \in SUBSET (0..(nextCid - 1))}
  BY <1>1, ClientTypes DEF UsersInv
<1>3. toNode' \in Seq(Events) /\ \A e \in Range(toNode') : e \in Range(toNode) \/ e.type # "connect"
  <2>1. toNode \in Seq(Events) /\ Closing(S) \in Seq(Disconnects)
    BY ClosingTypes DEF UsersInv, TypeOK
  <2>2. Closing(S) \in Seq(Events) /\ Disconnects \subseteq Events /\ \A e \in Disconnects : e.type # "connect"
    <3>1. Disconnects \subseteq Events /\ \A e \in Disconnects : e.type # "connect"
      BY DEF Events, Disconnects
    <3> HIDE DEF Disconnects, Events
    <3> QED
      BY <2>1, <3>1
  <2>3. Range(Closing(S)) \subseteq Disconnects
    BY <2>1, QueueRanges
  <2>4. toNode \o Closing(S) \in Seq(Events) /\ Range(toNode \o Closing(S)) = Range(toNode) \cup Range(Closing(S))
    BY <2>1, <2>2, QueueRanges
  <2> QED
    BY <2>1, <2>2, <2>3, <2>4
<1>4. Queued'
  BY <1>1, <1>3 DEF UsersInv, Queued, Announced
<1> QED
  BY <1>1, <1>2, <1>3, <1>4

(* A sync leaves nobody uncovered: whom it takes out of the list it kills, *)
(* or spares.                                                              *)
LEMMA SyncStep ==
    ASSUME UsersInv, NEW r \in Requests, kills[r] = {}, NEW K \in SUBSET Users,
           allow' \in [Users -> Pins], kills' = [kills EXCEPT ![r] = K],
           \A u \in Users : \/ allow'[u] = allow[u] /\ (u \in spared => u \in spared')
                            \/ allow[u] = Denied /\ (u \in spared => u \in spared')
                            \/ u \in K \/ u \in spared',
           UNCHANGED <<daemon, client, nextCid, link, toNode, reader, restart>>
    PROVE  UsersInv'
<1>1. kills' \in [Requests -> SUBSET Users] /\ \A q \in Requests : kills[q] \subseteq kills'[q]
  BY DEF UsersInv, TypeOK
<1>2. K = kills'[r]
  BY DEF UsersInv, TypeOK
<1>3. \A u \in Users : \A serial : Covered(u, serial) => Covered(u, serial)'
  BY <1>1, <1>2 DEF Covered, Authorized
<1>4. TypeOK' /\ Connected' /\ Queued'
  BY <1>1 DEF UsersInv, TypeOK, Connected, Queued, Heard, Announced
<1>5. \A c \in DOMAIN client : client[c].cn \in Users
  BY ClientTypes DEF UsersInv, Sessions
<1>6. Verdict'
  BY <1>3, <1>5 DEF UsersInv, Verdict
<1>7. CutOff'
  <2>1. \A c \in DOMAIN client : client[c].st = "up" => Covered(client[c].cn, client[c].serial)
    BY DEF UsersInv, CutOff, Covered
  <2>2. \A c \in DOMAIN client' : client'[c].st = "up" => Covered(client[c].cn, client[c].serial)'
    BY <1>3, <1>5, <2>1
  <2> QED
    BY <2>2 DEF CutOff, Covered
<1> QED
  BY <1>4, <1>6, <1>7 DEF UsersInv

LEMMA ApplyUserStep ==
    ASSUME UsersInv, NEW r \in Requests, NEW u \in Users, NEW pin \in Pins, ApplyUser(r, u, pin)
    PROVE  UsersInv'
<1> DEFINE K == IF Evicted(u, pin) THEN {u} ELSE {}
<1>1. /\ kills[r] = {} /\ K \in SUBSET Users /\ kills' = [kills EXCEPT ![r] = K]
      /\ allow' \in [Users -> Pins] /\ allow' = [allow EXCEPT ![u] = pin]
      /\ UNCHANGED <<daemon, client, nextCid, link, toNode, reader, restart>>
  BY DEF ApplyUser, Idle, UsersInv, TypeOK, daemonVars, mgmtVars, lifeVars
<1>2. \A v \in Users : \/ allow'[v] = allow[v] /\ (v \in spared => v \in spared')
                       \/ allow[v] = Denied /\ (v \in spared => v \in spared')
                       \/ v \in K \/ v \in spared'
  BY <1>1 DEF ApplyUser, Evicted, UsersInv, TypeOK
<1> HIDE DEF K
<1> QED
  BY <1>1, <1>2, SyncStep

LEMMA SyncUsersStep ==
    ASSUME UsersInv, NEW r \in Requests, NEW new \in [Users -> Pins], SyncUsers(r, new)
    PROVE  UsersInv'
<1>1. /\ kills[r] = {} /\ Removed(new) \in SUBSET Users /\ kills' = [kills EXCEPT ![r] = Removed(new)]
      /\ allow' \in [Users -> Pins] /\ allow' = new
      /\ UNCHANGED <<daemon, client, nextCid, link, toNode, reader, restart>>
  BY DEF SyncUsers, Idle, Removed, daemonVars, mgmtVars, lifeVars
<1>2. \A v \in Users : \/ allow'[v] = allow[v] /\ (v \in spared => v \in spared')
                       \/ allow[v] = Denied /\ (v \in spared => v \in spared')
                       \/ v \in Removed(new) \/ v \in spared'
  BY <1>1 DEF SyncUsers, Removed, Reissued
<1> QED
  BY <1>1, <1>2, SyncStep

LEMMA KillStep ==
    ASSUME UsersInv, NEW r \in Requests, NEW u \in Users, Kill(r, u)
    PROVE  UsersInv'
<1> DEFINE S == {c \in DOMAIN client : Heard /\ client[c].cn = u}
<1>1. /\ client' = Without(client, S) /\ toNode' = toNode \o Closing(S)
      /\ kills' = [kills EXCEPT ![r] = @ \ {u}] /\ kills' \in [Requests -> SUBSET Users]
      /\ UNCHANGED <<allow, spared, daemon, nextCid, link, reader, restart>>
  BY DEF Kill, Gone, UsersInv, TypeOK, lifeVars
<1>2. S \in SUBSET DOMAIN client /\ \A c \in DOMAIN client \ S : client[c].cn # u
  BY DEF UsersInv, Connected
<1> HIDE DEF S
<1>3. /\ DOMAIN client' = DOMAIN client \ S
      /\ \A c \in DOMAIN client' : client'[c] = client[c]
      /\ toNode' \in Seq(Events) /\ Queued'
      /\ client' \in UNION {[D -> Sessions] : D \in SUBSET (0..(nextCid - 1))}
  BY <1>1, <1>2, GoneTypes
<1>4. TypeOK' /\ Connected' /\ Queued'
  BY <1>1, <1>3 DEF UsersInv, TypeOK, Connected, Heard
<1>5. \A v \in Users \ {u} : \A serial : Covered(v, serial) => Covered(v, serial)'
  <2>1. \A q \in Requests : \A v \in Users \ {u} : v \in kills[q] => v \in kills'[q]
    BY <1>1 DEF UsersInv, TypeOK
  <2> QED
    BY <1>1, <2>1 DEF Covered, Authorized
<1>6. \A c \in DOMAIN client' : c \in DOMAIN client /\ client[c].cn \in Users \ {u} /\ client'[c] = client[c]
  BY <1>2, <1>3, ClientTypes DEF UsersInv, Sessions
<1>7. Verdict'
  BY <1>1, <1>5, <1>6 DEF UsersInv, Verdict
<1>8. CutOff'
  <2>1. \A c \in DOMAIN client : client[c].st = "up" => Covered(client[c].cn, client[c].serial)
    BY DEF UsersInv, CutOff, Covered
  <2>2. \A c \in DOMAIN client' : client'[c].st = "up" => Covered(client[c].cn, client[c].serial)'
    BY <1>5, <1>6, <2>1
  <2> QED
    BY <1>6, <2>2 DEF CutOff, Covered
<1> QED
  BY <1>4, <1>7, <1>8 DEF UsersInv

LEMMA VerdictStep == ASSUME UsersInv, SendVerdict PROVE UsersInv'
<1>1. /\ reader # None /\ reader' = None /\ reader.type \in {"auth", "deny"}
      /\ UNCHANGED <<allow, kills, spared, daemon, nextCid, link, restart>>
  BY DEF SendVerdict, UsersInv, TypeOK, Verdicts, lifeVars
<1>2. Verdict'
  BY <1>1 DEF Verdict
<1>3. \A u, serial : Covered(u, serial)' <=> Covered(u, serial)
  BY <1>1 DEF Covered, Authorized
<1>4. \A c \in DOMAIN client : client[c].st = "up" => Covered(client[c].cn, client[c].serial)
  BY DEF UsersInv, CutOff, Covered
<1>5. CASE reader.type = "deny"
  <2> DEFINE S == {c \in DOMAIN client : Heard /\ c = reader.cid}
  <2>1. client' = Without(client, S) /\ toNode' = toNode \o Closing(S) /\ S \in SUBSET DOMAIN client
    BY <1>5 DEF SendVerdict, Gone
  <2> HIDE DEF S
  <2>2. /\ DOMAIN client' = DOMAIN client \ S
        /\ \A c \in DOMAIN client' : client'[c] = client[c]
        /\ toNode' \in Seq(Events) /\ Queued'
        /\ client' \in UNION {[D -> Sessions] : D \in SUBSET (0..(nextCid - 1))}
    BY <1>1, <2>1, GoneTypes
  <2>3. TypeOK' /\ Connected'
    BY <1>1, <2>2 DEF UsersInv, TypeOK, Connected, Heard
  <2>4. CutOff'
    BY <1>3, <1>4, <2>2 DEF CutOff, Covered
  <2> QED
    BY <1>2, <2>2, <2>3, <2>4 DEF UsersInv
<1>6. CASE reader.type = "auth"
  <2>1. /\ toNode' = toNode
        /\ client' = client \/ client' = Admitted(reader.cid)
    BY <1>6 DEF SendVerdict
  <2>2. CASE client' = client
    BY <1>1, <1>2, <2>1, <2>2 DEF UsersInv, TypeOK, Connected, Queued, CutOff, Heard, Announced, Authorized
  <2>3. CASE client' = Admitted(reader.cid)
    <3>1. /\ DOMAIN client' = DOMAIN client
          /\ client' = [c \in DOMAIN client' |-> client'[c]]
          /\ \A c \in DOMAIN client :
                /\ client'[c].cn = client[c].cn /\ client'[c].serial = client[c].serial
                /\ client'[c] \in Sessions
                /\ c # reader.cid => client'[c] = client[c]
      <4>1. \A c \in DOMAIN client : client[c] \in Sessions
        BY ClientTypes DEF UsersInv
      <4>2. \A c \in DOMAIN client : [client[c] EXCEPT !.st = "up"] \in Sessions
                /\ [client[c] EXCEPT !.st = "up"].cn = client[c].cn
                /\ [client[c] EXCEPT !.st = "up"].serial = client[c].serial
        BY <4>1 DEF Sessions
      <4> QED
        BY <2>3, <4>1, <4>2 DEF Admitted
    <3>2. TypeOK'
      <4>1. client' \in UNION {[D -> Sessions] : D \in SUBSET (0..(nextCid - 1))}
        BY <3>1, ClientTypes DEF UsersInv
      <4> QED
        BY <1>1, <2>1, <4>1 DEF UsersInv, TypeOK
    <3>3. Connected' /\ Queued'
      BY <1>1, <2>1, <3>1 DEF UsersInv, Connected, Queued, Heard, Announced
    <3>4. CutOff'
      <4>1. reader.cid \in DOMAIN client => Covered(client[reader.cid].cn, client[reader.cid].serial)
        BY <1>1, <1>6 DEF UsersInv, Verdict
      <4>2. \A c \in DOMAIN client' : client'[c].st = "up" => Covered(client[c].cn, client[c].serial)
        BY <1>4, <3>1, <4>1
      <4> QED
        BY <1>3, <3>1, <4>2 DEF CutOff, Covered
    <3> QED
      BY <1>2, <3>2, <3>3, <3>4 DEF UsersInv
  <2> QED
    BY <2>1, <2>2, <2>3
<1> QED
  BY <1>1, <1>5, <1>6

LEMMA ReaderStep ==
    ASSUME UsersInv, FinishConnect \/ FinishDisconnect \/ PublishStatus
    PROVE  UsersInv'
<1>1. /\ toNode \in Seq(Events) /\ toNode # <<>> /\ toNode' = Tail(toNode)
      /\ UNCHANGED <<allow, kills, spared, daemon, client, nextCid, link, restart>>
  BY DEF FinishConnect, FinishDisconnect, PublishStatus, Event, UsersInv, TypeOK, daemonVars, lifeVars
<1>2. toNode' \in Seq(Events) /\ Range(toNode') \subseteq Range(toNode) /\ Head(toNode) \in Range(toNode)
  BY <1>1, QueueRanges
<1>3. CASE FinishDisconnect \/ PublishStatus
  <2>1. reader' = reader
    BY <1>3 DEF FinishDisconnect, PublishStatus
  <2> QED
    BY <1>1, <1>2, <2>1, QueueStep
<1>4. CASE FinishConnect
  <2> DEFINE e == Head(toNode)
  <2>1. e \in Range(toNode) /\ e.type = "connect" /\ e \in Events
    BY <1>1, <1>2, <1>4, QueueRanges DEF FinishConnect, Event
  <2>2. e \in Connects /\ Announced(e)
    BY <2>1 DEF UsersInv, Queued, Events, Disconnects, Statuses
  <2>3. reader' = [type |-> IF Authorized(e.cn, e.serial) THEN "auth" ELSE "deny", cid |-> e.cid]
    BY <1>4 DEF FinishConnect
  <2> HIDE DEF e
  <2>4. reader' \in Verdicts
    BY <2>2, <2>3 DEF Verdicts, Connects
  <2>5. TypeOK' /\ Connected' /\ Queued' /\ CutOff'
    BY <1>1, <1>2, <2>4 DEF UsersInv, TypeOK, Connected, Queued, CutOff, Heard, Announced, Authorized
  <2>6. Verdict'
    BY <1>1, <2>2, <2>3 DEF Verdict, Announced, Covered, Authorized
  <2> QED
    BY <2>5, <2>6 DEF UsersInv
<1> QED
  BY <1>3, <1>4

LEMMA RowsTypes ==
    ASSUME TypeOK
    PROVE  Rows \in RowMaps /\ [type |-> "status", rows |-> Rows] \in Events
<1> DEFINE up == {c \in DOMAIN client : client[c].st = "up"}
<1>1. up \in SUBSET Nat /\ \A c \in up : client[c] \in Sessions
  BY ClientTypes
<1>2. Rows \in [up -> Row]
  BY <1>1 DEF Rows, Sessions, Row
<1> HIDE DEF up
<1>3. Rows \in RowMaps
  BY <1>1, <1>2 DEF RowMaps
<1> QED
  BY <1>3 DEF Events, Statuses

LEMMA AskStep ==
    ASSUME UsersInv, RequestStatus \/ \E c \in Cids : ClientReauths(c)
    PROVE  UsersInv'
<1>1. /\ toNode \in Seq(Events)
      /\ UNCHANGED <<allow, kills, spared, daemon, client, nextCid, link, reader, restart>>
  BY DEF RequestStatus, ClientReauths, Free, UsersInv, TypeOK, daemonVars, lifeVars
<1>2. ASSUME NEW e \in Events, toNode' = Append(toNode, e), e.type # "connect" \/ Announced(e)
      PROVE  UsersInv'
  <2>1. toNode' \in Seq(Events) /\ Range(toNode') = Range(toNode) \cup {e}
    BY <1>1, <1>2, QueueRanges
  <2> QED
    BY <1>1, <1>2, <2>1, QueueStep
<1>3. CASE RequestStatus
  <2> DEFINE e == [type |-> "status", rows |-> Rows]
  <2>1. e \in Events /\ e.type # "connect" /\ toNode' \in {toNode, Append(toNode, e)}
    BY <1>3, RowsTypes DEF RequestStatus, UsersInv
  <2> HIDE DEF e
  <2>2. toNode' = toNode => UsersInv'
    BY <1>1, QueueStep
  <2> QED
    BY <1>2, <2>1, <2>2
<1>4. ASSUME NEW c \in Cids, ClientReauths(c) PROVE UsersInv'
  <2> DEFINE e == [type |-> "connect", cid |-> c, cn |-> client[c].cn, serial |-> client[c].serial]
  <2>1. c \in DOMAIN client /\ toNode' = Append(toNode, e)
    BY <1>4 DEF ClientReauths
  <2>2. client[c] \in Sessions /\ c \in 0..(nextCid - 1) /\ nextCid \in Nat
    BY <2>1, ClientTypes DEF UsersInv, TypeOK
  <2>3. e \in Connects /\ Announced(e)
    BY <2>2 DEF Connects, Sessions, Announced
  <2>4. e \in Events
    BY <2>3 DEF Events
  <2> HIDE DEF e
  <2> QED
    BY <1>2, <2>1, <2>3, <2>4
<1> QED
  BY <1>3, <1>4

LEMMA ConnectStep ==
    ASSUME UsersInv, NEW u \in Users, NEW serial \in Certs, ClientConnects(u, serial)
    PROVE  UsersInv'
<1> DEFINE e == [type |-> "connect", cid |-> nextCid, cn |-> u, serial |-> serial]
           s == [cn |-> u, serial |-> serial, st |-> "pending", bytes |-> 0]
<1>1. /\ link /\ daemon = "up" /\ nextCid \in Nat /\ nextCid' = nextCid + 1
      /\ client' = With(client, nextCid, s) /\ toNode' = Append(toNode, e)
      /\ UNCHANGED <<allow, kills, spared, daemon, link, reader, restart>>
  BY DEF ClientConnects, Free, UsersInv, TypeOK, lifeVars
<1>2. s \in Sessions /\ s.cn = u /\ s.serial = serial /\ s.st = "pending"
  BY DEF Sessions
<1>3. e \in Events /\ e.type = "connect" /\ e.cid = nextCid /\ e.cn = u /\ e.serial = serial
  BY <1>1 DEF Events, Connects
<1> HIDE DEF e, s
<1>4. /\ DOMAIN client' = DOMAIN client \cup {nextCid} /\ nextCid \notin DOMAIN client
      /\ client'[nextCid] = s /\ \A c \in DOMAIN client : client'[c] = client[c]
      /\ client' = [c \in DOMAIN client' |-> client'[c]]
  <2>1. nextCid \notin DOMAIN client
    BY <1>1, ClientTypes DEF UsersInv
  <2> QED
    BY <1>1, <2>1 DEF With
<1>5. toNode' \in Seq(Events) /\ Range(toNode') = Range(toNode) \cup {e}
  BY <1>1, <1>3, QueueRanges DEF UsersInv, TypeOK
<1>6. TypeOK'
  <2>1. DOMAIN client' \in SUBSET (0..(nextCid' - 1)) /\ \A c \in DOMAIN client' : client'[c] \in Sessions
    BY <1>1, <1>2, <1>4, ClientTypes DEF UsersInv
  <2>2. client' \in UNION {[D -> Sessions] : D \in SUBSET (0..(nextCid' - 1))}
    BY <1>4, <2>1
  <2> QED
    BY <1>1, <1>5, <2>2 DEF UsersInv, TypeOK
<1>7. Connected'
  BY <1>1 DEF UsersInv, Connected, Heard
<1>8. Queued'
  <2>1. /\ e.cid < nextCid'
        /\ client'[e.cid].cn = e.cn /\ client'[e.cid].serial = e.serial
    BY <1>1, <1>2, <1>3, <1>4
  <2>2. ASSUME NEW f \in Range(toNode), f.type = "connect" PROVE Announced(f)'
    <3>1. f \in Events
      BY QueueRanges DEF UsersInv, TypeOK
    <3>2. f.cid \in Nat
      BY <2>2, <3>1 DEF Events, Connects, Disconnects, Statuses
    <3>3. Announced(f)
      BY <2>2 DEF UsersInv, Queued
    <3> QED
      BY <1>1, <1>4, <3>2, <3>3 DEF Announced
  <2> QED
    BY <1>5, <2>1, <2>2 DEF Queued, Announced
<1>9. \A v, n : Covered(v, n)' <=> Covered(v, n)
  BY <1>1 DEF Covered, Authorized
<1>10. Verdict'
  <2>1. reader # None => reader.cid \in Nat /\ reader.cid < nextCid
    BY <1>1 DEF UsersInv, Verdict, TypeOK, Verdicts
  <2> QED
    BY <1>1, <1>4, <1>9, <2>1 DEF UsersInv, Verdict
<1>11. CutOff'
  BY <1>1, <1>2, <1>4 DEF UsersInv, CutOff, Authorized
<1> QED
  BY <1>6, <1>7, <1>8, <1>10, <1>11 DEF UsersInv

LEMMA MoveStep == ASSUME UsersInv, NEW k \in Cids, ClientMoves(k) PROVE UsersInv'
<1>1. /\ k \in DOMAIN client /\ client' = [client EXCEPT ![k].bytes = client[k].bytes + 1]
      /\ UNCHANGED <<allow, kills, spared, daemon, nextCid, link, toNode, reader, restart>>
  BY DEF ClientMoves, Free, mgmtVars, lifeVars
<1>2. \A c \in DOMAIN client : client[c] \in Sessions
  BY ClientTypes DEF UsersInv
<1>3. /\ DOMAIN client' = DOMAIN client /\ client' = [c \in DOMAIN client' |-> client'[c]]
      /\ \A c \in DOMAIN client :
            /\ client'[c] \in Sessions
            /\ client'[c].cn = client[c].cn /\ client'[c].serial = client[c].serial
            /\ client'[c].st = client[c].st
  <2> DEFINE s == [client[k] EXCEPT !.bytes = client[k].bytes + 1]
  <2>1. s \in Sessions /\ s.cn = client[k].cn /\ s.serial = client[k].serial /\ s.st = client[k].st
    BY <1>1, <1>2 DEF Sessions
  <2>2. client' = [client EXCEPT ![k] = s]
    BY <1>1
  <2> HIDE DEF s
  <2> QED
    BY <1>1, <1>2, <2>1, <2>2, ClientTypes DEF UsersInv
<1>4. TypeOK'
  <2>1. client' \in UNION {[D -> Sessions] : D \in SUBSET (0..(nextCid - 1))}
    BY <1>3, ClientTypes DEF UsersInv
  <2> QED
    BY <1>1, <2>1 DEF UsersInv, TypeOK
<1>5. Connected' /\ Queued' /\ Verdict' /\ CutOff'
  BY <1>1, <1>3 DEF UsersInv, Connected, Queued, Verdict, CutOff, Heard, Announced, Covered, Authorized
<1> QED
  BY <1>4, <1>5 DEF UsersInv

LEMMA LeaveStep == ASSUME UsersInv, NEW k \in Cids, ClientLeaves(k) PROVE UsersInv'
<1>1. /\ {k} \in SUBSET DOMAIN client
      /\ client' = Without(client, {k}) /\ toNode' = toNode \o Closing({k})
      /\ UNCHANGED <<allow, kills, spared, daemon, nextCid, link, reader, restart>>
  BY DEF ClientLeaves, Gone, Free, lifeVars
<1>2. /\ DOMAIN client' = DOMAIN client \ {k}
      /\ \A c \in DOMAIN client' : client'[c] = client[c]
      /\ toNode' \in Seq(Events) /\ Queued'
      /\ client' \in UNION {[D -> Sessions] : D \in SUBSET (0..(nextCid - 1))}
  BY <1>1, GoneTypes
<1>3. TypeOK' /\ Connected' /\ Verdict' /\ CutOff'
  BY <1>1, <1>2 DEF UsersInv, TypeOK, Connected, Verdict, CutOff, Heard, Covered, Authorized
<1> QED
  BY <1>2, <1>3 DEF UsersInv

(* With the daemon go its clients.                                         *)
LEMMA EmptyStep ==
    ASSUME UsersInv, allow' \in [Users -> Pins], daemon' \in {"up", "down"}, nextCid' \in Nat,
           client' = NoClients, link' \in BOOLEAN, toNode' \in Seq(Events),
           reader' \in {reader, None}, kills' \in [Requests -> SUBSET Users],
           link' => nextCid' = nextCid /\ link,
           Range(toNode') \subseteq Range(toNode) \cup Disconnects,
           restart' = "start" => daemon' = "down", restart' = "connect" => ~link'
    PROVE  UsersInv'
<1>1. DOMAIN client' = {} /\ client' \in [{} -> Sessions]
  BY DEF NoClients
<1>2. TypeOK'
  <2>1. client' \in UNION {[D -> Sessions] : D \in SUBSET (0..(nextCid' - 1))}
    BY <1>1
  <2> QED
    BY <2>1 DEF UsersInv, TypeOK
<1>3. Connected' /\ Verdict' /\ CutOff'
  BY <1>1 DEF UsersInv, Connected, Verdict, CutOff
<1>4. Queued'
  BY <1>1 DEF UsersInv, Queued, Announced, Disconnects
<1> QED
  BY <1>2, <1>3, <1>4 DEF UsersInv

LEMMA EndStep ==
    ASSUME UsersInv, Crash \/ \E reports \in BOOLEAN : StopProcess(reports)
    PROVE  UsersInv'
<1>1. /\ daemon' = "down" /\ client' = NoClients
      /\ toNode' \in {toNode, toNode \o Closing(DOMAIN client)}
      /\ UNCHANGED <<allow, kills, nextCid, link, reader>>
      /\ restart' = "start" \/ restart' = restart
  BY DEF Crash, StopProcess, DaemonEnds, Free, lifeVars
<1>2. Closing(DOMAIN client) \in Seq(Disconnects) /\ toNode \in Seq(Events)
  BY ClosingTypes DEF UsersInv, TypeOK
<1>3. Closing(DOMAIN client) \in Seq(Events) /\ Range(Closing(DOMAIN client)) \subseteq Disconnects
  <2>1. Disconnects \subseteq Events
    BY DEF Events
  <2>2. Range(Closing(DOMAIN client)) \subseteq Disconnects
    BY <1>2, QueueRanges
  <2> HIDE DEF Disconnects, Events
  <2> QED
    BY <1>2, <2>1, <2>2
<1>4. toNode' \in Seq(Events) /\ Range(toNode') \subseteq Range(toNode) \cup Disconnects
  <2> DEFINE t == Closing(DOMAIN client)
  <2> HIDE DEF t
  <2>1. toNode \o t \in Seq(Events) /\ Range(toNode \o t) = Range(toNode) \cup Range(t)
    BY <1>2, <1>3, QueueRanges DEF t
  <2> QED
    BY <1>1, <1>2, <1>3, <2>1 DEF t
<1>5. restart' = "connect" => ~link'
  BY <1>1 DEF UsersInv, Connected
<1>6. /\ allow' \in [Users -> Pins] /\ nextCid' \in Nat /\ link' \in BOOLEAN
      /\ kills' \in [Requests -> SUBSET Users]
  BY <1>1 DEF UsersInv, TypeOK
<1> QED
  BY <1>1, <1>4, <1>5, <1>6, EmptyStep

LEMMA RestartStep ==
    ASSUME UsersInv,
           \/ \E new \in [Users -> Pins] : UpdateUsersAndRestart(new)
           \/ \E ok \in BOOLEAN : StartProcess(ok) \/ Reconnect(ok)
           \/ Shutdown \/ Collect
    PROVE  UsersInv'
<1>1. ASSUME NEW new \in [Users -> Pins], UpdateUsersAndRestart(new) PROVE UsersInv'
  <2>1. /\ allow' = new /\ restart' = "stop"
        /\ UNCHANGED <<kills, daemon, client, nextCid, link, toNode, reader>>
    BY <1>1 DEF UpdateUsersAndRestart, daemonVars, mgmtVars
  <2>2. TypeOK' /\ Connected' /\ Queued'
    BY <2>1 DEF UsersInv, TypeOK, Connected, Queued, Heard, Announced
  <2>3. Verdict' /\ CutOff'
    BY <2>1 DEF UsersInv, Verdict, Covered, CutOff
  <2> QED
    BY <2>2, <2>3 DEF UsersInv
<1> DEFINE Types == /\ allow' \in [Users -> Pins] /\ daemon' \in {"up", "down"}
                    /\ nextCid' \in Nat /\ kills' \in [Requests -> SUBSET Users]
<1>2. DOMAIN client = {} => client = NoClients
  BY ClientTypes DEF UsersInv, NoClients
<1>3. toNode \in Seq(Events) /\ <<>> \in Seq(Events) /\ Range(<<>>) = {}
  BY DEF UsersInv, TypeOK, Range
<1>4. ASSUME NEW ok \in BOOLEAN, StartProcess(ok) PROVE UsersInv'
  <2>1. /\ client' = NoClients /\ link' = FALSE /\ toNode' = toNode /\ reader' = reader
        /\ restart' \in {"connect", "no"}
    BY <1>2, <1>4 DEF StartProcess, UsersInv, Connected, Heard
  <2>2. Types
    BY <1>4 DEF StartProcess, UsersInv, TypeOK
  <2> QED
    BY <1>3, <2>1, <2>2, EmptyStep
<1>5. ASSUME NEW ok \in BOOLEAN, Reconnect(ok) PROVE UsersInv'
  <2>1. /\ DOMAIN client = {} /\ client' = client /\ toNode' = <<>> /\ reader' = None
        /\ restart' = "no" /\ link' \in BOOLEAN
        /\ UNCHANGED <<allow, kills, daemon, nextCid, spared>>
    BY <1>5 DEF Reconnect, UsersInv, Connected, Heard, daemonVars
  <2>2. TypeOK'
    BY <1>3, <2>1 DEF UsersInv, TypeOK
  <2>3. Connected' /\ Queued' /\ Verdict' /\ CutOff'
    BY <1>3, <2>1 DEF Connected, Queued, Verdict, CutOff
  <2> QED
    BY <2>2, <2>3 DEF UsersInv
<1>6. CASE Shutdown
  <2>1. /\ client' = NoClients /\ link' = FALSE /\ toNode' = <<>> /\ reader' = None
        /\ restart' = "no"
    BY <1>6 DEF Shutdown
  <2>2. Types
    BY <1>6 DEF Shutdown, UsersInv, TypeOK
  <2> QED
    BY <1>3, <2>1, <2>2, EmptyStep
<1>7. CASE Collect
  <2>1. UNCHANGED <<allow, kills, spared, daemon, client, nextCid, link, toNode, reader, restart>>
    BY <1>7 DEF Collect, daemonVars, lifeVars
  <2> QED
    BY <1>3, <2>1, QueueStep
<1> QED
  BY <1>1, <1>4, <1>5, <1>6, <1>7

LEMMA UsersInit == Init => UsersInv
<1> SUFFICES ASSUME Init PROVE UsersInv
  OBVIOUS
<1>1. DOMAIN client = {} /\ client \in [{} -> Sessions] /\ toNode = <<>> /\ reader = None /\ restart = "no"
  BY DEF Init, NoClients
<1>2. TypeOK
  <2>1. client \in UNION {[D -> Sessions] : D \in SUBSET (0..(nextCid - 1))}
    BY <1>1
  <2> QED
    BY <2>1 DEF Init, TypeOK
<1>3. Connected /\ Queued /\ Verdict /\ CutOff
  BY <1>1 DEF Connected, Queued, Verdict, CutOff, Range
<1> QED
  BY <1>2, <1>3 DEF UsersInv

LEMMA UsersStep == UsersInv /\ [Next]_vars => UsersInv'
<1> SUFFICES ASSUME UsersInv, [Next]_vars PROVE UsersInv'
  OBVIOUS
<1>1. CASE UNCHANGED vars
  <2>1. UNCHANGED <<allow, kills, spared, daemon, client, nextCid, link, toNode, reader, restart>>
    BY <1>1 DEF vars, daemonVars, mgmtVars, lifeVars
  <2> QED
    BY <2>1, QueueStep DEF UsersInv, TypeOK
<1> QED
  BY <1>1, ApplyUserStep, SyncUsersStep, KillStep, VerdictStep, ReaderStep, AskStep, ConnectStep,
     MoveStep, LeaveStep, EndStep, RestartStep DEF Next

(***************************************************************************)
(* CutOff: a client that is up and not authorized by the allow-list is one *)
(* a sync is yet to kill or that the coming stop of the daemon ends, in    *)
(* whatever order ApplyUser, SyncUsers, the verdicts of handleConnect and  *)
(* restarts come; only a serial changed by a full sync is excepted.        *)
(***************************************************************************)
THEOREM OpenVPNCutsOff == Spec => []CutOff
<1>1. UsersInv => CutOff
  BY DEF UsersInv
<1> QED
  BY <1>1, UsersInit, UsersStep, PTL DEF Spec
-----------------------------------------------------------------------------
(***************************************************************************)
(* OpenVPN: what is counted.                                               *)
(***************************************************************************)
(* The snapshots the node has or will get: the last one it has read, and   *)
(* those among the events unread, by their position.                       *)
Views == {k \in 0..Len(toNode) : k > 0 => toNode[k].type = "status"}
View(k) == IF k = 0 THEN lastStatus ELSE toNode[k].rows
UnreadCids == {toNode[k].cid : k \in Unread}

(* I lists user and total of every session that is not settled: of the     *)
(* daemon's clients, of those whose end is unread, and of those whose end  *)
(* is read. No id has two of them.                                         *)
Total(x) == [cn |-> x.cn, bytes |-> x.bytes]
Tells(I) ==
    /\ DOMAIN I = Open
    /\ \A c \in DOMAIN client : I[c] = Total(client[c]) /\ c \notin UnreadCids \cup EndedCids
    /\ \A k \in Unread : I[toNode[k].cid] = Total(toNode[k]) /\ toNode[k].cid \notin EndedCids
    /\ \A k \in DOMAIN ended : I[ended[k].cid] = Total(ended[k])
    /\ \A j, k \in Unread : toNode[j].cid = toNode[k].cid => j = k
    /\ \A j, k \in DOMAIN ended : ended[j].cid = ended[k].cid => j = k

(* The next id is new to what the connection has brought.                  *)
Fresh == link =>
    /\ \A k \in Unread : toNode[k].cid < nextCid
    /\ \A k \in Views : \A c \in DOMAIN View(k) : c < nextCid

(* A snapshot lists clients that were admitted, with no more than they     *)
(* have now.                                                               *)
Listed(I) == \A k \in Views : \A c \in DOMAIN View(k) :
    /\ c \in DOMAIN client => client[c].st = "up"
    /\ c \in DOMAIN I => View(k)[c].cn = I[c].cn /\ View(k)[c].bytes <= I[c].bytes

(* A later snapshot shows no less, and lists every client an earlier one   *)
(* lists that has not ended before it.                                     *)
Chain == \A j, k \in Views : j < k => \A c \in DOMAIN View(j) :
    /\ c \in DOMAIN View(k) => View(j)[c].bytes <= View(k)[c].bytes
    /\ c \in DOMAIN client \/ (\E m \in Unread : m > k /\ toNode[m].cid = c) => c \in DOMAIN View(k)

(* A base is no more than any snapshot or total still to come, and the     *)
(* last snapshot lists its session unless that has ended.                  *)
Bases(I) == \A c \in DOMAIN seen :
    /\ \A k \in Views : c \in DOMAIN View(k) => seen[c] <= View(k)[c].bytes
    /\ c \in DOMAIN I => seen[c] <= I[c].bytes
    /\ c \in DOMAIN client \cup UnreadCids => c \in DOMAIN lastStatus

(* A late poll finds no session of the new connection in its snapshot.     *)
Late(I) ==
    IF poll = "late"
    THEN /\ Views = {0} /\ lastStatus = NoClients
         /\ \A c \in DOMAIN snap :
              /\ c \notin DOMAIN client \cup UnreadCids
              /\ c \in DOMAIN I => snap[c].cn = I[c].cn /\ snap[c].bytes <= I[c].bytes
              /\ c \in DOMAIN seen => seen[c] <= snap[c].bytes
    ELSE snap = NoClients

(* What is still to be counted, session by session.                        *)
BaseOf(B, c) == IF c \in DOMAIN B THEN B[c] ELSE 0
Dues(I, B, u) == [c \in DOMAIN I |-> IF I[c].cn = u THEN I[c].bytes - BaseOf(B, c) ELSE 0]
Balanced(I) == \A u \in Users : cum[u] + SumFunction(Dues(I, seen, u)) = owed[u]

NatMaps == UNION {[D -> Nat] : D \in SUBSET Nat}
BookTypes ==
    /\ seen \in NatMaps /\ ended \in Seq(Disconnects) /\ lastStatus \in RowMaps /\ snap \in RowMaps
    /\ cum \in [Users -> Int] /\ owed \in [Users -> Int]
Books(I) ==
    /\ I \in RowMaps /\ IsFiniteSet(DOMAIN I)
    /\ Tells(I) /\ Fresh /\ Listed(I) /\ Chain /\ Bases(I) /\ Late(I) /\ Balanced(I)
Normal == life = "running" /\ ~disturbed
BooksInv == Normal => BookTypes /\ \E I : Books(I)

LEMMA MapTypes ==
    ASSUME NEW f
    PROVE  /\ f \in RowMaps => /\ DOMAIN f \subseteq Nat /\ f = [c \in DOMAIN f |-> f[c]]
                               /\ \A c \in DOMAIN f : f[c].cn \in Users /\ f[c].bytes \in Nat /\ f[c] = Total(f[c])
           /\ f \in NatMaps => DOMAIN f \subseteq Nat /\ \A c \in DOMAIN f : f[c] \in Nat
<1>1. ASSUME f \in RowMaps
      PROVE  /\ DOMAIN f \subseteq Nat /\ f = [c \in DOMAIN f |-> f[c]]
             /\ \A c \in DOMAIN f : f[c].cn \in Users /\ f[c].bytes \in Nat /\ f[c] = Total(f[c])
  <2>1. PICK D \in SUBSET Nat : f \in [D -> Row]
    BY <1>1 DEF RowMaps
  <2>2. DOMAIN f = D /\ f = [c \in DOMAIN f |-> f[c]] /\ \A c \in D : f[c] \in Row
    BY <2>1
  <2>3. \A x \in Row : x.cn \in Users /\ x.bytes \in Nat /\ x = Total(x)
    BY DEF Row, Total
  <2> QED
    BY <2>2, <2>3
<1>2. ASSUME f \in NatMaps PROVE DOMAIN f \subseteq Nat /\ \A c \in DOMAIN f : f[c] \in Nat
  BY <1>2 DEF NatMaps
<1> QED
  BY <1>1, <1>2

LEMMA MakeMap ==
    ASSUME NEW f, f = [c \in DOMAIN f |-> f[c]], DOMAIN f \subseteq Nat,
           \A c \in DOMAIN f : f[c] \in Row
    PROVE  f \in RowMaps
BY DEF RowMaps

LEMMA TotalTypes ==
    ASSUME NEW x, x.cn \in Users, x.bytes \in Nat
    PROVE  Total(x) \in Row /\ Total(x).cn = x.cn /\ Total(x).bytes = x.bytes
BY DEF Total, Row

LEMMA EventTypes ==
    ASSUME NEW e \in Events
    PROVE  /\ e.type \in {"connect", "disconnect", "status"}
           /\ e.type = "disconnect" => e \in Disconnects
           /\ e.type = "status" => e.rows \in RowMaps
           /\ e.type = "connect" => e \in Connects
BY DEF Events, Connects, Disconnects, Statuses

LEMMA QueueTypes ==
    ASSUME TypeOK, BookTypes
    PROVE  /\ Len(toNode) \in Nat /\ DOMAIN toNode = 1..Len(toNode)
           /\ \A k \in 1..Len(toNode) : toNode[k] \in Events
           /\ Unread \subseteq 1..Len(toNode)
           /\ \A k \in Unread : toNode[k].cid \in Nat /\ toNode[k].cn \in Users /\ toNode[k].bytes \in Nat
           /\ \A k \in DOMAIN ended : ended[k].cid \in Nat /\ ended[k].cn \in Users /\ ended[k].bytes \in Nat
           /\ Len(ended) \in Nat /\ DOMAIN ended = 1..Len(ended)
           /\ \A k \in Views : k \in Nat /\ View(k) \in RowMaps
<1>1. toNode \in Seq(Events)
  BY DEF TypeOK
<1>2. /\ Len(toNode) \in Nat /\ DOMAIN toNode = 1..Len(toNode)
      /\ \A k \in 1..Len(toNode) : toNode[k] \in Events
  BY <1>1
<1>3. \A k \in Unread : k \in 1..Len(toNode) /\ toNode[k] \in Disconnects
  BY <1>2, EventTypes DEF Unread
<1>4. \A x \in Disconnects : x.cid \in Nat /\ x.cn \in Users /\ x.bytes \in Nat
  BY DEF Disconnects
<1>5. \A k \in Views : k \in Nat /\ View(k) \in RowMaps
  BY <1>2, EventTypes DEF Views, View, BookTypes
<1>6. Len(ended) \in Nat /\ DOMAIN ended = 1..Len(ended) /\ \A k \in DOMAIN ended : ended[k] \in Disconnects
  BY DEF BookTypes
<1> QED
  BY <1>2, <1>3, <1>4, <1>5, <1>6

(* A step that leaves the books, the queue and the clients' counters alone. *)
LEMMA QuietBooks ==
    ASSUME NEW I, Books(I), BookTypes,
           DOMAIN client' = DOMAIN client,
           \A c \in DOMAIN client : /\ client'[c].cn = client[c].cn /\ client'[c].bytes = client[c].bytes
                                    /\ client[c].st = "up" => client'[c].st = "up",
           link' => link /\ nextCid' = nextCid,
           poll' = "late" <=> poll = "late",
           UNCHANGED <<toNode, lastStatus, seen, ended, snap, cum, owed>>
    PROVE  BookTypes' /\ Books(I)'
<1>1. /\ Unread' = Unread /\ UnreadCids' = UnreadCids /\ EndedCids' = EndedCids
      /\ Views' = Views /\ \A k : View(k)' = View(k)
  BY DEF Unread, UnreadCids, EndedCids, Views, View
<1>2. Tells(I)'
  <2>1. \A c \in DOMAIN client : Total(client'[c]) = Total(client[c])
    BY DEF Total
  <2>2. Open' = Open
    BY <1>1 DEF Open, UnreadCids
  <2> QED
    BY <1>1, <2>1, <2>2 DEF Books, Tells
<1>3. Fresh' /\ Chain'
  BY <1>1 DEF Books, Fresh, Chain
<1>4. Listed(I)' /\ Bases(I)' /\ Late(I)'
  BY <1>1 DEF Books, Listed, Bases, Late
<1>5. BookTypes' /\ Balanced(I)'
  BY DEF BookTypes, Books, Balanced
<1> QED
  BY <1>2, <1>3, <1>4, <1>5 DEF Books

LEMMA RowsFacts ==
    ASSUME TypeOK
    PROVE  /\ DOMAIN Rows = {c \in DOMAIN client : client[c].st = "up"}
           /\ \A c \in DOMAIN Rows : Rows[c].cn = client[c].cn /\ Rows[c].bytes = client[c].bytes
BY DEF Rows

(* An announcement, or a snapshot of the clients as they are, is queued.   *)
LEMMA AppendBooks ==
    ASSUME NEW I, Books(I), BookTypes, TypeOK, NEW e \in Events,
           e.type = "connect" \/ (e.type = "status" /\ e.rows = Rows /\ poll # "late"),
           toNode' = Append(toNode, e), poll' = "late" <=> poll = "late",
           UNCHANGED <<client, link, nextCid, lastStatus, seen, ended, snap, cum, owed>>
    PROVE  BookTypes' /\ Books(I)'
<1> DEFINE n == Len(toNode)
<1>0. /\ n \in Nat /\ Unread \subseteq 1..n /\ toNode \in Seq(Events)
      /\ \A k \in Views : k \in Nat /\ View(k) \in RowMaps
  BY QueueTypes DEF TypeOK
<1>1. Len(toNode') = n + 1 /\ toNode'[n + 1] = e /\ DOMAIN toNode' = 1..(n + 1) /\ \A k \in 1..n : toNode'[k] = toNode[k]
  BY <1>0
<1> HIDE DEF n
<1>2. /\ Unread' = Unread /\ UnreadCids' = UnreadCids /\ EndedCids' = EndedCids
      /\ \A k \in Unread : toNode'[k] = toNode[k] /\ k <= n
  <2>1. DOMAIN toNode = 1..n
    BY <1>0 DEF n
  <2>2. Unread' = Unread
    BY <1>0, <1>1, <2>1 DEF Unread
  <2>3. \A k \in Unread : toNode'[k] = toNode[k] /\ k <= n
    BY <1>0, <1>1
  <2> QED
    BY <2>2, <2>3 DEF UnreadCids, EndedCids
<1>3. /\ \A k \in Views : k <= n /\ View(k)' = View(k)
      /\ \A k \in Views' : k \in Views \/ (k = n + 1 /\ e.type = "status" /\ View(k)' = Rows)
      /\ Views \subseteq Views'
  BY <1>0, <1>1 DEF Views, View, n
<1>4. Tells(I)'
  <2>2. Open' = Open
    BY <1>2 DEF Open, UnreadCids
  <2>3. \A k \in Unread' : toNode'[k] = toNode[k] /\ k \in Unread
    BY <1>2
  <2>4. Tells(I)
    BY DEF Books
  <2>5. DOMAIN I = Open' /\ \A c \in DOMAIN client' : I[c] = Total(client'[c]) /\ c \notin UnreadCids' \cup EndedCids'
    BY <1>2, <2>2, <2>4 DEF Tells
  <2>6. \A k \in Unread' : I[toNode'[k].cid] = Total(toNode'[k]) /\ toNode'[k].cid \notin EndedCids'
    BY <1>2, <2>3, <2>4 DEF Tells
  <2>7. \A j, k \in Unread' : toNode'[j].cid = toNode'[k].cid => j = k
    <3>1. \A j, k \in Unread : toNode[j].cid = toNode[k].cid => j = k
      BY ONLY <2>4 DEF Tells
    <3> QED
      BY ONLY <2>3, <3>1
  <2>8. \A k \in DOMAIN ended' : I[ended'[k].cid] = Total(ended'[k])
    BY <2>4 DEF Tells
  <2>9. \A j, k \in DOMAIN ended' : ended'[j].cid = ended'[k].cid => j = k
    BY <2>4 DEF Tells
  <2> QED
    BY <2>5, <2>6, <2>7, <2>8, <2>9 DEF Tells
<1>5. /\ DOMAIN Rows \subseteq DOMAIN client
      /\ \A c \in DOMAIN Rows : client[c].st = "up" /\ Rows[c].cn = client[c].cn /\ Rows[c].bytes = client[c].bytes
      /\ \A c \in DOMAIN client : client[c].st = "up" => c \in DOMAIN Rows
  BY RowsFacts
<1>6. \A c \in DOMAIN client : /\ c \in Nat /\ c < nextCid /\ c \in DOMAIN I
                               /\ I[c].cn = client[c].cn /\ I[c].bytes = client[c].bytes /\ client[c].bytes \in Nat
  <2>1. \A c \in DOMAIN client : c \in Nat /\ c < nextCid /\ client[c].bytes \in Nat /\ client[c].cn \in Users
    BY ClientTypes DEF TypeOK, Sessions
  <2>2. \A c \in DOMAIN client : c \in DOMAIN I /\ I[c] = Total(client[c])
    BY DEF Books, Tells, Open
  <2> QED
    BY <2>1, <2>2, TotalTypes
<1>7. Fresh'
  BY <1>2, <1>3, <1>5, <1>6 DEF Books, Fresh
<1>8. Listed(I)'
  BY <1>3, <1>5, <1>6 DEF Books, Listed
<1>9. Chain'
  <2> SUFFICES ASSUME NEW j \in Views', NEW k \in Views', j < k, NEW c \in DOMAIN View(j)'
               PROVE  /\ c \in DOMAIN View(k)' => View(j)'[c].bytes <= View(k)'[c].bytes
                      /\ c \in DOMAIN client' \/ (\E m \in Unread' : m > k /\ toNode'[m].cid = c) => c \in DOMAIN View(k)'
    BY DEF Chain
  <2>1. j \in Views /\ View(j)' = View(j)
    <3>1. j # n + 1
      BY <1>0, <1>3
    <3> QED
      BY <1>3, <3>1
  <2>2. CASE k \in Views
    BY <1>2, <1>3, <2>1, <2>2 DEF Books, Chain
  <2>3. CASE k = n + 1 /\ View(k)' = Rows
    <3>1. \A m \in Unread' : ~(m > k)
      <4>1. \A m \in Unread' : m \in 1..n
        BY <1>0, <1>2
      <4>2. \A m \in 1..n : ~(m > n + 1)
        BY <1>0
      <4> QED
        BY <2>3, <4>1, <4>2
    <3>2. c \in DOMAIN client => /\ client[c].st = "up" /\ c \in DOMAIN I
                                 /\ View(j)[c].bytes <= I[c].bytes
      BY <1>6, <2>1 DEF Books, Listed
    <3> QED
      BY <1>5, <1>6, <2>1, <2>3, <3>1, <3>2
  <2> QED
    BY <1>3, <2>2, <2>3
<1>10. Bases(I)'
  BY <1>2, <1>3, <1>5, <1>6 DEF Books, Bases
<1>11. Late(I)'
  <2>1. CASE poll = "late"
    <3>1. Views' = Views
      BY <1>3, <2>1
    <3> QED
      BY <1>2, <2>1, <3>1 DEF Books, Late
  <2>2. CASE poll # "late"
    BY <2>2 DEF Books, Late
  <2> QED
    BY <2>1, <2>2
<1>12. BookTypes' /\ Balanced(I)'
  BY DEF BookTypes, Books, Balanced
<1> QED
  BY <1>4, <1>7, <1>8, <1>9, <1>10, <1>11, <1>12 DEF Books

(* The reader takes an event from the queue: an announcement, the end of a *)
(* session, which goes to those it knows of, or a snapshot.                *)
LEMMA ReaderBooks ==
    ASSUME NEW I, Books(I), BookTypes, TypeOK, toNode # <<>>, toNode' = Tail(toNode),
           \/ Head(toNode).type = "connect" /\ UNCHANGED <<lastStatus, ended>>
           \/ Head(toNode).type = "disconnect" /\ UNCHANGED lastStatus /\ ended' = Append(ended, Head(toNode))
           \/ Head(toNode).type = "status" /\ lastStatus' = Head(toNode).rows /\ UNCHANGED ended,
           UNCHANGED <<client, link, nextCid, seen, snap, poll, cum, owed>>
    PROVE  BookTypes' /\ Books(I)'
<1> DEFINE n == Len(toNode)
           h == toNode[1]
<1>0. /\ n \in Nat /\ Unread \subseteq 1..n /\ toNode \in Seq(Events) /\ DOMAIN toNode = 1..n
      /\ \A k \in Views : k \in Nat /\ View(k) \in RowMaps
  BY QueueTypes DEF TypeOK
<1>1. /\ Len(toNode') = n - 1 /\ n > 0 /\ Head(toNode) = h /\ DOMAIN toNode' = 1..(n - 1)
      /\ \A k \in 1..(n - 1) : toNode'[k] = toNode[k + 1]
      /\ h \in Events
  BY <1>0
<1> HIDE DEF n, h
<1>2. /\ \A k \in Unread' : k + 1 \in Unread /\ toNode'[k] = toNode[k + 1] /\ k \in Nat /\ k > 0
      /\ \A k \in Unread : k \in Nat /\ (k = 1 \/ (k - 1 \in Unread' /\ toNode'[k - 1] = toNode[k]))
      /\ 1 \in Unread <=> h.type = "disconnect"
  BY <1>0, <1>1 DEF Unread, n, h
<1>3. h.type = "disconnect" => h \in Disconnects /\ h.cid \in Nat
  BY <1>1, EventTypes DEF Disconnects
<1>4. h.type \in {"connect", "disconnect", "status"}
  BY <1>1, EventTypes
<1>5. /\ UnreadCids' \subseteq UnreadCids
      /\ h.type # "disconnect" => UnreadCids' = UnreadCids /\ EndedCids' = EndedCids /\ ended' = ended
  <2>1. UnreadCids' \subseteq UnreadCids
    <3> SUFFICES ASSUME NEW k \in Unread' PROVE toNode'[k].cid \in UnreadCids
      BY DEF UnreadCids
    <3>1. k + 1 \in Unread /\ toNode'[k] = toNode[k + 1]
      BY <1>2
    <3> QED
      BY <3>1 DEF UnreadCids
  <2>2. ASSUME h.type # "disconnect" PROVE UnreadCids \subseteq UnreadCids' /\ ended' = ended
    <3>1. \A k \in Unread : k - 1 \in Unread' /\ toNode'[k - 1] = toNode[k]
      BY <1>2, <2>2
    <3>2. \A k \in Unread : toNode[k].cid \in UnreadCids'
      BY <3>1 DEF UnreadCids
    <3> QED
      BY <1>1, <2>2, <3>2 DEF UnreadCids
  <2> QED
    BY <2>1, <2>2 DEF EndedCids
<1>6. h.type = "disconnect" =>
        /\ UnreadCids = UnreadCids' \cup {h.cid} /\ EndedCids' = EndedCids \cup {h.cid}
        /\ ended' \in Seq(Disconnects)
        /\ DOMAIN ended' = DOMAIN ended \cup {Len(ended) + 1} /\ Len(ended) + 1 \notin DOMAIN ended
        /\ ended'[Len(ended) + 1] = h /\ \A k \in DOMAIN ended : ended'[k] = ended[k]
  <2> SUFFICES ASSUME h.type = "disconnect"
               PROVE  /\ UnreadCids = UnreadCids' \cup {h.cid} /\ EndedCids' = EndedCids \cup {h.cid}
                      /\ ended' \in Seq(Disconnects)
                      /\ DOMAIN ended' = DOMAIN ended \cup {Len(ended) + 1} /\ Len(ended) + 1 \notin DOMAIN ended
                      /\ ended'[Len(ended) + 1] = h /\ \A k \in DOMAIN ended : ended'[k] = ended[k]
    OBVIOUS
  <2>1. ended' = Append(ended, h) /\ ended \in Seq(Disconnects) /\ h \in Disconnects
    BY <1>1, <1>3 DEF BookTypes
  <2>2. /\ ended' \in Seq(Disconnects)
        /\ DOMAIN ended' = DOMAIN ended \cup {Len(ended) + 1} /\ Len(ended) + 1 \notin DOMAIN ended
        /\ ended'[Len(ended) + 1] = h /\ \A k \in DOMAIN ended : ended'[k] = ended[k]
    <3> HIDE DEF Disconnects
    <3> QED
      BY <2>1
  <2>3. EndedCids' = EndedCids \cup {h.cid}
    BY <2>2 DEF EndedCids
  <2>4. UnreadCids \subseteq UnreadCids' \cup {h.cid}
    <3> SUFFICES ASSUME NEW k \in Unread PROVE toNode[k].cid \in UnreadCids' \cup {h.cid}
      BY DEF UnreadCids
    <3>1. k = 1 \/ (k - 1 \in Unread' /\ toNode'[k - 1] = toNode[k])
      BY <1>2
    <3> QED
      BY <3>1 DEF UnreadCids, h
  <2>5. h.cid \in UnreadCids
    BY <1>2 DEF UnreadCids, h
  <2> QED
    BY <1>5, <2>2, <2>3, <2>4, <2>5
<1>7. Tells(I)'
  <2>1. DOMAIN I = Open'
    BY <1>4, <1>5, <1>6 DEF Books, Tells, Open, UnreadCids
  <2>2. \A c \in DOMAIN client' : I[c] = Total(client'[c]) /\ c \notin UnreadCids' \cup EndedCids'
    BY <1>4, <1>5, <1>6 DEF Books, Tells
  <2>3. \A k \in Unread' : I[toNode'[k].cid] = Total(toNode'[k]) /\ toNode'[k].cid \notin EndedCids'
    <3> SUFFICES ASSUME NEW k \in Unread'
                 PROVE  I[toNode'[k].cid] = Total(toNode'[k]) /\ toNode'[k].cid \notin EndedCids'
      OBVIOUS
    <3>0. k + 1 \in Unread /\ toNode'[k] = toNode[k + 1] /\ k \in Nat /\ k > 0
      BY <1>2
    <3>a. k \in Nat /\ k > 0
      BY <3>0
    <3>b. k + 1 # 1
      BY <3>a
    <3>1. k + 1 \in Unread /\ toNode'[k] = toNode[k + 1] /\ k + 1 # 1
      BY <3>0, <3>b
    <3>2. I[toNode[k + 1].cid] = Total(toNode[k + 1]) /\ toNode[k + 1].cid \notin EndedCids
      BY <3>1 DEF Books, Tells
    <3>3. h.type = "disconnect" => toNode[k + 1].cid # h.cid
      BY <1>2, <3>1 DEF Books, Tells, h
    <3> QED
      BY <1>4, <1>5, <1>6, <3>1, <3>2, <3>3
  <2>4. \A k \in DOMAIN ended' : I[ended'[k].cid] = Total(ended'[k])
    <3>1. h.type = "disconnect" => I[h.cid] = Total(h)
      BY <1>2 DEF Books, Tells, h
    <3> QED
      BY <1>4, <1>5, <1>6, <3>1 DEF Books, Tells
  <2>5. \A j, k \in Unread' : toNode'[j].cid = toNode'[k].cid => j = k
    <3> SUFFICES ASSUME NEW j \in Unread', NEW k \in Unread', toNode'[j].cid = toNode'[k].cid PROVE j = k
      OBVIOUS
    <3>1. j + 1 = k + 1
      <4>1. /\ j + 1 \in Unread /\ toNode'[j] = toNode[j + 1]
            /\ k + 1 \in Unread /\ toNode'[k] = toNode[k + 1]
        BY <1>2
      <4>2. \A a, b \in Unread : toNode[a].cid = toNode[b].cid => a = b
        BY DEF Books, Tells
      <4> QED
        BY <4>1, <4>2
    <3> QED
      BY <1>2, <3>1
  <2>6. \A j, k \in DOMAIN ended' : ended'[j].cid = ended'[k].cid => j = k
    <3>1. h.type = "disconnect" => \A k \in DOMAIN ended : ended[k].cid # h.cid
      <4>1. h.type = "disconnect" => h.cid \notin EndedCids
        BY <1>2 DEF Books, Tells, h
      <4> QED
        BY <4>1 DEF EndedCids
    <3>2. \A j, k \in DOMAIN ended : ended[j].cid = ended[k].cid => j = k
      BY DEF Books, Tells
    <3>3. CASE h.type = "disconnect"
      BY <1>6, <3>1, <3>2, <3>3
    <3>4. CASE h.type # "disconnect"
      BY <1>5, <3>2, <3>4
    <3> QED
      BY <3>3, <3>4
  <2> QED
    BY <2>1, <2>2, <2>3, <2>4, <2>5, <2>6 DEF Tells
<1>8. \A k \in Views' : \E i \in Views :
          /\ View(k)' = View(i) /\ i <= k + 1 /\ k \in Nat
          /\ k > 0 => i = k + 1
          /\ k = 0 => i \in {0, 1} /\ lastStatus' = View(i)
  <2> SUFFICES ASSUME NEW k \in Views'
               PROVE  \E i \in Views : /\ View(k)' = View(i) /\ i <= k + 1 /\ k \in Nat
                                       /\ k > 0 => i = k + 1
                                       /\ k = 0 => i \in {0, 1} /\ lastStatus' = View(i)
    OBVIOUS
  <2>1. k \in Nat /\ k <= n - 1 /\ (k > 0 => toNode'[k].type = "status")
    BY <1>0, <1>1 DEF Views
  <2>2. CASE k > 0
    <3>1. k + 1 \in Views /\ View(k)' = View(k + 1)
      BY <1>0, <1>1, <2>1, <2>2 DEF Views, View, n
    <3> QED
      BY <2>1, <2>2, <3>1
  <2>3. CASE k = 0 /\ h.type = "status"
    <3>1. 1 \in Views /\ View(k)' = View(1) /\ lastStatus' = View(1)
      BY <1>0, <1>1, <2>1, <2>3 DEF Views, View, n, h
    <3> QED
      BY <2>3, <3>1
  <2>4. CASE k = 0 /\ h.type # "status"
    <3>1. 0 \in Views /\ View(k)' = View(0) /\ lastStatus' = View(0)
      BY <1>0, <1>1, <2>1, <2>4 DEF Views, View, n
    <3> QED
      BY <2>4, <3>1
  <2> QED
    BY <2>1, <2>2, <2>3, <2>4
<1>9. Fresh'
  <2>1. \A k \in Unread' : link => toNode'[k].cid < nextCid
    BY <1>2 DEF Books, Fresh
  <2>2. \A k \in Views' : link => \A c \in DOMAIN View(k)' : c < nextCid
    BY <1>8 DEF Books, Fresh
  <2> QED
    BY <2>1, <2>2 DEF Fresh
<1>10. Listed(I)'
  BY <1>8 DEF Books, Listed
<1>11. Chain'
  <2> SUFFICES ASSUME NEW j \in Views', NEW k \in Views', j < k, NEW c \in DOMAIN View(j)'
               PROVE  /\ c \in DOMAIN View(k)' => View(j)'[c].bytes <= View(k)'[c].bytes
                      /\ c \in DOMAIN client' \/ (\E m \in Unread' : m > k /\ toNode'[m].cid = c) => c \in DOMAIN View(k)'
    BY DEF Chain
  <2>1. PICK a \in Views : View(j)' = View(a) /\ a <= j + 1 /\ j \in Nat
    BY <1>8
  <2>2. k > 0 /\ k \in Nat
    BY <1>8, <2>1
  <2>3. k + 1 \in Views /\ View(k)' = View(k + 1)
    BY <1>8, <2>2
  <2>4. a < k + 1
    BY <1>0, <2>1, <2>2
  <2>5. (\E m \in Unread' : m > k /\ toNode'[m].cid = c) => \E m \in Unread : m > k + 1 /\ toNode[m].cid = c
    <3> SUFFICES ASSUME NEW m \in Unread', m > k, toNode'[m].cid = c
                 PROVE  \E i \in Unread : i > k + 1 /\ toNode[i].cid = c
      OBVIOUS
    <3>1. m + 1 \in Unread /\ toNode'[m] = toNode[m + 1] /\ m \in Nat
      BY <1>2
    <3>2. m + 1 > k + 1
      BY <2>2, <3>1
    <3> QED
      BY <3>1, <3>2
  <2>6. /\ c \in DOMAIN View(k + 1) => View(a)[c].bytes <= View(k + 1)[c].bytes
        /\ c \in DOMAIN client \/ (\E m \in Unread : m > k + 1 /\ toNode[m].cid = c) => c \in DOMAIN View(k + 1)
    BY <2>1, <2>3, <2>4 DEF Books, Chain
  <2> QED
    BY <2>1, <2>3, <2>5, <2>6
<1>12. Bases(I)'
  <2> SUFFICES ASSUME NEW c \in DOMAIN seen
               PROVE  /\ \A k \in Views' : c \in DOMAIN View(k)' => seen[c] <= View(k)'[c].bytes
                      /\ c \in DOMAIN I => seen[c] <= I[c].bytes
                      /\ c \in DOMAIN client \cup UnreadCids' => c \in DOMAIN lastStatus'
    BY DEF Bases
  <2>1. /\ \A k \in Views : c \in DOMAIN View(k) => seen[c] <= View(k)[c].bytes
        /\ c \in DOMAIN I => seen[c] <= I[c].bytes
        /\ c \in DOMAIN client \cup UnreadCids => c \in DOMAIN lastStatus
    BY DEF Books, Bases
  <2>2. ASSUME c \in DOMAIN client \cup UnreadCids' PROVE c \in DOMAIN lastStatus'
    <3>1. c \in DOMAIN lastStatus
      BY <1>5, <2>1, <2>2
    <3>2. CASE h.type # "status"
      BY <1>1, <3>1, <3>2
    <3>3. CASE h.type = "status"
      <4>1. lastStatus' = View(1) /\ 1 \in Views /\ 0 \in Views /\ View(0) = lastStatus
        BY <1>0, <1>1, <3>3 DEF View, Views, n, h
      <4>2. c \in UnreadCids' => \E m \in Unread : m > 1 /\ toNode[m].cid = c
        <5> SUFFICES ASSUME c \in UnreadCids' PROVE \E m \in Unread : m > 1 /\ toNode[m].cid = c
          OBVIOUS
        <5>1. PICK m \in Unread' : toNode'[m].cid = c
          BY DEF UnreadCids
        <5>2. m + 1 \in Unread /\ toNode'[m] = toNode[m + 1] /\ m \in Nat /\ m \in 1..(n - 1)
          BY <1>1, <1>2 DEF Unread
        <5>3. m + 1 > 1
          BY <1>0, <5>2
        <5> QED
          BY <5>1, <5>2, <5>3
      <4>3. c \in DOMAIN client \/ (\E m \in Unread : m > 1 /\ toNode[m].cid = c) => c \in DOMAIN View(1)
        BY <3>1, <4>1 DEF Books, Chain
      <4> QED
        BY <2>2, <4>1, <4>2, <4>3
    <3> QED
      BY <3>2, <3>3
  <2> QED
    BY <1>8, <2>1, <2>2
<1>13. Late(I)'
  <2>1. CASE poll = "late"
    <3>1. Views = {0} /\ lastStatus = NoClients
      BY <2>1 DEF Books, Late
    <3>2. h.type # "status"
      BY <1>0, <1>1, <3>1 DEF Views, n, h
    <3>3. lastStatus' = NoClients
      BY <1>1, <3>1, <3>2
    <3>4. Views' = {0}
      <4>1. \A k \in Views' : k = 0
        <5> SUFFICES ASSUME NEW k \in Views', k # 0 PROVE FALSE
          OBVIOUS
        <5>1. PICK i \in Views : k \in Nat /\ (k > 0 => i = k + 1)
          BY <1>8
        <5> QED
          BY <3>1, <5>1
      <4>2. 0 \in Views'
        BY <1>0, <1>1 DEF Views
      <4> QED
        BY <4>1, <4>2
    <3> QED
      BY <1>5, <2>1, <3>3, <3>4 DEF Books, Late
  <2>2. CASE poll # "late"
    BY <2>2 DEF Books, Late
  <2> QED
    BY <2>1, <2>2
<1>14. BookTypes' /\ Balanced(I)'
  <2>1. lastStatus' \in RowMaps
    BY <1>1, EventTypes DEF BookTypes
  <2>2. ended' \in Seq(Disconnects)
    BY <1>5, <1>6 DEF BookTypes
  <2> QED
    BY <2>1, <2>2 DEF BookTypes, Books, Balanced
<1> QED
  BY <1>7, <1>9, <1>10, <1>11, <1>12, <1>13, <1>14 DEF Books

LEMMA ClosingFacts ==
    ASSUME TypeOK, NEW S \in SUBSET DOMAIN client
    PROVE  LET q == Closing(S)
           IN  /\ q \in Seq(Disconnects) /\ Len(q) \in Nat
               /\ \A k \in 1..Len(q) : /\ q[k].type = "disconnect" /\ q[k].cid \in S
                                       /\ Total(q[k]) = Total(client[q[k].cid])
               /\ \A c \in S : \E k \in 1..Len(q) : q[k].cid = c
               /\ \A j, k \in 1..Len(q) : q[j].cid = q[k].cid => j = k
<1> DEFINE ids == SetToSeq(S)
           q == Closing(S)
<1>1. /\ ids \in Seq(S) /\ IsInjective(ids)
      /\ \A c \in S : \E k \in 1..Len(ids) : ids[k] = c
  <2>1. IsFiniteSet(S)
    BY ClientTypes, FS_Subset
  <2> QED
    BY <2>1, SetToSeqListsAll
<1>2. q = [k \in DOMAIN ids |-> [type |-> "disconnect", cid |-> ids[k], cn |-> client[ids[k]].cn,
                                 bytes |-> client[ids[k]].bytes]]
  BY DEF Closing
<1> HIDE DEF ids
<1>3. DOMAIN ids = 1..Len(ids) /\ Len(ids) \in Nat /\ \A k \in 1..Len(ids) : ids[k] \in S
  BY <1>1
<1>4. q \in Seq(Disconnects)
  BY ClosingTypes
<1>5. DOMAIN q = 1..Len(ids) /\ \A k \in 1..Len(ids) : /\ q[k].type = "disconnect" /\ q[k].cid = ids[k]
                                                       /\ q[k].cn = client[ids[k]].cn /\ q[k].bytes = client[ids[k]].bytes
  BY <1>2, <1>3
<1> HIDE DEF q
<1>6. Len(q) = Len(ids)
  BY <1>3, <1>4, <1>5
<1>7. \A j, k \in 1..Len(ids) : ids[j] = ids[k] => j = k
  BY <1>1, <1>3 DEF IsInjective
<1>8. \A k \in 1..Len(q) : q[k].type = "disconnect" /\ q[k].cid \in S /\ Total(q[k]) = Total(client[q[k].cid])
  BY <1>3, <1>5, <1>6 DEF Total
<1> QED
  BY <1>1, <1>3, <1>4, <1>5, <1>6, <1>7, <1>8 DEF q

(* Clients go, and their totals are queued.                                *)
LEMMA GoneBooks ==
    ASSUME NEW I, Books(I), BookTypes, TypeOK, NEW S \in SUBSET DOMAIN client,
           DOMAIN client' = DOMAIN client \ S, \A c \in DOMAIN client' : client'[c] = client[c],
           toNode' = toNode \o Closing(S),
           UNCHANGED <<link, nextCid, lastStatus, seen, ended, snap, poll, cum, owed>>
    PROVE  BookTypes' /\ Books(I)'
<1> DEFINE n == Len(toNode)
           q == Closing(S)
           z == Len(q)
<1>0. /\ n \in Nat /\ Unread \subseteq 1..n /\ toNode \in Seq(Events) /\ DOMAIN toNode = 1..n
      /\ \A k \in Views : k \in Nat /\ View(k) \in RowMaps
  BY QueueTypes DEF TypeOK
<1>1. /\ z \in Nat /\ q \in Seq(Disconnects) /\ q \in Seq(Events)
      /\ \A k \in 1..z : /\ q[k].type = "disconnect" /\ q[k].cid \in S /\ Total(q[k]) = Total(client[q[k].cid])
      /\ \A c \in S : \E k \in 1..z : q[k].cid = c
      /\ \A j, k \in 1..z : q[j].cid = q[k].cid => j = k
  <2>1. Disconnects \subseteq Events
    BY DEF Events
  <2>2. q \in Seq(Disconnects)
    BY ClosingFacts
  <2>3. q \in Seq(Events)
    <3> HIDE DEF q, Disconnects, Events
    <3> QED
      BY <2>1, <2>2
  <2> QED
    BY <2>2, <2>3, ClosingFacts
<1>2. /\ Len(toNode') = n + z /\ DOMAIN toNode' = 1..(n + z)
      /\ \A k \in 1..n : toNode'[k] = toNode[k]
      /\ \A k \in 1..z : toNode'[n + k] = q[k]
      /\ \A k \in 1..(n + z) : k \in 1..n \/ (k - n \in 1..z /\ n + (k - n) = k)
  <2>0. toNode' = toNode \o q
    OBVIOUS
  <2> HIDE DEF q
  <2>1. toNode' \in Seq(Events) /\ Len(toNode') = n + z
    BY <1>0, <1>1, <2>0, ConcatProperties
  <2>2. \A k \in 1..(n + z) : toNode'[k] = IF k <= n THEN toNode[k] ELSE q[k - n]
    BY <1>0, <1>1, <2>0, ConcatProperties
  <2>8. DOMAIN toNode' = 1..(n + z)
    BY <2>1
  <2> HIDE DEF n, z
  <2>3. \A k \in 1..z : n + k \in 1..(n + z) /\ ~(n + k <= n) /\ (n + k) - n = k
    BY <1>0, <1>1
  <2>4. \A k \in 1..z : toNode'[n + k] = q[k]
    BY <2>2, <2>3
  <2>5. \A k \in 1..n : k \in 1..(n + z) /\ k <= n
    BY <1>0, <1>1
  <2>6. \A k \in 1..n : toNode'[k] = toNode[k]
    BY <2>2, <2>5
  <2>7. \A k \in 1..(n + z) : k \in 1..n \/ (k - n \in 1..z /\ n + (k - n) = k)
    BY <1>0, <1>1
  <2> QED
    BY <2>1, <2>4, <2>6, <2>7, <2>8
<1> HIDE DEF n, q, z
<1>a. \A k \in 1..z : q[k].type = "disconnect" /\ q[k].cid \in S /\ Total(q[k]) = Total(client[q[k].cid])
  BY <1>1
<1>b. \A j, k \in 1..z : q[j].cid = q[k].cid => j = k
  BY <1>1
<1>c. \A k \in 1..z : toNode'[n + k] = q[k]
  BY <1>2
<1>3. /\ \A k \in Unread : k \in Unread' /\ toNode'[k] = toNode[k]
      /\ \A k \in Unread' \ Unread : toNode'[k].cid \in S /\ Total(toNode'[k]) = Total(client[toNode'[k].cid])
      /\ \A j, k \in Unread' \ Unread : toNode'[j].cid = toNode'[k].cid => j = k
      /\ \A c \in S : \E k \in Unread' : toNode'[k].cid = c
  <2>1. \A k \in 1..n : k \in 1..(n + z)
    BY <1>0, <1>1
  <2>2. \A k \in Unread : k \in Unread' /\ toNode'[k] = toNode[k]
    BY <1>0, <1>2, <2>1 DEF Unread
  <2>3. \A k \in 1..z : n + k \in 1..(n + z)
    BY <1>0, <1>1
  <2>4. \A k \in 1..z : n + k \in Unread'
    <3> SUFFICES ASSUME NEW k \in 1..z PROVE n + k \in Unread'
      OBVIOUS
    <3>1. toNode'[n + k].type = "disconnect"
      BY <1>a, <1>c
    <3>2. n + k \in DOMAIN toNode'
      BY <1>2, <2>3
    <3> QED
      BY <3>1, <3>2 DEF Unread
  <2>5. \A k \in Unread' \ Unread : k - n \in 1..z /\ toNode'[k] = q[k - n] /\ k \in Int
    <3> SUFFICES ASSUME NEW k \in Unread' \ Unread
                 PROVE  k - n \in 1..z /\ toNode'[k] = q[k - n] /\ k \in Int
      OBVIOUS
    <3>1. k \in 1..(n + z) /\ toNode'[k].type = "disconnect"
      BY <1>2 DEF Unread
    <3>2. k \notin 1..n
      BY <1>0, <1>2, <3>1 DEF Unread
    <3>3. k - n \in 1..z /\ n + (k - n) = k
      BY <1>2, <3>1, <3>2
    <3>4. k \in Int
      BY <1>0, <1>1, <3>1
    <3>5. toNode'[n + (k - n)] = q[k - n]
      BY <1>2, <3>3
    <3> QED
      BY <3>3, <3>4, <3>5
  <2>6. \A k \in Unread' \ Unread : toNode'[k].cid \in S /\ Total(toNode'[k]) = Total(client[toNode'[k].cid])
    BY <1>a, <2>5
  <2>7. ASSUME NEW j \in Unread' \ Unread, NEW k \in Unread' \ Unread, toNode'[j].cid = toNode'[k].cid
        PROVE  j = k
    <3>1. j - n = k - n
      <4>1. j - n \in 1..z /\ k - n \in 1..z /\ q[j - n].cid = q[k - n].cid
        BY <2>5, <2>7
      <4> QED
        BY <1>b, <4>1
    <3>2. j \in Int /\ k \in Int
      BY <2>5
    <3> QED
      BY <1>0, <3>1, <3>2
  <2>8. ASSUME NEW c \in S PROVE \E k \in Unread' : toNode'[k].cid = c
    <3>1. PICK k \in 1..z : q[k].cid = c
      BY <1>1
    <3>2. n + k \in Unread' /\ toNode'[n + k] = q[k]
      BY <1>2, <2>4
    <3> QED
      BY <3>1, <3>2
  <2> QED
    BY <2>2, <2>6, <2>7, <2>8
<1>4. UnreadCids' = UnreadCids \cup S /\ EndedCids' = EndedCids
  <2>1. \A k \in Unread' : toNode'[k].cid \in UnreadCids \cup S
    BY <1>3 DEF UnreadCids
  <2>2. \A k \in Unread : toNode[k].cid \in UnreadCids'
    BY <1>3 DEF UnreadCids
  <2>3. ASSUME NEW c \in S PROVE c \in UnreadCids'
    <3>1. PICK k \in Unread' : toNode'[k].cid = c
      BY <1>3
    <3> QED
      BY <3>1 DEF UnreadCids
  <2>4. UnreadCids' \subseteq UnreadCids \cup S /\ UnreadCids \subseteq UnreadCids'
    BY <2>1, <2>2 DEF UnreadCids
  <2> QED
    BY <2>3, <2>4 DEF EndedCids
<1>5. Views' = Views /\ \A k \in Views : View(k)' = View(k) /\ k \in Nat /\ k <= n
  <2>1. \A k \in Views : k \in Views' /\ View(k)' = View(k) /\ k \in Nat /\ k <= n
    BY <1>0, <1>1, <1>2 DEF Views, View, n
  <2>2. ASSUME NEW k \in Views' PROVE k \in Views
    <3>1. k \in 0..(n + z) /\ (k > 0 => toNode'[k].type = "status")
      BY <1>2 DEF Views
    <3>2. CASE k = 0
      BY <1>0, <3>2 DEF Views, n
    <3>3. CASE k # 0
      <4>0. k \in 1..(n + z) /\ k > 0
        <5>1. k \in 0..(n + z) /\ n + z \in Nat
          BY <1>0, <1>1, <3>1
        <5> QED
          BY <3>3, <5>1
      <4>1. k \in 1..(n + z) /\ toNode'[k].type = "status"
        BY <3>1, <4>0
      <4>2. k \in 1..n
        <5> SUFFICES ASSUME k - n \in 1..z, n + (k - n) = k PROVE FALSE
          BY <1>2, <4>1
        <5>1. toNode'[n + (k - n)] = q[k - n] /\ q[k - n].type = "disconnect"
          BY <1>1, <1>2
        <5> QED
          BY <4>1, <5>1
      <4> QED
        BY <1>0, <1>2, <4>1, <4>2 DEF Views, n
    <3> QED
      BY <3>2, <3>3
  <2> QED
    BY <2>1, <2>2
<1>6. Tells(I)
  BY DEF Books
<1>7. Tells(I)'
  <2>1. DOMAIN I = Open'
    BY <1>4, <1>6 DEF Tells, Open, UnreadCids
  <2>2. \A c \in DOMAIN client' : I[c] = Total(client'[c]) /\ c \notin UnreadCids' \cup EndedCids'
    BY <1>4, <1>6 DEF Tells
  <2>3. \A k \in Unread' : I[toNode'[k].cid] = Total(toNode'[k]) /\ toNode'[k].cid \notin EndedCids'
    <3> SUFFICES ASSUME NEW k \in Unread'
                 PROVE  I[toNode'[k].cid] = Total(toNode'[k]) /\ toNode'[k].cid \notin EndedCids
      BY <1>4
    <3>1. CASE k \in Unread
      BY <1>3, <1>6, <3>1 DEF Tells
    <3>2. CASE k \notin Unread
      <4>1. toNode'[k].cid \in S /\ Total(toNode'[k]) = Total(client[toNode'[k].cid])
        BY <1>3, <3>2
      <4>2. \A c \in S : I[c] = Total(client[c]) /\ c \notin EndedCids
        BY <1>6 DEF Tells
      <4> QED
        BY <4>1, <4>2
    <3> QED
      BY <1>3, <3>1, <3>2
  <2>4. \A k \in DOMAIN ended' : I[ended'[k].cid] = Total(ended'[k])
    BY <1>6 DEF Tells
  <2>5. \A j, k \in Unread' : toNode'[j].cid = toNode'[k].cid => j = k
    <3> SUFFICES ASSUME NEW j \in Unread', NEW k \in Unread', toNode'[j].cid = toNode'[k].cid PROVE j = k
      OBVIOUS
    <3>1. \A i \in Unread : toNode[i].cid \notin S
      BY <1>6 DEF Tells, UnreadCids
    <3>6. \A i \in Unread : toNode'[i] = toNode[i]
      BY <1>3
    <3>7. \A i \in Unread' \ Unread : toNode'[i].cid \in S
      BY <1>3
    <3>2. CASE j \in Unread /\ k \in Unread
      <4>1. \A a, b \in Unread : toNode[a].cid = toNode[b].cid => a = b
        BY <1>6 DEF Tells
      <4> QED
        BY <3>2, <3>6, <4>1
    <3>3. CASE j \in Unread /\ k \notin Unread
      BY <3>1, <3>3, <3>6, <3>7
    <3>4. CASE j \notin Unread /\ k \in Unread
      BY <3>1, <3>4, <3>6, <3>7
    <3>5. CASE j \notin Unread /\ k \notin Unread
      BY <1>3, <3>5
    <3> QED
      BY <3>2, <3>3, <3>4, <3>5
  <2>6. \A j, k \in DOMAIN ended' : ended'[j].cid = ended'[k].cid => j = k
    BY <1>6 DEF Tells
  <2> QED
    BY <2>1, <2>2, <2>3, <2>4, <2>5, <2>6 DEF Tells
<1>8. Fresh'
  <2>1. \A c \in S : c < nextCid
    BY ClientTypes DEF TypeOK
  <2>2. \A k \in Unread' : link => toNode'[k].cid < nextCid
    BY <1>3, <2>1 DEF Books, Fresh
  <2>3. \A k \in Views' : link => \A c \in DOMAIN View(k)' : c < nextCid
    BY <1>5 DEF Books, Fresh
  <2> QED
    BY <2>2, <2>3 DEF Fresh
<1>9. Listed(I)'
  BY <1>5 DEF Books, Listed
<1>10. Chain'
  <2> SUFFICES ASSUME NEW j \in Views, NEW k \in Views, j < k, NEW c \in DOMAIN View(j)
               PROVE  /\ c \in DOMAIN View(k) => View(j)[c].bytes <= View(k)[c].bytes
                      /\ c \in DOMAIN client' \/ (\E m \in Unread' : m > k /\ toNode'[m].cid = c) => c \in DOMAIN View(k)
    BY <1>5 DEF Chain
  <2>1. /\ c \in DOMAIN View(k) => View(j)[c].bytes <= View(k)[c].bytes
        /\ c \in DOMAIN client \/ (\E m \in Unread : m > k /\ toNode[m].cid = c) => c \in DOMAIN View(k)
    BY DEF Books, Chain
  <2>2. ASSUME NEW m \in Unread', m > k, toNode'[m].cid = c PROVE c \in DOMAIN View(k)
    <3>1. CASE m \in Unread
      BY <1>3, <2>1, <2>2, <3>1
    <3>2. CASE m \notin Unread
      <4>1. c \in S
        BY <1>3, <2>2, <3>2
      <4> QED
        BY <2>1, <4>1
    <3> QED
      BY <3>1, <3>2
  <2> QED
    BY <2>1, <2>2
<1>11. Bases(I)'
  BY <1>4, <1>5 DEF Books, Bases
<1>12. Late(I)'
  BY <1>4, <1>5 DEF Books, Late
<1>13. BookTypes' /\ Balanced(I)'
  BY DEF BookTypes, Books, Balanced
<1> QED
  BY <1>7, <1>8, <1>9, <1>10, <1>11, <1>12, <1>13 DEF Books

(* A sum over two parts.                                                   *)
LEMMA SumSplit ==
    ASSUME NEW f, Summable(f), NEW g, Summable(g), NEW h, Summable(h),
           DOMAIN g \cup DOMAIN h = DOMAIN f, DOMAIN g \cap DOMAIN h = {},
           \A x \in DOMAIN g : g[x] = f[x], \A x \in DOMAIN h : h[x] = f[x]
    PROVE  SumFunction(f) = SumFunction(g) + SumFunction(h)
<1> DEFINE g1 == [x \in DOMAIN f |-> IF x \in DOMAIN g THEN f[x] ELSE 0]
           h1 == [x \in DOMAIN f |-> IF x \in DOMAIN h THEN f[x] ELSE 0]
           b == [x \in DOMAIN g |-> x]
           d == [x \in DOMAIN h |-> x]
<1>1. /\ DOMAIN g1 = DOMAIN f /\ \A x \in DOMAIN f : g1[x] = IF x \in DOMAIN g THEN f[x] ELSE 0
      /\ DOMAIN h1 = DOMAIN f /\ \A x \in DOMAIN f : h1[x] = IF x \in DOMAIN h THEN f[x] ELSE 0
      /\ b \in [DOMAIN g -> DOMAIN g1] /\ \A x \in DOMAIN g : b[x] = x
      /\ d \in [DOMAIN h -> DOMAIN h1] /\ \A x \in DOMAIN h : d[x] = x
  OBVIOUS
<1> HIDE DEF g1, h1, b, d
<1>2. Summable(g1) /\ Summable(h1)
  BY <1>1 DEF Summable
<1>3. SumFunction(g) = SumFunction(g1)
  <2>1. \A x \in DOMAIN g : g[x] = g1[b[x]]
    BY <1>1
  <2>2. \A y \in DOMAIN g1 : (\A x \in DOMAIN g : b[x] # y) => g1[y] = 0
    BY <1>1
  <2>3. \A x, y \in DOMAIN g : b[x] = b[y] => x = y
    BY <1>1
  <2> QED
    BY <1>1, <1>2, <2>1, <2>2, <2>3, SumVia
<1>4. SumFunction(h) = SumFunction(h1)
  <2>1. \A x \in DOMAIN h : h[x] = h1[d[x]]
    BY <1>1
  <2>2. \A y \in DOMAIN h1 : (\A x \in DOMAIN h : d[x] # y) => h1[y] = 0
    BY <1>1
  <2>3. \A x, y \in DOMAIN h : d[x] = d[y] => x = y
    BY <1>1
  <2> QED
    BY <1>1, <1>2, <2>1, <2>2, <2>3, SumVia
<1>5. \A x \in DOMAIN f : f[x] = g1[x] + h1[x]
  BY <1>1 DEF Summable
<1>6. SumFunction(f) = SumFunction(g1) + SumFunction(h1)
  BY <1>1, <1>2, <1>5, SumAdd
<1> QED
  BY <1>3, <1>4, <1>6

(* The same sum over what is not 0.                                        *)
LEMMA SumPad ==
    ASSUME NEW f, Summable(f), NEW g, Summable(g), DOMAIN g \subseteq DOMAIN f,
           \A x \in DOMAIN g : g[x] = f[x], \A x \in DOMAIN f : x \notin DOMAIN g => f[x] = 0
    PROVE  SumFunction(g) = SumFunction(f)
<1> DEFINE b == [x \in DOMAIN g |-> x]
<1>1. b \in [DOMAIN g -> DOMAIN f] /\ \A x \in DOMAIN g : b[x] = x
  OBVIOUS
<1> HIDE DEF b
<1>2. /\ \A x, y \in DOMAIN g : b[x] = b[y] => x = y
      /\ \A x \in DOMAIN g : g[x] = f[b[x]]
      /\ \A y \in DOMAIN f : (\A x \in DOMAIN g : b[x] # y) => f[y] = 0
  BY <1>1
<1> QED
  BY <1>1, <1>2, SumVia

LEMMA DuesFacts ==
    ASSUME NEW I, NEW B, NEW u \in Users, I \in RowMaps, IsFiniteSet(DOMAIN I), B \in NatMaps
    PROVE  /\ DOMAIN Dues(I, B, u) = DOMAIN I
           /\ \A c \in DOMAIN I : Dues(I, B, u)[c] = IF I[c].cn = u THEN I[c].bytes - BaseOf(B, c) ELSE 0
           /\ Summable(Dues(I, B, u))
           /\ SumFunction(Dues(I, B, u)) \in Int
<1>1. /\ DOMAIN Dues(I, B, u) = DOMAIN I
      /\ \A c \in DOMAIN I : Dues(I, B, u)[c] = IF I[c].cn = u THEN I[c].bytes - BaseOf(B, c) ELSE 0
  BY DEF Dues
<1>2. \A c : BaseOf(B, c) \in Nat
  BY MapTypes DEF BaseOf
<1>3. \A c \in DOMAIN I : I[c].bytes \in Nat
  BY MapTypes
<1>4. \A c \in DOMAIN I : Dues(I, B, u)[c] \in Int
  BY <1>1, <1>2, <1>3
<1>5. Summable(Dues(I, B, u))
  BY <1>1, <1>4 DEF Summable
<1> QED
  BY <1>1, <1>5, SumType

(* The sessions of some ids.                                               *)
Part(I, S) == [c \in DOMAIN I \cap S |-> I[c]]

LEMMA PartFacts ==
    ASSUME NEW I, I \in RowMaps, IsFiniteSet(DOMAIN I), NEW S
    PROVE  /\ Part(I, S) \in RowMaps /\ IsFiniteSet(DOMAIN Part(I, S)) /\ DOMAIN Part(I, S) = DOMAIN I \cap S
           /\ \A c \in DOMAIN I \cap S : Part(I, S)[c] = I[c]
<1> DEFINE J == Part(I, S)
<1>1. /\ DOMAIN J = DOMAIN I \cap S /\ J = [c \in DOMAIN J |-> J[c]]
      /\ \A c \in DOMAIN I \cap S : J[c] = I[c]
  BY DEF Part
<1> HIDE DEF J
<1>2. DOMAIN I \subseteq Nat /\ \A c \in DOMAIN I : I[c] \in Row
  <2>1. \A c \in DOMAIN I : I[c].cn \in Users /\ I[c].bytes \in Nat /\ I[c] = Total(I[c])
    BY MapTypes
  <2> QED
    BY <2>1, MapTypes, TotalTypes
<1>3. J \in RowMaps
  BY <1>1, <1>2, MakeMap
<1>4. IsFiniteSet(DOMAIN J)
  BY <1>1, FS_Subset
<1> QED
  BY <1>1, <1>3, <1>4 DEF J

LEMMA PartSums ==
    ASSUME NEW I, NEW B, NEW u \in Users, I \in RowMaps, IsFiniteSet(DOMAIN I), B \in NatMaps, NEW S, NEW T,
           DOMAIN I \subseteq S \cup T, \A c \in DOMAIN I : ~(c \in S /\ c \in T)
    PROVE  SumFunction(Dues(I, B, u)) = SumFunction(Dues(Part(I, S), B, u)) + SumFunction(Dues(Part(I, T), B, u))
<1> DEFINE f == Dues(I, B, u)
           g == Dues(Part(I, S), B, u)
           h == Dues(Part(I, T), B, u)
<1>1. /\ DOMAIN f = DOMAIN I /\ Summable(f)
      /\ \A c \in DOMAIN I : f[c] = IF I[c].cn = u THEN I[c].bytes - BaseOf(B, c) ELSE 0
  BY DuesFacts
<1>2. /\ DOMAIN g = DOMAIN I \cap S /\ Summable(g)
      /\ \A c \in DOMAIN I \cap S : g[c] = IF I[c].cn = u THEN I[c].bytes - BaseOf(B, c) ELSE 0
  <2> DEFINE J == Part(I, S)
  <2>1. J \in RowMaps /\ IsFiniteSet(DOMAIN J) /\ DOMAIN J = DOMAIN I \cap S /\ \A c \in DOMAIN I \cap S : J[c] = I[c]
    BY PartFacts
  <2> HIDE DEF J
  <2>2. /\ DOMAIN Dues(J, B, u) = DOMAIN J /\ Summable(Dues(J, B, u))
        /\ \A c \in DOMAIN J : Dues(J, B, u)[c] = IF J[c].cn = u THEN J[c].bytes - BaseOf(B, c) ELSE 0
    BY <2>1, DuesFacts
  <2> QED
    BY <2>1, <2>2 DEF J
<1>3. /\ DOMAIN h = DOMAIN I \cap T /\ Summable(h)
      /\ \A c \in DOMAIN I \cap T : h[c] = IF I[c].cn = u THEN I[c].bytes - BaseOf(B, c) ELSE 0
  <2> DEFINE J == Part(I, T)
  <2>1. J \in RowMaps /\ IsFiniteSet(DOMAIN J) /\ DOMAIN J = DOMAIN I \cap T /\ \A c \in DOMAIN I \cap T : J[c] = I[c]
    BY PartFacts
  <2> HIDE DEF J
  <2>2. /\ DOMAIN Dues(J, B, u) = DOMAIN J /\ Summable(Dues(J, B, u))
        /\ \A c \in DOMAIN J : Dues(J, B, u)[c] = IF J[c].cn = u THEN J[c].bytes - BaseOf(B, c) ELSE 0
    BY <2>1, DuesFacts
  <2> QED
    BY <2>1, <2>2 DEF J
<1> HIDE DEF f, g, h
<1>4. /\ DOMAIN g \cup DOMAIN h = DOMAIN f /\ DOMAIN g \cap DOMAIN h = {}
      /\ \A x \in DOMAIN g : g[x] = f[x]
      /\ \A x \in DOMAIN h : h[x] = f[x]
  BY <1>1, <1>2, <1>3
<1>5. SumFunction(f) = SumFunction(g) + SumFunction(h)
  BY <1>1, <1>2, <1>3, <1>4, SumSplit
<1> QED
  BY <1>5 DEF f, g, h

(* The events at K are of sessions listed in I, one each; S are their ids, *)
(* and g what they have still to count against the bases B.                *)
Entries(I, B, u, s, K, S, g) ==
    /\ u \in Users /\ I \in RowMaps /\ IsFiniteSet(DOMAIN I) /\ B \in NatMaps /\ IsFiniteSet(K)
    /\ \A k \in K : /\ s[k].cid \in DOMAIN I /\ I[s[k].cid] = Total(s[k])
                    /\ s[k].cn \in Users /\ s[k].bytes \in Nat
    /\ \A j, k \in K : s[j].cid = s[k].cid => j = k
    /\ (\A k \in K : s[k].cid \in S) /\ \A c \in S : \E k \in K : s[k].cid = c
    /\ DOMAIN g = K
    /\ \A k \in K : g[k] = IF s[k].cn = u THEN s[k].bytes - BaseOf(B, s[k].cid) ELSE 0

(* A sum over events is one over the ids they are of.                      *)
LEMMA EventSums ==
    ASSUME NEW I, NEW B, NEW u, NEW s, NEW K, NEW S, NEW g, Entries(I, B, u, s, K, S, g)
    PROVE  SumFunction(g) = SumFunction(Dues(Part(I, S), B, u)) /\ SumFunction(g) \in Int
<1> USE DEF Entries
<1>0. Part(I, S) \in RowMaps /\ IsFiniteSet(DOMAIN Part(I, S)) /\ DOMAIN Part(I, S) = DOMAIN I \cap S
      /\ \A c \in DOMAIN I \cap S : Part(I, S)[c] = I[c]
  <2>1. I \in RowMaps
    OBVIOUS
  <2>2. IsFiniteSet(DOMAIN I)
    OBVIOUS
  <2> QED
    BY ONLY <2>1, <2>2, PartFacts
<1> DEFINE J == Part(I, S)
           f == Dues(J, B, u)
           b == [k \in K |-> s[k].cid]
<1>1. J \in RowMaps /\ IsFiniteSet(DOMAIN J) /\ DOMAIN J = DOMAIN I \cap S /\ \A c \in DOMAIN I \cap S : J[c] = I[c]
  BY <1>0
<1>2. DOMAIN J = S
  BY <1>1
<1> HIDE DEF J
<1>3. /\ DOMAIN f = DOMAIN J /\ Summable(f)
      /\ \A c \in DOMAIN J : f[c] = IF J[c].cn = u THEN J[c].bytes - BaseOf(B, c) ELSE 0
  BY <1>1, DuesFacts
<1>4. /\ DOMAIN g = K /\ \A k \in K : g[k] = IF s[k].cn = u THEN s[k].bytes - BaseOf(B, s[k].cid) ELSE 0
      /\ b \in [K -> S] /\ \A k \in K : b[k] = s[k].cid
  OBVIOUS
<1>5. \A k \in K : I[s[k].cid].cn = s[k].cn /\ I[s[k].cid].bytes = s[k].bytes
  BY TotalTypes
<1>6. \A c : BaseOf(B, c) \in Nat
  BY MapTypes DEF BaseOf
<1> HIDE DEF f, b
<1>7. Summable(g)
  BY <1>4, <1>6 DEF Summable
<1>8. /\ b \in [DOMAIN g -> DOMAIN f]
      /\ \A x, y \in DOMAIN g : b[x] = b[y] => x = y
      /\ \A x \in DOMAIN g : g[x] = f[b[x]]
      /\ \A y \in DOMAIN f : (\A x \in DOMAIN g : b[x] # y) => f[y] = 0
  <2>1. b \in [DOMAIN g -> DOMAIN f] /\ \A x, y \in DOMAIN g : b[x] = b[y] => x = y
    BY <1>2, <1>3, <1>4
  <2>2. ASSUME NEW x \in DOMAIN g PROVE g[x] = f[b[x]]
    <3>1. s[x].cid \in S /\ x \in K
      BY <1>4
    <3>2. J[s[x].cid] = I[s[x].cid]
      BY <1>1, <1>2, <3>1
    <3> QED
      BY <1>2, <1>3, <1>4, <1>5, <3>1, <3>2
  <2>3. ASSUME NEW y \in DOMAIN f, \A x \in DOMAIN g : b[x] # y PROVE FALSE
    <3>1. PICK k \in K : s[k].cid = y
      BY <1>2, <1>3
    <3> QED
      BY <1>4, <2>3, <3>1
  <2> QED
    BY <2>1, <2>2, <2>3
<1>9. SumFunction(g) = SumFunction(f) /\ SumFunction(g) \in Int
  BY <1>3, <1>7, <1>8, SumVia, SumType
<1> QED
  BY <1>9 DEF f, J

LEMMA OfClientsPart ==
    ASSUME NEW I, Books(I), BookTypes, TypeOK, NEW u \in Users
    PROVE  OfClients(u) = SumFunction(Dues(Part(I, DOMAIN client), seen, u)) /\ OfClients(u) \in Int
<1> DEFINE J == Part(I, DOMAIN client)
           g == [c \in DOMAIN client |-> IF client[c].cn = u THEN client[c].bytes - Base(c) ELSE 0]
<1>1. /\ I \in RowMaps /\ IsFiniteSet(DOMAIN I) /\ seen \in NatMaps
      /\ \A c \in DOMAIN client : c \in DOMAIN I /\ I[c] = Total(client[c])
  BY DEF Books, BookTypes, Tells, Open
<1>2. \A c \in DOMAIN client : I[c].cn = client[c].cn /\ I[c].bytes = client[c].bytes
  <2>1. \A c \in DOMAIN client : client[c].bytes \in Nat /\ client[c].cn \in Users
    BY ClientTypes DEF Sessions
  <2> QED
    BY <1>1, <2>1, TotalTypes
<1>3. J \in RowMaps /\ IsFiniteSet(DOMAIN J) /\ DOMAIN J = DOMAIN I \cap DOMAIN client /\ \A c \in DOMAIN I \cap DOMAIN client : J[c] = I[c]
  BY <1>1, PartFacts
<1>4. DOMAIN J = DOMAIN client
  BY <1>1, <1>3
<1> HIDE DEF J
<1>5. Dues(J, seen, u) = g
  <2>1. Dues(J, seen, u) = [c \in DOMAIN client |-> IF J[c].cn = u THEN J[c].bytes - BaseOf(seen, c) ELSE 0]
    BY <1>4 DEF Dues
  <2>2. \A c \in DOMAIN client : J[c].cn = client[c].cn /\ J[c].bytes = client[c].bytes /\ BaseOf(seen, c) = Base(c)
    BY <1>1, <1>2, <1>3 DEF BaseOf, Base
  <2> QED
    BY <2>1, <2>2
<1> QED
  BY <1>1, <1>3, <1>5, DuesFacts DEF OfClients, J

LEMMA OfEventsPart ==
    ASSUME NEW I, Books(I), BookTypes, TypeOK, NEW u \in Users
    PROVE  /\ OfEnded(u) = SumFunction(Dues(Part(I, EndedCids), seen, u)) /\ OfEnded(u) \in Int
           /\ OfUnread(u) = SumFunction(Dues(Part(I, UnreadCids), seen, u)) /\ OfUnread(u) \in Int
<1>1. /\ I \in RowMaps /\ IsFiniteSet(DOMAIN I) /\ seen \in NatMaps /\ Tells(I)
  BY DEF Books, BookTypes
<1>2. \A c : BaseOf(seen, c) = Base(c)
  BY DEF BaseOf, Base
<1>3. OfEnded(u) = SumFunction(Dues(Part(I, EndedCids), seen, u)) /\ OfEnded(u) \in Int
  <2> DEFINE K == DOMAIN ended
  <2>1. /\ IsFiniteSet(K) /\ \A k \in K : ended[k].cn \in Users /\ ended[k].bytes \in Nat
    BY QueueTypes, FS_Interval
  <2>2. \A k \in K : ended[k].cid \in DOMAIN I /\ I[ended[k].cid] = Total(ended[k])
    BY <1>1 DEF Tells, Open, EndedCids
  <2>3. \A j, k \in K : ended[j].cid = ended[k].cid => j = k
    BY <1>1 DEF Tells
  <2> DEFINE g == [k \in K |-> IF ended[k].cn = u THEN ended[k].bytes - Base(ended[k].cid) ELSE 0]
  <2>4. DOMAIN g = K /\ \A k \in K : g[k] = IF ended[k].cn = u THEN ended[k].bytes - BaseOf(seen, ended[k].cid) ELSE 0
    BY <1>2
  <2>5. OfEnded(u) = SumFunction(g)
    BY DEF OfEnded
  <2>6. /\ \A k \in K : ended[k].cid \in EndedCids
        /\ \A c \in EndedCids : \E k \in K : ended[k].cid = c
    BY DEF EndedCids
  <2>7. K \subseteq DOMAIN ended
    OBVIOUS
  <2> HIDE DEF K, g
  <2>8. Entries(I, seen, u, ended, K, EndedCids, g)
    BY <1>1, <2>1, <2>2, <2>3, <2>4, <2>6 DEF Entries
  <2> QED
    BY <2>5, <2>8, EventSums
<1>4. OfUnread(u) = SumFunction(Dues(Part(I, UnreadCids), seen, u)) /\ OfUnread(u) \in Int
  <2> DEFINE K == Unread
  <2>1. IsFiniteSet(K) /\ K \subseteq DOMAIN toNode /\ \A k \in K : toNode[k].cn \in Users /\ toNode[k].bytes \in Nat
    <3>1. IsFiniteSet(1..Len(toNode)) /\ Unread \subseteq 1..Len(toNode) /\ DOMAIN toNode = 1..Len(toNode)
      BY QueueTypes, FS_Interval
    <3>2. IsFiniteSet(Unread)
      BY <3>1, FS_Subset
    <3> QED
      BY <3>1, <3>2, QueueTypes
  <2>2. \A k \in K : toNode[k].cid \in DOMAIN I /\ I[toNode[k].cid] = Total(toNode[k])
    BY <1>1 DEF Tells, Open
  <2>3. \A j, k \in K : toNode[j].cid = toNode[k].cid => j = k
    BY <1>1 DEF Tells
  <2> DEFINE g == [k \in K |-> IF toNode[k].cn = u THEN toNode[k].bytes - Base(toNode[k].cid) ELSE 0]
  <2>4. DOMAIN g = K /\ \A k \in K : g[k] = IF toNode[k].cn = u THEN toNode[k].bytes - BaseOf(seen, toNode[k].cid) ELSE 0
    BY <1>2
  <2>5. OfUnread(u) = SumFunction(g)
    BY DEF OfUnread
  <2>6. /\ \A k \in K : toNode[k].cid \in UnreadCids
        /\ \A c \in UnreadCids : \E k \in K : toNode[k].cid = c
    BY DEF UnreadCids
  <2> HIDE DEF K, g
  <2>8. Entries(I, seen, u, toNode, K, UnreadCids, g)
    BY <1>1, <2>1, <2>2, <2>3, <2>4, <2>6 DEF Entries
  <2> QED
    BY <2>5, <2>8, EventSums
<1> QED
  BY <1>3, <1>4

LEMMA NoClientsTypes == DOMAIN NoClients = {} /\ NoClients \in RowMaps /\ NoClients \in NatMaps
<1>1. DOMAIN NoClients = {} /\ NoClients \in [{} -> Row] /\ NoClients \in [{} -> Nat]
  BY DEF NoClients
<1> HIDE DEF NoClients
<1> QED
  BY <1>1 DEF RowMaps, NatMaps

LEMMA PartPart ==
    ASSUME NEW I, NEW T, NEW S \in SUBSET T
    PROVE  Part(Part(I, T), S) = Part(I, S)
<1>1. DOMAIN Part(I, T) \cap S = DOMAIN I \cap S
  BY DEF Part
<1>2. \A c \in DOMAIN I \cap S : Part(I, T)[c] = I[c]
  BY DEF Part
<1> DEFINE J == Part(I, T)
<1>3. DOMAIN J \cap S = DOMAIN I \cap S /\ \A c \in DOMAIN I \cap S : J[c] = I[c]
  BY <1>1, <1>2
<1> HIDE DEF J
<1>4. Part(J, S) = Part(I, S)
  BY <1>3 DEF Part
<1> QED
  BY <1>4 DEF J

(* What the books say is what is to be counted of the clients, of the ends *)
(* unread and of the ends read.                                            *)
LEMMA DuesAdd ==
    ASSUME NEW I, Books(I), BookTypes, TypeOK, NEW u \in Users
    PROVE  /\ SumFunction(Dues(I, seen, u)) = OfClients(u) + SumFunction(Dues(Part(I, UnreadCids \cup EndedCids), seen, u))
           /\ SumFunction(Dues(Part(I, UnreadCids \cup EndedCids), seen, u)) = OfUnread(u) + OfEnded(u)
           /\ OfClients(u) \in Int /\ OfUnread(u) \in Int /\ OfEnded(u) \in Int
           /\ OfEnded(u) = SumFunction(Dues(Part(I, EndedCids), seen, u))
<1>1. I \in RowMaps /\ IsFiniteSet(DOMAIN I) /\ seen \in NatMaps /\ Tells(I)
  BY DEF Books, BookTypes
<1> DEFINE T == UnreadCids \cup EndedCids
           J == Part(I, T)
<1>2. DOMAIN I = DOMAIN client \cup T /\ \A c \in DOMAIN client : c \notin T
  BY <1>1 DEF Tells, Open, UnreadCids
<1>3. \A c \in UnreadCids : c \notin EndedCids
  BY <1>1 DEF Tells, UnreadCids
<1>4. SumFunction(Dues(I, seen, u)) = SumFunction(Dues(Part(I, DOMAIN client), seen, u)) + SumFunction(Dues(J, seen, u))
  <2>1. DOMAIN I \subseteq DOMAIN client \cup T /\ \A c \in DOMAIN I : ~(c \in DOMAIN client /\ c \in T)
    BY <1>2
  <2> HIDE DEF T
  <2> QED
    BY <1>1, <2>1, PartSums
<1>5. J \in RowMaps /\ IsFiniteSet(DOMAIN J) /\ DOMAIN J = DOMAIN I \cap T
  BY <1>1, PartFacts
<1>6. Part(J, UnreadCids) = Part(I, UnreadCids) /\ Part(J, EndedCids) = Part(I, EndedCids)
  BY PartPart
<1> HIDE DEF J
<1>7. SumFunction(Dues(J, seen, u)) = SumFunction(Dues(Part(J, UnreadCids), seen, u)) + SumFunction(Dues(Part(J, EndedCids), seen, u))
  <2>1. DOMAIN J \subseteq UnreadCids \cup EndedCids /\ \A c \in DOMAIN J : ~(c \in UnreadCids /\ c \in EndedCids)
    BY <1>3, <1>5
  <2> QED
    BY <1>1, <1>5, <2>1, PartSums
<1> QED
  BY <1>4, <1>6, <1>7, OfClientsPart, OfEventsPart DEF J

(* The daemon ends without a report: its clients, and what was not counted *)
(* of them, are no longer of account.                                      *)
LEMMA LossBooks ==
    ASSUME NEW I, Books(I), BookTypes, TypeOK,
           DOMAIN client' = {}, owed' = [u \in Users |-> owed[u] - OfClients(u)],
           UNCHANGED <<link, nextCid, toNode, lastStatus, seen, ended, snap, poll, cum>>
    PROVE  BookTypes' /\ \E J : Books(J)'
<1> DEFINE T == UnreadCids \cup EndedCids
<1>1. I \in RowMaps /\ IsFiniteSet(DOMAIN I) /\ Tells(I)
  BY DEF Books
<1>2. PICK J : J = Part(I, T)
  OBVIOUS
<1>3. J \in RowMaps /\ IsFiniteSet(DOMAIN J) /\ DOMAIN J = T /\ \A c \in T : c \in DOMAIN I /\ J[c] = I[c]
  <2>1. T \subseteq DOMAIN I
    BY <1>1 DEF Tells, Open, UnreadCids
  <2> HIDE DEF T
  <2>2. /\ Part(I, T) \in RowMaps /\ IsFiniteSet(DOMAIN Part(I, T))
        /\ DOMAIN Part(I, T) = DOMAIN I \cap T /\ \A c \in DOMAIN I \cap T : Part(I, T)[c] = I[c]
    BY ONLY <1>1, PartFacts
  <2> QED
    BY <1>2, <2>1, <2>2
<1>4. /\ Unread' = Unread /\ UnreadCids' = UnreadCids /\ EndedCids' = EndedCids
      /\ Views' = Views /\ \A k : View(k)' = View(k)
  BY DEF Unread, UnreadCids, EndedCids, Views, View
<1>5. Tells(J)'
  <2>1. DOMAIN J = Open'
    BY <1>3, <1>4 DEF Open, UnreadCids
  <2>2. \A k \in Unread : toNode[k].cid \in T
    BY DEF UnreadCids
  <2>3. \A k \in DOMAIN ended : ended[k].cid \in T
    BY DEF EndedCids
  <2> QED
    BY <1>1, <1>3, <1>4, <2>1, <2>2, <2>3 DEF Tells
<1>6. Fresh' /\ Chain' /\ Listed(J)' /\ Bases(J)' /\ Late(J)'
  <2> HIDE DEF T
  <2>1. Fresh' /\ Chain'
    BY <1>4 DEF Books, Fresh, Chain
  <2>2. Listed(J)' /\ Bases(J)'
    BY <1>3, <1>4 DEF Books, Listed, Bases
  <2>3. Late(J)'
    BY <1>3, <1>4 DEF Books, Late
  <2> QED
    BY <2>1, <2>2, <2>3
<1>7. BookTypes'
  <2>1. \A u \in Users : owed[u] - OfClients(u) \in Int
    BY DuesAdd DEF BookTypes
  <2>2. owed' \in [Users -> Int]
    BY <2>1
  <2> QED
    BY <2>2 DEF BookTypes
<1>8. Balanced(J)'
  <2> SUFFICES ASSUME NEW u \in Users PROVE cum[u] + SumFunction(Dues(J, seen, u)) = owed'[u]
    BY DEF Balanced
  <2>1. /\ SumFunction(Dues(I, seen, u)) = OfClients(u) + SumFunction(Dues(J, seen, u))
        /\ OfClients(u) \in Int /\ SumFunction(Dues(J, seen, u)) \in Int
    <3>1. seen \in NatMaps
      BY DEF BookTypes
    <3> QED
      BY <1>2, <1>3, <3>1, DuesAdd, DuesFacts
  <2>2. owed'[u] = owed[u] - OfClients(u) /\ cum[u] \in Int /\ owed[u] \in Int
    BY DEF BookTypes
  <2>3. cum[u] + SumFunction(Dues(I, seen, u)) = owed[u]
    BY DEF Books, Balanced
  <2> QED
    BY <2>1, <2>2, <2>3
<1> QED
  BY <1>3, <1>5, <1>6, <1>7, <1>8 DEF Books

(* Restart closes the connection with what is unread on it.                *)
LEMMA ReconnectBooks ==
    ASSUME NEW I, Books(I), BookTypes, TypeOK, DOMAIN client = {}, Len(toNode') = 0,
           toNode' = <<>>, lastStatus' = NoClients,
           poll' = (IF poll = "wait" THEN "late" ELSE poll), snap' = (IF poll = "wait" THEN lastStatus ELSE snap),
           owed' = [u \in Users |-> owed[u] - OfUnread(u)],
           UNCHANGED <<client, seen, ended, cum>>
    PROVE  BookTypes' /\ \E J : Books(J)'
<1>1. I \in RowMaps /\ IsFiniteSet(DOMAIN I) /\ Tells(I)
  BY DEF Books
<1>2. PICK J : J = Part(I, EndedCids)
  OBVIOUS
<1>3. J \in RowMaps /\ IsFiniteSet(DOMAIN J) /\ DOMAIN J = EndedCids /\ \A c \in EndedCids : c \in DOMAIN I /\ J[c] = I[c]
  <2>1. EndedCids \subseteq DOMAIN I
    BY <1>1 DEF Tells, Open
  <2>2. /\ Part(I, EndedCids) \in RowMaps /\ IsFiniteSet(DOMAIN Part(I, EndedCids))
        /\ DOMAIN Part(I, EndedCids) = DOMAIN I \cap EndedCids /\ \A c \in DOMAIN I \cap EndedCids : Part(I, EndedCids)[c] = I[c]
    BY ONLY <1>1, PartFacts
  <2> QED
    BY <1>2, <2>1, <2>2
<1>4. /\ Unread' = {} /\ UnreadCids' = {} /\ EndedCids' = EndedCids
      /\ Views' = {0} /\ View(0)' = NoClients /\ DOMAIN NoClients = {}
  BY DEF Unread, UnreadCids, EndedCids, Views, View, NoClients
<1>5. Tells(J)'
  <2>1. DOMAIN J = Open'
    BY <1>3, <1>4 DEF Open
  <2>3. \A k \in DOMAIN ended : ended[k].cid \in EndedCids
    BY DEF EndedCids
  <2> QED
    BY <1>1, <1>3, <1>4, <2>1, <2>3 DEF Tells
<1>6. Fresh' /\ Chain' /\ Listed(J)'
  BY <1>4 DEF Fresh, Chain, Listed
<1>7. Bases(J)'
  BY <1>3, <1>4 DEF Books, Bases
<1>8. Late(J)'
  <2>1. CASE poll = "wait"
    <3>1. 0 \in Views /\ View(0) = lastStatus
      BY QueueTypes DEF Views, View
    <3>2. \A c \in DOMAIN lastStatus :
            /\ c \in DOMAIN I => lastStatus[c].cn = I[c].cn /\ lastStatus[c].bytes <= I[c].bytes
            /\ c \in DOMAIN seen => seen[c] <= lastStatus[c].bytes
      BY <3>1 DEF Books, Listed, Bases
    <3> QED
      BY <1>3, <1>4, <2>1, <3>2 DEF Late
  <2>2. CASE poll # "wait"
    BY <1>3, <1>4, <2>2 DEF Books, Late
  <2> QED
    BY <2>1, <2>2
<1>9. BookTypes'
  <2>1. \A u \in Users : owed[u] - OfUnread(u) \in Int
    BY DuesAdd DEF BookTypes
  <2>2. owed' \in [Users -> Int]
    BY <2>1
  <2>3. NoClients \in RowMaps
    BY NoClientsTypes
  <2> QED
    BY <2>2, <2>3 DEF BookTypes
<1>10. Balanced(J)'
  <2> SUFFICES ASSUME NEW u \in Users PROVE cum[u] + SumFunction(Dues(J, seen, u)) = owed'[u]
    BY DEF Balanced
  <2>0. OfClients(u) = 0
    <3> DEFINE g == [c \in DOMAIN client |-> IF client[c].cn = u THEN client[c].bytes - Base(c) ELSE 0]
    <3>1. DOMAIN g = {}
      OBVIOUS
    <3>4. OfClients(u) = SumFunction(g)
      BY DEF OfClients
    <3> HIDE DEF g
    <3>2. Summable(g)
      BY <3>1, FS_EmptySet DEF Summable
    <3> QED
      BY <3>1, <3>2, <3>4, SumZero
  <2>1. /\ SumFunction(Dues(I, seen, u)) = OfClients(u) + (OfUnread(u) + OfEnded(u))
        /\ OfUnread(u) \in Int /\ OfEnded(u) \in Int /\ OfEnded(u) = SumFunction(Dues(J, seen, u))
    BY <1>2, DuesAdd
  <2>2. owed'[u] = owed[u] - OfUnread(u) /\ cum[u] \in Int /\ owed[u] \in Int
    BY DEF BookTypes
  <2>3. cum[u] + SumFunction(Dues(I, seen, u)) = owed[u]
    BY DEF Books, Balanced
  <2> QED
    BY <2>0, <2>1, <2>2, <2>3
<1> QED
  BY <1>3, <1>5, <1>6, <1>7, <1>8, <1>9, <1>10 DEF Books

LEMMA WithFacts ==
    ASSUME NEW I, I \in RowMaps, IsFiniteSet(DOMAIN I), NEW k \in Nat, NEW r \in Row
    PROVE  /\ With(I, k, r) \in RowMaps /\ IsFiniteSet(DOMAIN With(I, k, r)) /\ DOMAIN With(I, k, r) = DOMAIN I \cup {k}
           /\ With(I, k, r)[k] = r /\ \A c \in DOMAIN I \ {k} : With(I, k, r)[c] = I[c]
<1> DEFINE J == With(I, k, r)
<1>1. /\ DOMAIN J = DOMAIN I \cup {k} /\ J = [c \in DOMAIN J |-> J[c]]
      /\ J[k] = r /\ \A c \in DOMAIN I \ {k} : J[c] = I[c]
  BY DEF With
<1> HIDE DEF J
<1>2. DOMAIN I \subseteq Nat /\ \A c \in DOMAIN I : I[c] \in Row
  <2>1. \A c \in DOMAIN I : I[c].cn \in Users /\ I[c].bytes \in Nat /\ I[c] = Total(I[c])
    BY MapTypes
  <2> QED
    BY <2>1, MapTypes, TotalTypes
<1>3. J \in RowMaps
  BY <1>1, <1>2, MakeMap
<1>4. IsFiniteSet(DOMAIN J)
  BY <1>1, FS_AddElement
<1> QED
  BY <1>1, <1>3, <1>4 DEF J

(* A client is announced under an id that is new to the books.             *)
LEMMA ConnectBooks ==
    ASSUME NEW I, Books(I), BookTypes, TypeOK, link, NEW e \in Events, e.type = "connect", toNode' = Append(toNode, e),
           DOMAIN client' = DOMAIN client \cup {nextCid}, \A c \in DOMAIN client : client'[c] = client[c],
           client'[nextCid].cn \in Users, client'[nextCid].bytes = 0,
           nextCid' = nextCid + 1, nextCid \notin DOMAIN seen \cup EndedCids \cup DOMAIN snap,
           UNCHANGED <<link, lastStatus, seen, ended, snap, poll, cum, owed>>
    PROVE  BookTypes' /\ \E J : Books(J)'
<1> DEFINE n == Len(toNode)
<1>0. /\ n \in Nat /\ Unread \subseteq 1..n /\ toNode \in Seq(Events)
      /\ \A k \in Views : k \in Nat /\ View(k) \in RowMaps
  BY QueueTypes DEF TypeOK
<1>1. Len(toNode') = n + 1 /\ toNode'[n + 1] = e /\ DOMAIN toNode' = 1..(n + 1) /\ \A k \in 1..n : toNode'[k] = toNode[k]
  BY <1>0
<1> HIDE DEF n
<1>2. /\ Unread' = Unread /\ UnreadCids' = UnreadCids /\ EndedCids' = EndedCids
      /\ \A k \in Unread : toNode'[k] = toNode[k]
  <2>1. DOMAIN toNode = 1..n
    BY <1>0 DEF n
  <2>2. Unread' = Unread
    BY <1>0, <1>1, <2>1 DEF Unread
  <2>3. \A k \in Unread : toNode'[k] = toNode[k]
    BY <1>0, <1>1
  <2>4. UnreadCids' = UnreadCids
    BY ONLY <2>2, <2>3 DEF UnreadCids
  <2>5. EndedCids' = EndedCids
    BY DEF EndedCids
  <2> QED
    BY <2>2, <2>3, <2>4, <2>5
<1>3. Views' = Views /\ \A k \in Views : View(k)' = View(k)
  <2>1. \A k \in Views : k \in Views' /\ View(k)' = View(k)
    BY <1>0, <1>1 DEF Views, View, n
  <2>2. \A k \in Views' : k \in Views
    BY <1>0, <1>1 DEF Views, n
  <2> QED
    BY <2>1, <2>2
<1>4. I \in RowMaps /\ IsFiniteSet(DOMAIN I) /\ Tells(I) /\ nextCid \in Nat
  BY DEF Books, TypeOK
<1>5. /\ nextCid \notin DOMAIN client /\ nextCid \notin UnreadCids /\ nextCid \notin EndedCids
      /\ \A k \in Views : nextCid \notin DOMAIN View(k)
      /\ \A c \in DOMAIN client : c < nextCid
  <2>1. \A c \in DOMAIN client : c < nextCid /\ c \in Int
    BY <1>4, ClientTypes
  <2>2. \A k \in Unread : toNode[k].cid < nextCid
    BY DEF Books, Fresh
  <2>3. \A k \in Views : \A c \in DOMAIN View(k) : c < nextCid
    BY DEF Books, Fresh
  <2>4. ~(nextCid < nextCid)
    BY <1>4
  <2> QED
    BY <2>1, <2>2, <2>3, <2>4 DEF UnreadCids
<1>6. nextCid \notin DOMAIN I
  BY <1>4, <1>5 DEF Tells, Open, UnreadCids
<1> DEFINE r == [cn |-> client'[nextCid].cn, bytes |-> 0]
<1>7. r \in Row /\ r = Total(client'[nextCid]) /\ r.bytes = 0
  BY DEF Row, Total
<1>8. PICK J : J = With(I, nextCid, r)
  OBVIOUS
<1> HIDE DEF r
<1>9. /\ J \in RowMaps /\ IsFiniteSet(DOMAIN J) /\ DOMAIN J = DOMAIN I \cup {nextCid}
      /\ J[nextCid] = r /\ \A c \in DOMAIN I : J[c] = I[c]
  <2>1. /\ With(I, nextCid, r) \in RowMaps /\ IsFiniteSet(DOMAIN With(I, nextCid, r))
        /\ DOMAIN With(I, nextCid, r) = DOMAIN I \cup {nextCid}
        /\ With(I, nextCid, r)[nextCid] = r /\ \A c \in DOMAIN I \ {nextCid} : With(I, nextCid, r)[c] = I[c]
    BY ONLY <1>4, <1>7, WithFacts
  <2> QED
    BY <1>6, <1>8, <2>1
<1>10. Tells(J)'
  <2>1. DOMAIN J = Open'
    BY <1>2, <1>4, <1>9 DEF Tells, Open, UnreadCids
  <2>2. \A c \in DOMAIN client' : J[c] = Total(client'[c]) /\ c \notin UnreadCids' \cup EndedCids'
    <3>1. \A c \in DOMAIN client : c \in DOMAIN I
      BY <1>4 DEF Tells, Open
    <3> QED
      BY <1>2, <1>4, <1>5, <1>7, <1>9, <3>1 DEF Tells
  <2>3. \A k \in Unread' : J[toNode'[k].cid] = Total(toNode'[k]) /\ toNode'[k].cid \notin EndedCids'
    <3>1. \A k \in Unread : toNode[k].cid \in DOMAIN I
      BY <1>4 DEF Tells, Open
    <3>2. \A k \in Unread : I[toNode[k].cid] = Total(toNode[k]) /\ toNode[k].cid \notin EndedCids
      BY <1>4 DEF Tells
    <3> QED
      BY ONLY <1>2, <1>9, <3>1, <3>2
  <2>4. \A k \in DOMAIN ended' : J[ended'[k].cid] = Total(ended'[k])
    <3>1. \A k \in DOMAIN ended : ended[k].cid \in DOMAIN I
      BY <1>4 DEF Tells, Open, EndedCids
    <3>2. \A k \in DOMAIN ended : I[ended[k].cid] = Total(ended[k])
      BY <1>4 DEF Tells
    <3>3. ended' = ended
      OBVIOUS
    <3> QED
      BY ONLY <1>9, <3>1, <3>2, <3>3
  <2>5. \A j, k \in Unread' : toNode'[j].cid = toNode'[k].cid => j = k
    <3>1. \A j, k \in Unread : toNode[j].cid = toNode[k].cid => j = k
      BY <1>4 DEF Tells
    <3> QED
      BY ONLY <1>2, <3>1
  <2>6. \A j, k \in DOMAIN ended' : ended'[j].cid = ended'[k].cid => j = k
    BY <1>4 DEF Tells
  <2> QED
    BY <2>1, <2>2, <2>3, <2>4, <2>5, <2>6 DEF Tells
<1>11. Fresh'
  <2>1. \A k \in Unread : toNode[k].cid < nextCid + 1
    <3>1. \A k \in Unread : toNode[k].cid \in Nat /\ toNode[k].cid < nextCid
      BY QueueTypes DEF Books, Fresh
    <3> QED
      BY <1>4, <3>1
  <2>2. \A k \in Views : \A c \in DOMAIN View(k) : c < nextCid + 1
    <3> SUFFICES ASSUME NEW k \in Views, NEW c \in DOMAIN View(k) PROVE c < nextCid + 1
      OBVIOUS
    <3>1. c \in Nat /\ c < nextCid
      BY <1>0, MapTypes DEF Books, Fresh
    <3> QED
      BY <1>4, <3>1
  <2> QED
    BY <1>2, <1>3, <2>1, <2>2 DEF Fresh
<1>12. Listed(J)'
  BY <1>3, <1>5, <1>9 DEF Books, Listed
<1>13. Chain'
  <2> SUFFICES ASSUME NEW j \in Views, NEW k \in Views, j < k, NEW c \in DOMAIN View(j)
               PROVE  /\ c \in DOMAIN View(k) => View(j)[c].bytes <= View(k)[c].bytes
                      /\ c \in DOMAIN client' \/ (\E m \in Unread : m > k /\ toNode'[m].cid = c) => c \in DOMAIN View(k)
    BY <1>2, <1>3 DEF Chain
  <2>1. /\ c \in DOMAIN View(k) => View(j)[c].bytes <= View(k)[c].bytes
        /\ c \in DOMAIN client \/ (\E m \in Unread : m > k /\ toNode[m].cid = c) => c \in DOMAIN View(k)
    BY DEF Books, Chain
  <2> QED
    BY <1>2, <1>5, <2>1
<1>14. Bases(J)'
  BY <1>2, <1>3, <1>9 DEF Books, Bases
<1>15. Late(J)'
  BY <1>2, <1>3, <1>9 DEF Books, Late
<1>16. BookTypes'
  BY DEF BookTypes
<1>17. Balanced(J)'
  <2> SUFFICES ASSUME NEW u \in Users PROVE SumFunction(Dues(J, seen, u)) = SumFunction(Dues(I, seen, u))
    BY DEF Balanced, Books
  <2>1. seen \in NatMaps /\ BaseOf(seen, nextCid) = 0
    BY DEF BookTypes, BaseOf
  <2> DEFINE f == Dues(J, seen, u)
             g == Dues(I, seen, u)
  <2>2. /\ DOMAIN f = DOMAIN J /\ Summable(f)
        /\ \A c \in DOMAIN J : f[c] = IF J[c].cn = u THEN J[c].bytes - BaseOf(seen, c) ELSE 0
    BY <1>9, <2>1, DuesFacts
  <2>3. /\ DOMAIN g = DOMAIN I /\ Summable(g)
        /\ \A c \in DOMAIN I : g[c] = IF I[c].cn = u THEN I[c].bytes - BaseOf(seen, c) ELSE 0
    BY <1>4, <2>1, DuesFacts
  <2> HIDE DEF f, g
  <2>4. f[nextCid] = 0
    BY <1>7, <1>9, <2>1, <2>2
  <2>5. /\ DOMAIN g \subseteq DOMAIN f /\ \A x \in DOMAIN g : g[x] = f[x]
        /\ \A x \in DOMAIN f : x \notin DOMAIN g => f[x] = 0
    BY <1>9, <2>2, <2>3, <2>4
  <2>6. SumFunction(g) = SumFunction(f)
    BY <2>2, <2>3, <2>5, SumPad
  <2> QED
    BY <2>6 DEF f, g
<1> QED
  BY <1>9, <1>10, <1>11, <1>12, <1>13, <1>14, <1>15, <1>16, <1>17 DEF Books

(* A client moves a byte.                                                  *)
LEMMA MoveBooks ==
    ASSUME NEW I, Books(I), BookTypes, TypeOK, NEW k \in DOMAIN client,
           DOMAIN client' = DOMAIN client, \A c \in DOMAIN client : c # k => client'[c] = client[c],
           client'[k].cn = client[k].cn, client'[k].bytes = client[k].bytes + 1, client'[k].st = client[k].st,
           owed' = [owed EXCEPT ![client[k].cn] = @ + 1],
           UNCHANGED <<toNode, link, nextCid, lastStatus, seen, ended, snap, poll, cum>>
    PROVE  BookTypes' /\ \E J : Books(J)'
<1>1. /\ Unread' = Unread /\ UnreadCids' = UnreadCids /\ EndedCids' = EndedCids
      /\ Views' = Views /\ \A j : View(j)' = View(j)
  BY DEF Unread, UnreadCids, EndedCids, Views, View
<1>2. /\ I \in RowMaps /\ IsFiniteSet(DOMAIN I) /\ Tells(I) /\ k \in DOMAIN I /\ k \in Nat
      /\ client[k].cn \in Users /\ client[k].bytes \in Nat
  <2>1. k \in Nat /\ client[k] \in Sessions
    BY ClientTypes
  <2> QED
    BY <2>1 DEF Books, Tells, Open, Sessions
<1>3. I[k].cn = client[k].cn /\ I[k].bytes = client[k].bytes
  BY <1>2, TotalTypes DEF Tells
<1>0. PICK r : r = [cn |-> client[k].cn, bytes |-> client[k].bytes + 1]
  OBVIOUS
<1>4. r \in Row /\ r = Total(client'[k]) /\ r.bytes = I[k].bytes + 1 /\ r.cn = I[k].cn
  BY <1>0, <1>2, <1>3 DEF Row, Total
<1>5. PICK J : J = With(I, k, r)
  OBVIOUS
<1>6. /\ J \in RowMaps /\ IsFiniteSet(DOMAIN J) /\ DOMAIN J = DOMAIN I
      /\ J[k] = r /\ \A c \in DOMAIN I : c # k => J[c] = I[c]
  <2>1. /\ DOMAIN J = DOMAIN I /\ J = [c \in DOMAIN J |-> J[c]]
        /\ J[k] = r /\ \A c \in DOMAIN I : c # k => J[c] = I[c]
    BY <1>2, <1>5 DEF With
  <2>2. \A c \in DOMAIN I : I[c] \in Row
    <3>1. \A c \in DOMAIN I : I[c].cn \in Users /\ I[c].bytes \in Nat /\ I[c] = Total(I[c])
      BY <1>2, MapTypes
    <3> QED
      BY <3>1, TotalTypes
  <2>3. J \in RowMaps
    BY <1>2, <1>4, <2>1, <2>2, MapTypes, MakeMap
  <2> QED
    BY <1>2, <2>1, <2>3
<1>7. /\ \A c \in DOMAIN I : I[c].bytes \in Nat /\ J[c].cn = I[c].cn /\ J[c].bytes = IF c = k THEN I[c].bytes + 1 ELSE I[c].bytes
      /\ k \notin UnreadCids \cup EndedCids
  <2>1. \A c \in DOMAIN I : I[c].bytes \in Nat
    BY <1>2, MapTypes
  <2> QED
    BY <1>2, <1>4, <1>6, <2>1 DEF Tells
<1>8. Tells(J)'
  <2>1. DOMAIN J = Open'
    BY <1>1, <1>2, <1>6 DEF Tells, Open, UnreadCids
  <2>2. \A c \in DOMAIN client' : J[c] = Total(client'[c]) /\ c \notin UnreadCids' \cup EndedCids'
    <3>1. \A c \in DOMAIN client : c \in DOMAIN I
      BY <1>2 DEF Tells, Open
    <3> QED
      BY <1>1, <1>2, <1>4, <1>6, <3>1 DEF Tells
  <2>3. \A j \in Unread' : J[toNode'[j].cid] = Total(toNode'[j]) /\ toNode'[j].cid \notin EndedCids'
    <3>1. \A j \in Unread : toNode[j].cid \in DOMAIN I /\ toNode[j].cid # k
      BY <1>2, <1>7 DEF Tells, Open, UnreadCids
    <3> QED
      BY <1>1, <1>2, <1>6, <3>1 DEF Tells
  <2>4. \A j \in DOMAIN ended' : J[ended'[j].cid] = Total(ended'[j])
    <3>1. \A j \in DOMAIN ended : ended[j].cid \in DOMAIN I /\ ended[j].cid # k
      BY <1>2, <1>7 DEF Tells, Open, EndedCids
    <3> QED
      BY <1>2, <1>6, <3>1 DEF Tells
  <2>5. \A i, j \in Unread' : toNode'[i].cid = toNode'[j].cid => i = j
    BY <1>1, <1>2 DEF Tells
  <2>6. \A i, j \in DOMAIN ended' : ended'[i].cid = ended'[j].cid => i = j
    BY <1>2 DEF Tells
  <2> QED
    BY <2>1, <2>2, <2>3, <2>4, <2>5, <2>6 DEF Tells
<1>9. Fresh' /\ Chain'
  BY <1>1 DEF Books, Fresh, Chain
<1>10. \A x : \A c \in DOMAIN I : x \in Nat /\ x <= I[c].bytes => x <= J[c].bytes
  BY <1>7
<1>11. Listed(J)'
  <2> SUFFICES ASSUME NEW j \in Views, NEW c \in DOMAIN View(j)
               PROVE  /\ c \in DOMAIN client' => client'[c].st = "up"
                      /\ c \in DOMAIN J => View(j)[c].cn = J[c].cn /\ View(j)[c].bytes <= J[c].bytes
    BY <1>1 DEF Listed
  <2>1. /\ c \in DOMAIN client => client[c].st = "up"
        /\ c \in DOMAIN I => View(j)[c].cn = I[c].cn /\ View(j)[c].bytes <= I[c].bytes
    BY DEF Books, Listed
  <2>2. View(j)[c].bytes \in Nat
    BY QueueTypes, MapTypes
  <2>3. c \in DOMAIN client => client'[c].st = client[c].st
    OBVIOUS
  <2> QED
    BY <1>6, <1>7, <1>10, <2>1, <2>2, <2>3
<1>12. Bases(J)'
  <2>1. \A c \in DOMAIN seen : seen[c] \in Nat
    BY MapTypes DEF BookTypes
  <2> QED
    BY <1>1, <1>6, <1>10, <2>1 DEF Books, Bases
<1>13. Late(J)'
  <2>1. \A c \in DOMAIN snap : snap[c].bytes \in Nat
    BY MapTypes DEF BookTypes
  <2> QED
    BY <1>1, <1>6, <1>7, <1>10, <2>1 DEF Books, Late
<1>14. BookTypes'
  <2>1. owed \in [Users -> Int]
    BY DEF BookTypes
  <2>2. owed' \in [Users -> Int]
    BY <1>2, <2>1
  <2> QED
    BY <2>2 DEF BookTypes
<1>15. Balanced(J)'
  <2> SUFFICES ASSUME NEW u \in Users PROVE cum[u] + SumFunction(Dues(J, seen, u)) = owed'[u]
    BY DEF Balanced
  <2>1. seen \in NatMaps /\ \A c : BaseOf(seen, c) \in Nat
    BY MapTypes DEF BookTypes, BaseOf
  <2> DEFINE f == Dues(J, seen, u)
             g == Dues(I, seen, u)
             d == [c \in DOMAIN I |-> IF c = k /\ I[k].cn = u THEN 1 ELSE 0]
  <2>2. /\ DOMAIN f = DOMAIN I /\ Summable(f)
        /\ \A c \in DOMAIN I : f[c] = IF J[c].cn = u THEN J[c].bytes - BaseOf(seen, c) ELSE 0
    BY <1>6, <2>1, DuesFacts
  <2>3. /\ DOMAIN g = DOMAIN I /\ Summable(g) /\ SumFunction(g) \in Int
        /\ \A c \in DOMAIN I : g[c] = IF I[c].cn = u THEN I[c].bytes - BaseOf(seen, c) ELSE 0
    BY <1>2, <2>1, DuesFacts
  <2>4. DOMAIN d = DOMAIN I /\ \A c \in DOMAIN I : d[c] = IF c = k /\ I[k].cn = u THEN 1 ELSE 0
    OBVIOUS
  <2> HIDE DEF f, g, d
  <2>5. Summable(d)
    BY <1>2, <2>4 DEF Summable
  <2>6. SumFunction(d) = IF I[k].cn = u THEN 1 ELSE 0
    <3>1. k \in DOMAIN d /\ \A y \in DOMAIN d : y # k => d[y] = 0
      BY <1>2, <2>4
    <3>2. SumFunction(d) = d[k]
      BY <2>5, <3>1, SumSingle
    <3> QED
      BY <1>2, <2>4, <3>2
  <2>7. \A c \in DOMAIN f : f[c] = g[c] + d[c]
    <3> SUFFICES ASSUME NEW c \in DOMAIN I PROVE f[c] = g[c] + d[c]
      BY <2>2
    <3>1. I[c].bytes \in Nat /\ J[c].cn = I[c].cn /\ J[c].bytes = IF c = k THEN I[c].bytes + 1 ELSE I[c].bytes
      BY <1>7
    <3>2. BaseOf(seen, c) \in Nat
      BY <2>1
    <3>3. f[c] = IF I[c].cn = u THEN (IF c = k THEN I[c].bytes + 1 ELSE I[c].bytes) - BaseOf(seen, c) ELSE 0
      BY <2>2, <3>1
    <3>4. g[c] = IF I[c].cn = u THEN I[c].bytes - BaseOf(seen, c) ELSE 0
      BY <2>3
    <3>5. d[c] = IF c = k /\ I[c].cn = u THEN 1 ELSE 0
      BY <2>4
    <3> QED
      BY <3>1, <3>2, <3>3, <3>4, <3>5
  <2>8. SumFunction(f) = SumFunction(g) + SumFunction(d)
    BY <2>2, <2>3, <2>4, <2>5, <2>7, SumAdd
  <2>9. cum[u] + SumFunction(g) = owed[u]
    BY DEF Books, Balanced, g
  <2>10. /\ owed'[u] = owed[u] + (IF I[k].cn = u THEN 1 ELSE 0)
         /\ owed[u] \in Int /\ cum[u] \in Int
    BY <1>3 DEF BookTypes
  <2>11. cum[u] + SumFunction(f) = owed'[u]
    BY <2>3, <2>6, <2>8, <2>9, <2>10
  <2> QED
    BY <2>11 DEF f
<1> QED
  BY <1>6, <1>8, <1>9, <1>11, <1>12, <1>13, <1>14, <1>15 DEF Books

(* The rows a poll counts: of sessions the books list, between the base    *)
(* and the total, and every base of a session that goes on has a row.      *)
Countable(I, rows) ==
    /\ rows \in RowMaps /\ DOMAIN rows \subseteq DOMAIN I
    /\ \A c \in DOMAIN rows : /\ rows[c].cn = I[c].cn /\ rows[c].bytes <= I[c].bytes
                              /\ c \in DOMAIN seen => seen[c] <= rows[c].bytes
    /\ \A c \in DOMAIN seen : /\ c \in DOMAIN I => seen[c] <= I[c].bytes
                              /\ c \in DOMAIN client \cup UnreadCids => c \in DOMAIN rows

LEMMA BasedFacts ==
    ASSUME NEW I, NEW rows, Countable(I, rows), BookTypes
    PROVE  /\ Based(rows) \in NatMaps
           /\ \A c : BaseOf(Based(rows), c) = IF c \in DOMAIN rows THEN rows[c].bytes ELSE BaseOf(seen, c)
           /\ \A c : BaseOf(seen, c) \in Nat /\ BaseOf(Based(rows), c) \in Nat
           /\ DOMAIN Based(rows) = DOMAIN seen \cup DOMAIN rows
<1> DEFINE M == Based(rows)
<1>1. /\ DOMAIN seen \subseteq Nat /\ \A c \in DOMAIN seen : seen[c] \in Nat
      /\ DOMAIN rows \subseteq Nat /\ \A c \in DOMAIN rows : rows[c].bytes \in Nat
  BY MapTypes DEF BookTypes, Countable
<1>2. /\ DOMAIN M = DOMAIN seen \cup DOMAIN rows /\ M = [c \in DOMAIN M |-> M[c]]
      /\ \A c \in DOMAIN M : M[c] = IF c \in DOMAIN rows THEN rows[c].bytes ELSE seen[c]
  BY DEF Based
<1> HIDE DEF M
<1>3. DOMAIN M \in SUBSET Nat /\ \A c \in DOMAIN M : M[c] \in Nat
  BY <1>1, <1>2
<1>4. M \in NatMaps
  BY <1>2, <1>3 DEF NatMaps
<1> QED
  BY <1>1, <1>2, <1>4 DEF M, BaseOf

LEMMA RowSums ==
    ASSUME NEW I, Books(I), BookTypes, TypeOK, NEW rows, Countable(I, rows), NEW u \in Users, NEW g,
           DOMAIN g = DOMAIN rows, \A c \in DOMAIN rows : g[c] = IF rows[c].cn = u THEN RowGrowth(rows, c) ELSE 0
    PROVE  /\ SumFunction(Dues(I, seen, u)) = SumFunction(g) + SumFunction(Dues(I, Based(rows), u))
           /\ SumFunction(g) \in Int
<1> DEFINE p == [c \in DOMAIN I |-> IF c \in DOMAIN rows /\ I[c].cn = u THEN rows[c].bytes - BaseOf(seen, c) ELSE 0]
           f == Dues(I, seen, u)
           h == Dues(I, Based(rows), u)
<1>1. /\ I \in RowMaps /\ IsFiniteSet(DOMAIN I) /\ seen \in NatMaps
      /\ Based(rows) \in NatMaps
      /\ \A c : BaseOf(Based(rows), c) = IF c \in DOMAIN rows THEN rows[c].bytes ELSE BaseOf(seen, c)
      /\ \A c : BaseOf(seen, c) \in Nat /\ BaseOf(Based(rows), c) \in Nat
  BY BasedFacts DEF Books, BookTypes
<1>2. /\ DOMAIN rows \subseteq DOMAIN I
      /\ \A c \in DOMAIN rows : rows[c].bytes \in Nat /\ rows[c].cn = I[c].cn /\ (c \in DOMAIN seen => seen[c] <= rows[c].bytes)
      /\ \A c \in DOMAIN I : I[c].bytes \in Nat
  BY <1>1, MapTypes DEF Countable
<1>3. /\ DOMAIN f = DOMAIN I /\ Summable(f) /\ \A c \in DOMAIN I : f[c] = IF I[c].cn = u THEN I[c].bytes - BaseOf(seen, c) ELSE 0
  BY <1>1, DuesFacts
<1>4. /\ DOMAIN h = DOMAIN I /\ Summable(h) /\ \A c \in DOMAIN I : h[c] = IF I[c].cn = u THEN I[c].bytes - BaseOf(Based(rows), c) ELSE 0
  BY <1>1, DuesFacts
<1>5. DOMAIN p = DOMAIN I /\ \A c \in DOMAIN I : p[c] = IF c \in DOMAIN rows /\ I[c].cn = u THEN rows[c].bytes - BaseOf(seen, c) ELSE 0
  OBVIOUS
<1> HIDE DEF f, h, p
<1>6. Summable(p)
  BY <1>1, <1>2, <1>5 DEF Summable
<1>7. \A c \in DOMAIN rows : g[c] = p[c] /\ c \in DOMAIN I
  <2> SUFFICES ASSUME NEW c \in DOMAIN rows PROVE g[c] = p[c] /\ c \in DOMAIN I
    OBVIOUS
  <2>1. RowGrowth(rows, c) = rows[c].bytes - BaseOf(seen, c)
    BY <1>2 DEF RowGrowth, BaseOf
  <2> QED
    BY <1>2, <1>5, <2>1
<1>8. Summable(g)
  <2>1. IsFiniteSet(DOMAIN g)
    BY <1>1, <1>2, FS_Subset
  <2> QED
    BY <1>5, <1>6, <1>7, <2>1 DEF Summable
<1>9. SumFunction(g) = SumFunction(p)
  <2>1. /\ DOMAIN g \subseteq DOMAIN p
        /\ \A x \in DOMAIN g : g[x] = p[x]
        /\ \A x \in DOMAIN p : x \notin DOMAIN g => p[x] = 0
    BY <1>2, <1>5, <1>7
  <2> QED
    BY ONLY <1>6, <1>8, <2>1, SumPad
<1>10. \A c \in DOMAIN f : f[c] = p[c] + h[c]
  <2> SUFFICES ASSUME NEW c \in DOMAIN I PROVE f[c] = p[c] + h[c]
    BY <1>3
  <2>1. /\ BaseOf(Based(rows), c) = IF c \in DOMAIN rows THEN rows[c].bytes ELSE BaseOf(seen, c)
        /\ BaseOf(seen, c) \in Nat /\ I[c].bytes \in Nat /\ (c \in DOMAIN rows => rows[c].bytes \in Nat)
    BY <1>1, <1>2
  <2>2. f[c] = IF I[c].cn = u THEN I[c].bytes - BaseOf(seen, c) ELSE 0
    BY <1>3
  <2>3. h[c] = IF I[c].cn = u THEN I[c].bytes - BaseOf(Based(rows), c) ELSE 0
    BY <1>4
  <2>4. p[c] = IF c \in DOMAIN rows /\ I[c].cn = u THEN rows[c].bytes - BaseOf(seen, c) ELSE 0
    BY <1>5
  <2> QED
    BY <2>1, <2>2, <2>3, <2>4
<1>11. SumFunction(f) = SumFunction(p) + SumFunction(h)
  <2>1. DOMAIN p = DOMAIN f /\ DOMAIN h = DOMAIN f
    BY <1>3, <1>4, <1>5
  <2> QED
    BY ONLY <1>3, <1>4, <1>6, <1>10, <2>1, SumAdd
<1>12. SumFunction(g) \in Int
  BY <1>8, SumType
<1> QED
  BY <1>9, <1>11, <1>12 DEF f, h

LEMMA FinalSums ==
    ASSUME NEW I, Books(I), BookTypes, TypeOK, NEW rows, Countable(I, rows), NEW u \in Users, NEW g,
           DOMAIN g = DOMAIN ended,
           \A k \in DOMAIN ended : g[k] = IF ended[k].cn = u THEN FinalGrowth(Based(rows), k) ELSE 0
    PROVE  SumFunction(g) = SumFunction(Dues(Part(I, EndedCids), Based(rows), u)) /\ SumFunction(g) \in Int
<1> DEFINE M == Based(rows)
<1>1. /\ I \in RowMaps /\ IsFiniteSet(DOMAIN I) /\ Tells(I) /\ M \in NatMaps
      /\ DOMAIN M = DOMAIN seen \cup DOMAIN rows
      /\ \A c : BaseOf(M, c) = IF c \in DOMAIN rows THEN rows[c].bytes ELSE BaseOf(seen, c)
      /\ \A c : BaseOf(seen, c) \in Nat /\ BaseOf(M, c) \in Nat
  BY BasedFacts DEF Books
<1> HIDE DEF M
<1>2. /\ IsFiniteSet(DOMAIN ended) /\ DOMAIN ended = 1..Len(ended) /\ Len(ended) \in Nat
      /\ \A k \in DOMAIN ended : ended[k].cn \in Users /\ ended[k].bytes \in Nat
  BY QueueTypes, FS_Interval
<1>3. \A k \in DOMAIN ended : ended[k].cid \in DOMAIN I /\ I[ended[k].cid] = Total(ended[k])
  BY <1>1 DEF Tells, Open, EndedCids
<1>4. \A j, k \in DOMAIN ended : ended[j].cid = ended[k].cid => j = k
  BY <1>1 DEF Tells
<1>5. /\ \A k \in DOMAIN ended : ended[k].cid \in EndedCids
      /\ \A c \in EndedCids : \E k \in DOMAIN ended : ended[k].cid = c
  BY DEF EndedCids
<1>6. \A k \in DOMAIN ended : g[k] = IF ended[k].cn = u THEN ended[k].bytes - BaseOf(M, ended[k].cid) ELSE 0
  <2> SUFFICES ASSUME NEW k \in DOMAIN ended PROVE FinalGrowth(M, k) = ended[k].bytes - BaseOf(M, ended[k].cid)
    BY DEF M
  <2>1. \A j \in 1..(k-1) : ended[j].cid # ended[k].cid
    <3> SUFFICES ASSUME NEW j \in 1..(k-1), ended[j].cid = ended[k].cid PROVE FALSE
      OBVIOUS
    <3>1. j \in DOMAIN ended /\ j # k
      BY <1>2
    <3> QED
      BY <1>4, <3>1
  <2>2. ended[k].bytes \in Nat /\ I[ended[k].cid].bytes = ended[k].bytes
    BY <1>2, <1>3, TotalTypes
  <2>3. BaseOf(M, ended[k].cid) \in Nat /\ BaseOf(M, ended[k].cid) <= ended[k].bytes
    <3> DEFINE c == ended[k].cid
    <3>1. c \in DOMAIN I
      BY <1>3
    <3>2. CASE c \in DOMAIN rows
      BY <1>1, <2>2, <3>2 DEF Countable
    <3>3. CASE c \notin DOMAIN rows /\ c \in DOMAIN seen
      <4>1. seen[c] <= I[c].bytes
        BY <3>1, <3>3 DEF Countable
      <4> QED
        BY <1>1, <2>2, <3>3, <4>1 DEF BaseOf
    <3>4. CASE c \notin DOMAIN rows /\ c \notin DOMAIN seen
      BY <1>1, <2>2, <3>4 DEF BaseOf
    <3> QED
      BY <3>2, <3>3, <3>4
  <2>4. ended[k].cid \in DOMAIN M => M[ended[k].cid] = BaseOf(M, ended[k].cid)
    BY DEF BaseOf
  <2>5. ended[k].cid \notin DOMAIN M => BaseOf(M, ended[k].cid) = 0
    BY DEF BaseOf
  <2>6. FinalGrowth(M, k) = IF ended[k].cid \in DOMAIN M
                            THEN IF ended[k].bytes < M[ended[k].cid] THEN 0 ELSE ended[k].bytes - M[ended[k].cid]
                            ELSE ended[k].bytes
    BY <2>1 DEF FinalGrowth
  <2> QED
    BY <2>2, <2>3, <2>4, <2>5, <2>6
<1>7. Entries(I, M, u, ended, DOMAIN ended, EndedCids, g)
  BY <1>1, <1>2, <1>3, <1>4, <1>5, <1>6 DEF Entries
<1> QED
  BY <1>7, EventSums DEF M

(* What a poll counts is what is no longer to be counted.                  *)
LEMMA GrowthSum ==
    ASSUME NEW I, Books(I), BookTypes, TypeOK, NEW rows, Countable(I, rows), NEW u \in Users, NEW B,
           B \in NatMaps, DOMAIN B = DOMAIN rows \ EndedCids, \A c \in DOMAIN B : B[c] = rows[c].bytes
    PROVE  /\ SumFunction(Dues(I, seen, u))
              = Growth(rows, u) + SumFunction(Dues(Part(I, DOMAIN client \cup UnreadCids), B, u))
           /\ Growth(rows, u) \in Int
<1> DEFINE T == DOMAIN client \cup UnreadCids
           M == Based(rows)
           g1 == [c \in DOMAIN rows |-> IF rows[c].cn = u THEN RowGrowth(rows, c) ELSE 0]
           g2 == [k \in DOMAIN ended |-> IF ended[k].cn = u THEN FoldEnded(rows)[k] ELSE 0]
<1>1. Growth(rows, u) = SumFunction(g1) + SumFunction(g2)
  BY DEF Growth
<1>2. DOMAIN g1 = DOMAIN rows /\ \A c \in DOMAIN rows : g1[c] = IF rows[c].cn = u THEN RowGrowth(rows, c) ELSE 0
  OBVIOUS
<1>3. DOMAIN g2 = DOMAIN ended /\ \A k \in DOMAIN ended : g2[k] = IF ended[k].cn = u THEN FinalGrowth(M, k) ELSE 0
  BY DEF FoldEnded
<1> HIDE DEF g1, g2
<1>4. SumFunction(Dues(I, seen, u)) = SumFunction(g1) + SumFunction(Dues(I, M, u)) /\ SumFunction(g1) \in Int
  BY <1>2, RowSums
<1>5. SumFunction(g2) = SumFunction(Dues(Part(I, EndedCids), M, u)) /\ SumFunction(g2) \in Int
  BY <1>3, FinalSums
<1>6. /\ I \in RowMaps /\ IsFiniteSet(DOMAIN I) /\ Tells(I) /\ M \in NatMaps
      /\ \A c : BaseOf(M, c) = IF c \in DOMAIN rows THEN rows[c].bytes ELSE BaseOf(seen, c)
  BY BasedFacts DEF Books
<1>7. DOMAIN I = EndedCids \cup T /\ \A c \in DOMAIN I : ~(c \in EndedCids /\ c \in T)
  <2>1. DOMAIN I = EndedCids \cup T
    BY <1>6 DEF Tells, Open, UnreadCids
  <2>2. \A c \in T : c \notin EndedCids
    BY <1>6 DEF Tells, UnreadCids
  <2> QED
    BY <2>1, <2>2
<1> HIDE DEF T, M
<1>8. SumFunction(Dues(I, M, u)) = SumFunction(Dues(Part(I, EndedCids), M, u)) + SumFunction(Dues(Part(I, T), M, u))
  <2>1. DOMAIN I \subseteq EndedCids \cup T
    BY <1>7
  <2> QED
    BY ONLY <1>6, <1>7, <2>1, PartSums, u \in Users
<1>9. Dues(Part(I, T), M, u) = Dues(Part(I, T), B, u)
  <2>1. DOMAIN Part(I, T) = T /\ \A c \in T : c \notin EndedCids
    BY <1>6, <1>7, PartFacts
  <2>2. \A c \in T : BaseOf(M, c) = BaseOf(B, c)
    <3> SUFFICES ASSUME NEW c \in T PROVE BaseOf(M, c) = BaseOf(B, c)
      OBVIOUS
    <3>1. CASE c \in DOMAIN rows
      BY <1>6, <2>1, <3>1 DEF BaseOf
    <3>2. CASE c \notin DOMAIN rows
      <4>1. c \notin DOMAIN seen
        BY <3>2 DEF Countable, T
      <4> QED
        BY <1>6, <3>2, <4>1 DEF BaseOf
    <3> QED
      BY <3>1, <3>2
  <2> DEFINE J == Part(I, T)
  <2>3. DOMAIN J = T
    BY <2>1
  <2> HIDE DEF J
  <2>4. Dues(J, M, u) = Dues(J, B, u)
    BY <2>2, <2>3 DEF Dues
  <2> QED
    BY <2>4 DEF J
<1>10. SumFunction(Dues(Part(I, T), M, u)) \in Int
  <2> DEFINE J == Part(I, T)
  <2>1. J \in RowMaps /\ IsFiniteSet(DOMAIN J)
    BY <1>6, PartFacts
  <2> HIDE DEF J
  <2>2. SumFunction(Dues(J, M, u)) \in Int
    BY <1>6, <2>1, DuesFacts
  <2> QED
    BY <2>2 DEF J
<1> DEFINE a == SumFunction(g1)
           b == SumFunction(g2)
           d == SumFunction(Dues(Part(I, T), B, u))
<1>11. /\ a \in Int /\ b \in Int /\ d \in Int
       /\ SumFunction(Dues(I, seen, u)) = a + (b + d)
  BY <1>4, <1>5, <1>8, <1>9, <1>10
<1> HIDE DEF a, b, d
<1>12. a + (b + d) = (a + b) + d /\ a + b \in Int
  BY <1>11
<1>13. Growth(rows, u) = a + b
  BY <1>1 DEF a, b
<1> QED
  BY <1>11, <1>12, <1>13 DEF d, T

(* The poll counts the rows and the sessions ended; those are settled.     *)
LEMMA CollectBooks ==
    ASSUME NEW I, Books(I), BookTypes, TypeOK, NEW rows, rows = (IF poll = "late" THEN snap ELSE lastStatus),
           DOMAIN rows \subseteq Open, cum' = [u \in Users |-> cum[u] + Growth(rows, u)],
           seen' = [c \in DOMAIN rows \ EndedCids |-> rows[c].bytes],
           ended' = <<>>, poll' = "idle", snap' = NoClients,
           UNCHANGED <<client, link, nextCid, toNode, lastStatus, owed>>
    PROVE  BookTypes' /\ \E J : Books(J)'
<1> DEFINE T == DOMAIN client \cup UnreadCids
<1>1. I \in RowMaps /\ IsFiniteSet(DOMAIN I) /\ Tells(I) /\ DOMAIN I = Open
  BY DEF Books, Tells
<1>2. 0 \in Views /\ View(0) = lastStatus /\ lastStatus \in RowMaps /\ snap \in RowMaps /\ DOMAIN NoClients = {}
  BY QueueTypes DEF Views, View, BookTypes, NoClients
<1>3. /\ poll # "late" => rows = View(0)
      /\ poll = "late" => rows = snap /\ Views = {0} /\ DOMAIN View(0) = {}
  BY <1>2 DEF Books, Late
<1>4. Countable(I, rows)
  <2>1. rows \in RowMaps /\ DOMAIN rows \subseteq DOMAIN I
    BY <1>1, <1>2
  <2>2. \A c \in DOMAIN rows : /\ rows[c].cn = I[c].cn /\ rows[c].bytes <= I[c].bytes
                               /\ c \in DOMAIN seen => seen[c] <= rows[c].bytes
    <3>1. CASE poll = "late"
      BY <2>1, <3>1 DEF Books, Late
    <3>2. CASE poll # "late"
      BY <1>2, <1>3, <2>1, <3>2 DEF Books, Listed, Bases
    <3> QED
      BY <3>1, <3>2
  <2>3. \A c \in DOMAIN seen : /\ c \in DOMAIN I => seen[c] <= I[c].bytes
                               /\ c \in DOMAIN client \cup UnreadCids => c \in DOMAIN rows
    <3>1. \A c \in DOMAIN seen : /\ c \in DOMAIN I => seen[c] <= I[c].bytes
                                 /\ c \in DOMAIN client \cup UnreadCids => c \in DOMAIN lastStatus
      BY DEF Books, Bases
    <3>2. DOMAIN lastStatus \subseteq DOMAIN rows
      BY <1>2, <1>3
    <3> QED
      BY <3>1, <3>2
  <2> QED
    BY <2>1, <2>2, <2>3 DEF Countable
<1>5. PICK B : B = [c \in DOMAIN rows \ EndedCids |-> rows[c].bytes]
  OBVIOUS
<1>6. /\ seen' = B /\ DOMAIN B = DOMAIN rows \ EndedCids /\ \A c \in DOMAIN B : B[c] = rows[c].bytes
      /\ B \in NatMaps
  <2>1. DOMAIN rows \subseteq Nat /\ \A c \in DOMAIN rows : rows[c].bytes \in Nat
    BY <1>4, MapTypes DEF Countable
  <2>2. DOMAIN rows \ EndedCids \in SUBSET Nat /\ B \in [DOMAIN rows \ EndedCids -> Nat]
    BY <1>5, <2>1
  <2>3. B \in NatMaps
    BY <2>2 DEF NatMaps
  <2> QED
    BY <1>5, <2>3
<1>7. PICK J : J = Part(I, T)
  OBVIOUS
<1>8. J \in RowMaps /\ IsFiniteSet(DOMAIN J) /\ DOMAIN J = T /\ \A c \in T : c \in DOMAIN I /\ J[c] = I[c]
  <2>1. T \subseteq DOMAIN I
    BY <1>1 DEF Open, UnreadCids
  <2> HIDE DEF T
  <2>2. /\ Part(I, T) \in RowMaps /\ IsFiniteSet(DOMAIN Part(I, T))
        /\ DOMAIN Part(I, T) = DOMAIN I \cap T /\ \A c \in DOMAIN I \cap T : Part(I, T)[c] = I[c]
    BY ONLY <1>1, PartFacts
  <2> QED
    BY <1>7, <2>1, <2>2
<1>9. /\ Unread' = Unread /\ UnreadCids' = UnreadCids /\ EndedCids' = {} /\ DOMAIN ended' = {}
      /\ Views' = Views /\ \A k : View(k)' = View(k)
  BY DEF Unread, UnreadCids, EndedCids, Views, View
<1>10. Tells(J)'
  <2>1. DOMAIN J = Open'
    BY <1>8, <1>9 DEF Open, UnreadCids
  <2>2. \A c \in DOMAIN client : c \in T
    OBVIOUS
  <2>3. \A k \in Unread : toNode[k].cid \in T
    BY DEF UnreadCids
  <2>4. \A c \in DOMAIN client' : J[c] = Total(client'[c]) /\ c \notin UnreadCids' \cup EndedCids'
    BY <1>1, <1>8, <1>9, <2>2 DEF Tells
  <2>5. \A k \in Unread' : J[toNode'[k].cid] = Total(toNode'[k]) /\ toNode'[k].cid \notin EndedCids'
    BY <1>1, <1>8, <1>9, <2>3 DEF Tells
  <2>6. \A j, k \in Unread' : toNode'[j].cid = toNode'[k].cid => j = k
    BY <1>1, <1>9 DEF Tells
  <2> QED
    BY <1>9, <2>1, <2>4, <2>5, <2>6 DEF Tells
<1>11. Fresh' /\ Chain'
  BY <1>9 DEF Books, Fresh, Chain
<1>12. Listed(J)'
  <2> HIDE DEF T
  <2> QED
    BY <1>8, <1>9 DEF Books, Listed
<1>13. Bases(J)'
  <2> SUFFICES ASSUME NEW c \in DOMAIN B
               PROVE  /\ \A k \in Views : c \in DOMAIN View(k) => B[c] <= View(k)[c].bytes
                      /\ c \in DOMAIN J => B[c] <= J[c].bytes
                      /\ c \in DOMAIN client \cup UnreadCids => c \in DOMAIN lastStatus
    BY <1>6, <1>9 DEF Bases
  <2>1. c \in DOMAIN rows /\ B[c] = rows[c].bytes /\ rows[c].bytes <= I[c].bytes
    BY <1>4, <1>6 DEF Countable
  <2>2. c \in DOMAIN J => B[c] <= J[c].bytes
    BY <1>8, <2>1
  <2>3. CASE poll = "late"
    <3>1. c \notin DOMAIN client \cup UnreadCids
      BY <1>3, <2>1, <2>3 DEF Books, Late
    <3> QED
      BY <1>3, <2>2, <2>3, <3>1
  <2>4. CASE poll # "late"
    <3>1. ASSUME NEW k \in Views, c \in DOMAIN View(k) PROVE B[c] <= View(k)[c].bytes
      <4>1. CASE k = 0
        <5>1. View(k)[c].bytes \in Nat /\ B[c] = View(k)[c].bytes
          BY <1>2, <1>3, <2>1, <2>4, <3>1, <4>1, MapTypes
        <5> QED
          BY <5>1
      <4>2. CASE k # 0
        <5>1. k \in Nat /\ 0 < k
          BY <4>2, QueueTypes
        <5>2. View(0)[c].bytes <= View(k)[c].bytes
          BY <1>2, <1>3, <2>1, <2>4, <3>1, <5>1 DEF Books, Chain
        <5> QED
          BY <1>3, <2>1, <2>4, <5>2
      <4> QED
        BY <4>1, <4>2
    <3> QED
      BY <1>2, <1>3, <2>1, <2>2, <2>4, <3>1
  <2> QED
    BY <2>3, <2>4
<1>14. Late(J)'
  BY DEF Late
<1>15. \A u \in Users : /\ SumFunction(Dues(I, seen, u)) = Growth(rows, u) + SumFunction(Dues(J, B, u))
                        /\ Growth(rows, u) \in Int /\ SumFunction(Dues(J, B, u)) \in Int
  <2> SUFFICES ASSUME NEW u \in Users
               PROVE  /\ SumFunction(Dues(I, seen, u)) = Growth(rows, u) + SumFunction(Dues(J, B, u))
                      /\ Growth(rows, u) \in Int /\ SumFunction(Dues(J, B, u)) \in Int
    OBVIOUS
  <2>1. SumFunction(Dues(J, B, u)) \in Int
    BY <1>6, <1>8, DuesFacts
  <2>2. /\ SumFunction(Dues(I, seen, u)) = Growth(rows, u) + SumFunction(Dues(Part(I, DOMAIN client \cup UnreadCids), B, u))
        /\ Growth(rows, u) \in Int
    BY <1>4, <1>6, GrowthSum
  <2> QED
    BY <1>7, <2>1, <2>2
<1>16. BookTypes'
  <2>1. cum \in [Users -> Int]
    BY DEF BookTypes
  <2>2. cum' \in [Users -> Int]
    BY <1>15, <2>1
  <2>3. NoClients \in RowMaps
    BY NoClientsTypes
  <2>4. <<>> \in Seq(Disconnects)
    OBVIOUS
  <2> QED
    BY <1>6, <2>2, <2>3, <2>4 DEF BookTypes
<1>17. Balanced(J)'
  <2> SUFFICES ASSUME NEW u \in Users PROVE cum'[u] + SumFunction(Dues(J, B, u)) = owed[u]
    BY <1>6 DEF Balanced
  <2>1. cum[u] + SumFunction(Dues(I, seen, u)) = owed[u] /\ cum[u] \in Int /\ cum'[u] = cum[u] + Growth(rows, u)
    BY DEF Books, Balanced, BookTypes
  <2> QED
    BY <1>15, <2>1
<1> QED
  BY <1>8, <1>10, <1>11, <1>12, <1>13, <1>14, <1>16, <1>17 DEF Books

LEMMA NormalBefore == ASSUME Next, Normal' PROVE Normal
<1>1. CASE \E r \in Requests : \/ \E u \in Users, pin \in Pins : ApplyUser(r, u, pin)
                               \/ \E new \in [Users -> Pins] : SyncUsers(r, new)
                               \/ \E u \in Users : Kill(r, u)
  <2>1. PICK r \in Requests : \/ \E u \in Users, pin \in Pins : ApplyUser(r, u, pin)
                              \/ \E new \in [Users -> Pins] : SyncUsers(r, new)
                              \/ \E u \in Users : Kill(r, u)
    BY <1>1
  <2>2. life' = life /\ disturbed' = disturbed
    BY <2>1 DEF ApplyUser, SyncUsers, Kill, lifeVars, ghosts
  <2> QED
    BY <2>2 DEF Normal
<1>2. CASE FinishConnect \/ SendVerdict \/ FinishDisconnect \/ PublishStatus \/ RequestStatus
  BY <1>2 DEF FinishConnect, SendVerdict, FinishDisconnect, PublishStatus, RequestStatus, lifeVars, ghosts, Normal
<1>3. CASE Collect
  BY <1>3 DEF Collect, lifeVars, Normal
<1>4. CASE \E new \in [Users -> Pins] : UpdateUsersAndRestart(new)
  BY <1>4 DEF UpdateUsersAndRestart, ghosts, Normal
<1>5. CASE \E ok \in BOOLEAN : StopProcess(ok) \/ StartProcess(ok) \/ Reconnect(ok)
  BY <1>5 DEF StopProcess, StartProcess, Reconnect, ghosts, Normal
<1>6. CASE Shutdown
  BY <1>6 DEF Shutdown, Normal
<1>7. CASE \E u \in Users, serial \in Certs : ClientConnects(u, serial)
  BY <1>7 DEF ClientConnects, Free, lifeVars, Normal
<1>8. CASE \E c \in Cids : ClientReauths(c) \/ ClientMoves(c) \/ ClientLeaves(c)
  BY <1>8 DEF ClientReauths, ClientMoves, ClientLeaves, Free, lifeVars, ghosts, Normal
<1>9. CASE Crash
  BY <1>9 DEF Crash, Free, lifeVars, Normal
<1> QED
  BY <1>1, <1>2, <1>3, <1>4, <1>5, <1>6, <1>7, <1>8, <1>9 DEF Next

(* Syncs, and the start of a process, leave the books alone.               *)
LEMMA SyncKeepsBooks ==
    ASSUME NEW I, Books(I), BookTypes, UsersInv,
           \/ \E r \in Requests : \/ \E u \in Users, pin \in Pins : ApplyUser(r, u, pin)
                                  \/ \E new \in [Users -> Pins] : SyncUsers(r, new)
           \/ \E new \in [Users -> Pins] : UpdateUsersAndRestart(new)
           \/ \E ok \in BOOLEAN : StartProcess(ok)
           \/ UNCHANGED vars
    PROVE  BookTypes' /\ Books(I)'
<1>1. UNCHANGED <<client, toNode, lastStatus, seen, ended, snap, poll, cum, owed>> /\ (link' => link /\ nextCid' = nextCid)
  BY DEF ApplyUser, SyncUsers, UpdateUsersAndRestart, StartProcess, vars, daemonVars, mgmtVars, bookVars, ghosts
<1> QED
  BY <1>1, QuietBooks

LEMMA GoneKeepsBooks ==
    ASSUME NEW I, Books(I), BookTypes, UsersInv, NEW S \in SUBSET DOMAIN client, Gone(S),
           UNCHANGED <<link, nextCid, lastStatus, seen, ended, snap, poll, cum, owed>>
    PROVE  BookTypes' /\ Books(I)'
<1>1. client' = Without(client, S) /\ toNode' = toNode \o Closing(S)
  BY DEF Gone
<1>2. DOMAIN client' = DOMAIN client \ S /\ \A c \in DOMAIN client' : client'[c] = client[c]
  BY <1>1 DEF Without
<1>3. TypeOK
  BY DEF UsersInv
<1> QED
  BY <1>1, <1>2, <1>3, GoneBooks

LEMMA KillKeepsBooks ==
    ASSUME NEW I, Books(I), BookTypes, UsersInv, NEW r \in Requests, NEW u \in Users, Kill(r, u)
    PROVE  BookTypes' /\ Books(I)'
<1> DEFINE S == {c \in DOMAIN client : Heard /\ client[c].cn = u}
<1>1. /\ Gone(S) /\ S \in SUBSET DOMAIN client
      /\ UNCHANGED <<link, nextCid, lastStatus, seen, ended, snap, poll, cum, owed>>
  BY DEF Kill, bookVars, ghosts
<1> HIDE DEF S
<1> QED
  BY <1>1, GoneKeepsBooks

LEMMA LeaveKeepsBooks ==
    ASSUME NEW I, Books(I), BookTypes, UsersInv, NEW c \in Cids, ClientLeaves(c)
    PROVE  BookTypes' /\ Books(I)'
<1>1. /\ Gone({c}) /\ {c} \in SUBSET DOMAIN client
      /\ UNCHANGED <<link, nextCid, lastStatus, seen, ended, snap, poll, cum, owed>>
  BY DEF ClientLeaves, Free, bookVars, ghosts
<1> QED
  BY <1>1, GoneKeepsBooks

LEMMA VerdictKeepsBooks ==
    ASSUME NEW I, Books(I), BookTypes, UsersInv, SendVerdict
    PROVE  BookTypes' /\ Books(I)'
<1>1. UNCHANGED <<link, nextCid, lastStatus, seen, ended, snap, poll, cum, owed>>
  BY DEF SendVerdict, bookVars, ghosts
<1>2. CASE reader.type = "deny"
  <2> DEFINE S == {c \in DOMAIN client : Heard /\ c = reader.cid}
  <2>1. Gone(S) /\ S \in SUBSET DOMAIN client
    BY <1>2 DEF SendVerdict
  <2> HIDE DEF S
  <2> QED
    BY <1>1, <2>1, GoneKeepsBooks
<1>3. CASE reader.type # "deny"
  <2>1. client' \in {client, Admitted(reader.cid)} /\ toNode' = toNode
    BY <1>3 DEF SendVerdict
  <2>2. \A c \in DOMAIN client : client[c] \in Sessions
    BY ClientTypes DEF UsersInv
  <2>3. /\ DOMAIN client' = DOMAIN client
        /\ \A c \in DOMAIN client : /\ client'[c].cn = client[c].cn /\ client'[c].bytes = client[c].bytes
                                    /\ client[c].st = "up" => client'[c].st = "up"
    <3>1. CASE client' = client
      BY <3>1
    <3>2. CASE client' = Admitted(reader.cid)
      <4>1. DOMAIN client' = DOMAIN client
        BY <3>2 DEF Admitted
      <4>2. \A c \in DOMAIN client : client'[c] = client[c] \/ client'[c] = [client[c] EXCEPT !.st = "up"]
        BY <3>2 DEF Admitted
      <4>3. \A s \in Sessions : /\ [s EXCEPT !.st = "up"].cn = s.cn /\ [s EXCEPT !.st = "up"].bytes = s.bytes
                                /\ [s EXCEPT !.st = "up"].st = "up"
        BY DEF Sessions
      <4>4. ASSUME NEW c \in DOMAIN client
            PROVE  /\ client'[c].cn = client[c].cn /\ client'[c].bytes = client[c].bytes
                   /\ client[c].st = "up" => client'[c].st = "up"
        <5>1. client[c] \in Sessions
          BY <2>2
        <5> QED
          BY <4>2, <4>3, <5>1
      <4> QED
        BY <4>1, <4>4
    <3> QED
      BY <2>1, <3>1, <3>2
  <2> QED
    BY <1>1, <2>1, <2>3, QuietBooks
<1> QED
  BY <1>2, <1>3

LEMMA ReaderKeepsBooks ==
    ASSUME NEW I, Books(I), BookTypes, UsersInv, FinishConnect \/ FinishDisconnect \/ PublishStatus
    PROVE  BookTypes' /\ Books(I)'
<1>1. /\ TypeOK /\ toNode # <<>> /\ toNode' = Tail(toNode)
      /\ UNCHANGED <<client, link, nextCid, seen, snap, poll, cum, owed>>
  BY DEF UsersInv, FinishConnect, FinishDisconnect, PublishStatus, Event, daemonVars, bookVars, ghosts
<1>2. \/ Head(toNode).type = "connect" /\ UNCHANGED <<lastStatus, ended>>
      \/ Head(toNode).type = "disconnect" /\ UNCHANGED lastStatus /\ ended' = Append(ended, Head(toNode))
      \/ Head(toNode).type = "status" /\ lastStatus' = Head(toNode).rows /\ UNCHANGED ended
  BY DEF FinishConnect, FinishDisconnect, PublishStatus, Event, bookVars
<1> QED
  BY <1>1, <1>2, ReaderBooks

LEMMA AskKeepsBooks ==
    ASSUME NEW I, Books(I), BookTypes, UsersInv, RequestStatus \/ \E c \in Cids : ClientReauths(c)
    PROVE  BookTypes' /\ Books(I)'
<1>1. /\ TypeOK /\ (poll' = "late" <=> poll = "late")
      /\ UNCHANGED <<client, link, nextCid, lastStatus, seen, ended, snap, cum, owed>>
  BY DEF UsersInv, RequestStatus, ClientReauths, Free, daemonVars, bookVars, ghosts
<1>2. CASE RequestStatus
  <2> DEFINE e == [type |-> "status", rows |-> Rows]
  <2>1. e \in Events /\ e.type = "status" /\ e.rows = Rows
    BY <1>1, RowsTypes
  <2>2. toNode' = toNode \/ toNode' = Append(toNode, e)
    BY <1>2 DEF RequestStatus
  <2>3. poll # "late"
    BY <1>2 DEF RequestStatus
  <2> HIDE DEF e
  <2>4. CASE toNode' = toNode
    BY <1>1, <2>4, QuietBooks
  <2>5. CASE toNode' = Append(toNode, e)
    BY <1>1, <2>1, <2>3, <2>5, AppendBooks
  <2> QED
    BY <2>2, <2>4, <2>5
<1>3. ASSUME NEW c \in Cids, ClientReauths(c) PROVE BookTypes' /\ Books(I)'
  <2> DEFINE e == [type |-> "connect", cid |-> c, cn |-> client[c].cn, serial |-> client[c].serial]
  <2>1. c \in DOMAIN client /\ toNode' = Append(toNode, e)
    BY <1>3 DEF ClientReauths
  <2>2. e \in Events /\ e.type = "connect"
    <3>1. c \in Nat /\ client[c] \in Sessions
      BY <1>1, <2>1, ClientTypes
    <3> QED
      BY <3>1 DEF Events, Connects, Sessions
  <2> HIDE DEF e
  <2> QED
    BY <1>1, <2>1, <2>2, AppendBooks
<1> QED
  BY <1>2, <1>3

LEMMA ConnectKeepsBooks ==
    ASSUME NEW I, Books(I), BookTypes, UsersInv, Normal', NEW u \in Users, NEW serial \in Certs, ClientConnects(u, serial)
    PROVE  BookTypes' /\ \E J : Books(J)'
<1> DEFINE e == [type |-> "connect", cid |-> nextCid, cn |-> u, serial |-> serial]
           s == [cn |-> u, serial |-> serial, st |-> "pending", bytes |-> 0]
<1>1. /\ TypeOK /\ link /\ nextCid \in Nat /\ nextCid' = nextCid + 1
      /\ toNode' = Append(toNode, e) /\ client' = With(client, nextCid, s)
      /\ nextCid \notin DOMAIN seen \cup EndedCids \cup DOMAIN snap
      /\ UNCHANGED <<link, lastStatus, seen, ended, snap, poll, cum, owed>>
  BY DEF ClientConnects, UsersInv, TypeOK, Free, bookVars, Normal
<1>2. s.cn = u /\ s.bytes = 0 /\ e \in Events /\ e.type = "connect"
  BY <1>1 DEF Events, Connects
<1> HIDE DEF e, s
<1>3. nextCid \notin DOMAIN client
  BY <1>1, ClientTypes
<1>4. /\ DOMAIN client' = DOMAIN client \cup {nextCid} /\ client'[nextCid] = s
      /\ \A c \in DOMAIN client : client'[c] = client[c]
  BY <1>1, <1>3 DEF With
<1>5. client'[nextCid].cn \in Users /\ client'[nextCid].bytes = 0
  BY <1>2, <1>4
<1> QED
  BY <1>1, <1>2, <1>4, <1>5, ConnectBooks

LEMMA MoveKeepsBooks ==
    ASSUME NEW I, Books(I), BookTypes, UsersInv, NEW k \in Cids, ClientMoves(k)
    PROVE  BookTypes' /\ \E J : Books(J)'
<1>1. /\ TypeOK /\ k \in DOMAIN client /\ client' = [client EXCEPT ![k].bytes = client[k].bytes + 1]
      /\ owed' = [owed EXCEPT ![client[k].cn] = @ + 1]
      /\ UNCHANGED <<toNode, link, nextCid, lastStatus, seen, ended, snap, poll, cum>>
  BY DEF ClientMoves, UsersInv, Free, mgmtVars, bookVars
<1>2. client[k] \in Sessions
  BY <1>1, ClientTypes
<1> DEFINE s == [client[k] EXCEPT !.bytes = client[k].bytes + 1]
<1>3. s.cn = client[k].cn /\ s.st = client[k].st /\ s.bytes = client[k].bytes + 1
  BY <1>2 DEF Sessions
<1>4. client' = [client EXCEPT ![k] = s]
  BY <1>1
<1> HIDE DEF s
<1>5. DOMAIN client' = DOMAIN client /\ client'[k] = s /\ \A c \in DOMAIN client : c # k => client'[c] = client[c]
  BY <1>1, <1>4
<1>6. client'[k].cn = client[k].cn /\ client'[k].bytes = client[k].bytes + 1 /\ client'[k].st = client[k].st
  BY <1>3, <1>5
<1> QED
  BY <1>1, <1>5, <1>6, MoveBooks

LEMMA EndKeepsBooks ==
    ASSUME NEW I, Books(I), BookTypes, UsersInv, Crash \/ \E reports \in BOOLEAN : StopProcess(reports)
    PROVE  BookTypes' /\ \E J : Books(J)'
<1>1. /\ TypeOK /\ DOMAIN client' = {}
      /\ UNCHANGED <<link, nextCid, lastStatus, seen, ended, snap, poll, cum>>
  BY DEF Crash, StopProcess, DaemonEnds, Free, UsersInv, bookVars, NoClients
<1>2. \/ toNode' = toNode \o Closing(DOMAIN client) /\ UNCHANGED owed
      \/ owed' = [u \in Users |-> owed[u] - OfClients(u)] /\ UNCHANGED toNode
  BY DEF Crash, StopProcess, DaemonEnds
<1>3. CASE toNode' = toNode \o Closing(DOMAIN client) /\ UNCHANGED owed
  <2> DEFINE S == DOMAIN client
  <2>1. DOMAIN client' = DOMAIN client \ S /\ \A c \in DOMAIN client' : client'[c] = client[c]
    BY <1>1
  <2>2. S \in SUBSET DOMAIN client /\ toNode' = toNode \o Closing(S)
    BY <1>3
  <2> HIDE DEF S
  <2>3. BookTypes' /\ Books(I)'
    BY <1>1, <1>3, <2>1, <2>2, GoneBooks
  <2> QED
    BY <2>3
<1>4. CASE owed' = [u \in Users |-> owed[u] - OfClients(u)] /\ UNCHANGED toNode
  BY <1>1, <1>4, LossBooks
<1> QED
  BY <1>2, <1>3, <1>4

LEMMA ReconnectKeepsBooks ==
    ASSUME NEW I, Books(I), BookTypes, UsersInv, NEW ok \in BOOLEAN, Reconnect(ok)
    PROVE  BookTypes' /\ \E J : Books(J)'
<1>1. /\ TypeOK /\ DOMAIN client = {} /\ toNode' = <<>> /\ Len(toNode') = 0 /\ lastStatus' = NoClients
      /\ poll' = (IF poll = "wait" THEN "late" ELSE poll) /\ snap' = (IF poll = "wait" THEN lastStatus ELSE snap)
      /\ owed' = [u \in Users |-> owed[u] - OfUnread(u)]
      /\ UNCHANGED <<client, seen, ended, cum>>
  BY DEF Reconnect, UsersInv, Connected, Heard, daemonVars
<1> QED
  BY <1>1, ReconnectBooks

LEMMA CollectKeepsBooks ==
    ASSUME NEW I, Books(I), BookTypes, UsersInv, Normal', Collect
    PROVE  BookTypes' /\ \E J : Books(J)'
<1>1. PICK rows : rows = IF poll = "late" THEN snap ELSE lastStatus
  OBVIOUS
<1>2. /\ cum' = [u \in Users |-> cum[u] + Growth(rows, u)]
      /\ seen' = [c \in DOMAIN rows \ EndedCids |-> rows[c].bytes]
      /\ DOMAIN rows \subseteq Open
  BY <1>1 DEF Collect, Normal
<1>3. /\ TypeOK /\ ended' = <<>> /\ poll' = "idle" /\ snap' = NoClients
      /\ UNCHANGED <<client, link, nextCid, toNode, lastStatus, owed>>
  BY DEF Collect, UsersInv, daemonVars
<1> QED
  BY <1>1, <1>2, <1>3, CollectBooks

LEMMA BooksInit == Init => BooksInv
<1> SUFFICES ASSUME Init PROVE BookTypes /\ Books(NoClients)
  BY DEF BooksInv
<1>1. /\ DOMAIN client = {} /\ toNode = <<>> /\ ended = <<>> /\ seen = NoClients /\ lastStatus = NoClients
      /\ snap = NoClients /\ poll = "idle" /\ cum = Zero /\ owed = Zero
  BY DEF Init, NoClients
<1>2. DOMAIN NoClients = {} /\ NoClients \in RowMaps /\ NoClients \in NatMaps /\ IsFiniteSet(DOMAIN NoClients)
  BY NoClientsTypes, FS_EmptySet
<1>3. <<>> \in Seq(Disconnects) /\ Zero \in [Users -> Int]
  BY DEF Zero
<1>4. BookTypes
  BY <1>1, <1>2, <1>3 DEF BookTypes
<1>5. Unread = {} /\ UnreadCids = {} /\ EndedCids = {} /\ Views = {0} /\ View(0) = NoClients /\ DOMAIN ended = {}
  BY <1>1 DEF Unread, UnreadCids, EndedCids, Views, View
<1>6. Tells(NoClients)
  BY <1>1, <1>2, <1>5 DEF Tells, Open
<1>7. Fresh /\ Listed(NoClients) /\ Chain /\ Bases(NoClients) /\ Late(NoClients)
  BY <1>1, <1>2, <1>5 DEF Fresh, Listed, Chain, Bases, Late
<1>8. Balanced(NoClients)
  <2> SUFFICES ASSUME NEW u \in Users PROVE SumFunction(Dues(NoClients, NoClients, u)) = 0
    BY <1>1 DEF Balanced, Zero
  <2> DEFINE f == Dues(NoClients, NoClients, u)
  <2>1. DOMAIN f = {}
    BY <1>2 DEF Dues
  <2> HIDE DEF f
  <2>2. Summable(f)
    BY <2>1, FS_EmptySet DEF Summable
  <2>3. SumFunction(f) = 0
    BY <2>1, <2>2, SumZero
  <2> QED
    BY <2>3 DEF f
<1> QED
  BY <1>2, <1>4, <1>6, <1>7, <1>8 DEF Books

LEMMA BooksStep == UsersInv /\ BooksInv /\ [Next]_vars => BooksInv'
<1> SUFFICES ASSUME UsersInv, BooksInv, [Next]_vars, Normal' PROVE BookTypes' /\ \E J : Books(J)'
  BY DEF BooksInv
<1>1. Normal
  BY NormalBefore DEF vars, lifeVars, ghosts, Normal
<1>2. BookTypes /\ \E I : Books(I)
  BY <1>1 DEF BooksInv
<1>3. PICK I : Books(I)
  BY <1>2
<1>4. ~Shutdown
  BY DEF Shutdown, Normal
<1>5. CASE UNCHANGED vars
  BY <1>2, <1>3, <1>5, SyncKeepsBooks
<1>6. CASE Next
  <2>1. CASE \E r \in Requests : \/ \E u \in Users, pin \in Pins : ApplyUser(r, u, pin)
                                 \/ \E new \in [Users -> Pins] : SyncUsers(r, new)
    BY <1>2, <1>3, <2>1, SyncKeepsBooks
  <2>2. CASE \E r \in Requests, u \in Users : Kill(r, u)
    BY <1>2, <1>3, <2>2, KillKeepsBooks
  <2>3. CASE FinishConnect \/ FinishDisconnect \/ PublishStatus
    BY <1>2, <1>3, <2>3, ReaderKeepsBooks
  <2>4. CASE SendVerdict
    BY <1>2, <1>3, <2>4, VerdictKeepsBooks
  <2>5. CASE RequestStatus \/ \E c \in Cids : ClientReauths(c)
    BY <1>2, <1>3, <2>5, AskKeepsBooks
  <2>6. CASE Collect
    BY <1>2, <1>3, <2>6, CollectKeepsBooks
  <2>7. CASE (\E new \in [Users -> Pins] : UpdateUsersAndRestart(new)) \/ \E ok \in BOOLEAN : StartProcess(ok)
    BY <1>2, <1>3, <2>7, SyncKeepsBooks
  <2>8. CASE Crash \/ \E ok \in BOOLEAN : StopProcess(ok)
    BY <1>2, <1>3, <2>8, EndKeepsBooks
  <2>9. CASE \E ok \in BOOLEAN : Reconnect(ok)
    BY <1>2, <1>3, <2>9, ReconnectKeepsBooks
  <2>10. CASE \E u \in Users, serial \in Certs : ClientConnects(u, serial)
    BY <1>2, <1>3, <2>10, ConnectKeepsBooks
  <2>11. CASE \E c \in Cids : ClientMoves(c)
    BY <1>2, <1>3, <2>11, MoveKeepsBooks
  <2>12. CASE \E c \in Cids : ClientLeaves(c)
    BY <1>2, <1>3, <2>12, LeaveKeepsBooks
  <2> QED
    BY <1>4, <1>6, <2>1, <2>2, <2>3, <2>4, <2>5, <2>6, <2>7, <2>8, <2>9, <2>10, <2>11, <2>12 DEF Next
<1> QED
  BY <1>5, <1>6

LEMMA BooksAdd == UsersInv /\ BooksInv => BooksBalance
<1> SUFFICES ASSUME UsersInv, BooksInv, Normal, NEW u \in Users
             PROVE  cum[u] + OfClients(u) + OfEnded(u) + OfUnread(u) = owed[u]
  BY DEF BooksBalance, Normal
<1>1. TypeOK /\ BookTypes /\ \E I : Books(I)
  BY DEF UsersInv, BooksInv
<1>2. PICK I : Books(I)
  BY <1>1
<1>3. cum[u] + SumFunction(Dues(I, seen, u)) = owed[u] /\ cum[u] \in Int
  BY <1>1, <1>2 DEF Books, Balanced, BookTypes
<1>4. /\ SumFunction(Dues(I, seen, u)) = OfClients(u) + (OfUnread(u) + OfEnded(u))
      /\ OfClients(u) \in Int /\ OfUnread(u) \in Int /\ OfEnded(u) \in Int
  BY <1>1, <1>2, DuesAdd
<1> QED
  BY <1>3, <1>4

(***************************************************************************)
(* BooksBalance: what a user has moved is counted once, by pollStatus from *)
(* status rows or by handleDisconnect from final totals, or still to be    *)
(* counted, in whatever order rows, disconnects, timeouts of polls and     *)
(* reconnects to the management socket come, short of a stale snapshot or  *)
(* an id used again.                                                       *)
(***************************************************************************)
THEOREM OpenVPNBalances == Spec => []BooksBalance
BY BooksAdd, UsersInit, UsersStep, BooksInit, BooksStep, PTL DEF Spec
=============================================================================
