-------------------------------- MODULE SumProofs --------------------------------
(***************************************************************************)
(* Sums of a function over a finite set: what they are for an empty set,   *)
(* one more element, two functions, a part, two parts, and groups.  The    *)
(* fold they are made with takes the elements in any order; SumsExist and  *)
(* SumsAre show by induction over the subsets that it has a value and what *)
(* one more element adds to it.  The rest only uses SumEmpty and SumPick.  *)
(***************************************************************************)
EXTENDS Sums, FiniteSetTheorems, WellFoundedInduction, TLAPS

\* Induction over the subsets of a finite set, as facts about a set of them.
LEMMA SmallerFirst ==
  ASSUME NEW D, IsFiniteSet(D), NEW P,
         \A T \in SUBSET D : (\A S \in SUBSET T : S # T => S \in P) => T \in P
  PROVE  D \in P
<1> DEFINE B == {T \in SUBSET D : T \notin P}
           R == StrictSubsetOrdering(D)
<1>1. IsWellFoundedOn(R, FiniteSubsetsOf(D)) /\ FiniteSubsetsOf(D) = SUBSET D
  BY FS_StrictSubsetOrderingWellFounded, FS_FiniteSubsetsOfFinite
<1>2. CASE B = {}
  BY <1>2
<1>3. CASE B # {}
  <2>1. B \in SUBSET (SUBSET D)
    OBVIOUS
  <2>2. \A S, T \in SUBSET D : <<S, T>> \in R <=> S \subseteq T /\ S # T
    BY DEF StrictSubsetOrdering
  <2> HIDE DEF B, R
  <2>3. PICK T \in B : \A S \in B : <<S, T>> \notin R
    BY <1>1, <1>3, <2>1, WFMin
  <2>4. T \in SUBSET D /\ T \notin P
    BY DEF B
  <2>5. \A S \in SUBSET T : S # T => S \in P
    BY <2>2, <2>3, <2>4 DEF B
  <2> QED
    BY <2>4, <2>5
<1> QED
  BY <1>2, <1>3

LEMMA OneMore ==
  ASSUME NEW D, IsFiniteSet(D), NEW P, {} \in P,
         \A T \in SUBSET D : T \in P => \A x \in D \ T : T \cup {x} \in P
  PROVE  D \in P
<1>1. ASSUME NEW T \in SUBSET D, \A S \in SUBSET T : S # T => S \in P
      PROVE  T \in P
  <2>1. CASE T = {}
    BY <2>1
  <2>2. CASE T # {}
    <3>1. PICK x \in T : TRUE
      BY <2>2
    <3>2. T \ {x} \in SUBSET D /\ T \ {x} \in P /\ x \in D \ (T \ {x}) /\ (T \ {x}) \cup {x} = T
      BY <1>1, <3>1
    <3> QED
      BY <3>2
  <2> QED
    BY <2>1, <2>2
<1> QED
  BY <1>1, SmallerFirst

LEMMA LeastOf ==
  ASSUME NEW B \in SUBSET Nat, B # {}
  PROVE  \E b \in B : \A c \in B : b <= c
<1> DEFINE R == {ss \in Nat \X Nat : ss[1] < ss[2]}
<1>1. IsWellFoundedOn(R, Nat)
  BY NatLessThanWellFounded DEF OpToRel
<1>2. \A x, y \in Nat : <<y, x>> \in R <=> y < x
  OBVIOUS
<1> HIDE DEF R
<1>3. PICK b \in B : \A c \in B : <<c, b>> \notin R
  BY <1>1, WFMin
<1>4. ASSUME NEW c \in B PROVE b <= c
  <2>1. b \in Nat /\ c \in Nat
    OBVIOUS
  <2>2. <<c, b>> \in R <=> c < b
    BY <1>2, <2>1
  <2> QED
    BY <1>3, <2>1, <2>2
<1> QED
  BY <1>4

\* Induction on a number, as a fact about a set.
LEMMA UpTo ==
  ASSUME NEW n \in Nat, NEW S, 0 \in S, \A k \in 1 .. n : k - 1 \in S => k \in S
  PROVE  \A k \in 0 .. n : k \in S
<1> DEFINE B == {k \in 0 .. n : k \notin S}
<1>1. CASE B = {}
  BY <1>1
<1>2. CASE B # {}
  <2>1. B \in SUBSET Nat
    OBVIOUS
  <2> HIDE DEF B
  <2>2. PICK b \in B : \A c \in B : b <= c
    BY <1>2, <2>1, LeastOf
  <2>3. b \in 1 .. n /\ b \notin S
    BY <2>2 DEF B
  <2>4. b - 1 \in 0 .. n /\ ~(b <= b - 1)
    BY <2>3
  <2>5. b - 1 \notin B
    BY <2>2, <2>4
  <2> QED
    BY <2>3, <2>4, <2>5 DEF B
<1> QED
  BY <1>1, <1>2

-----------------------------------------------------------------------------
(* The sum of a function over a finite set.                                *)

AnyOf(s) == CHOOSE x \in s : TRUE
SumStep(f, g, s) == IF s = {} THEN 0 ELSE f[AnyOf(s)] + g[s \ {AnyOf(s)}]
SumsUpTo(f, D, g) == g = [s \in SUBSET D |-> SumStep(f, g, s)]

LEMMA OneIn == ASSUME NEW s, s # {} PROVE AnyOf(s) \in s
BY DEF AnyOf

LEMMA SumsExist ==
  ASSUME NEW f, NEW D, IsFiniteSet(D)
  PROVE  \E g : SumsUpTo(f, D, g)
<1> DEFINE C(k) == {s \in SUBSET D : Cardinality(s) <= k}
           n == Cardinality(D)
           S == {k \in 0 .. n : \E g : g = [s \in C(k) |-> SumStep(f, g, s)]}
<1>1. n \in Nat /\ \A s \in SUBSET D : IsFiniteSet(s) /\ Cardinality(s) \in Nat /\ Cardinality(s) <= n
  BY FS_Subset, FS_CardinalityType
<1>2. 0 \in S
  <2>1. \A s \in C(0) : s = {}
    BY <1>1, FS_EmptySet
  <2> DEFINE g == [s \in C(0) |-> 0]
  <2>2. \A s \in C(0) : SumStep(f, g, s) = 0
    BY <2>1 DEF SumStep
  <2>3. g = [s \in C(0) |-> SumStep(f, g, s)]
    BY <2>2
  <2>4. \E m : m = [s \in C(0) |-> SumStep(f, m, s)]
    BY <2>3
  <2> HIDE DEF C, g, n
  <2> QED
    BY <1>1, <2>4
<1>3. ASSUME NEW k \in 1 .. n, k - 1 \in S PROVE k \in S
  <2>1. PICK g : g = [s \in C(k - 1) |-> SumStep(f, g, s)]
    BY <1>3
  <2> DEFINE h == [s \in C(k) |-> SumStep(f, g, s)]
  <2>2. C(k - 1) \subseteq C(k)
    BY <1>1
  <2>3. \A s \in C(k) : s # {} => s \ {AnyOf(s)} \in C(k - 1)
    <3> TAKE s \in C(k)
    <3>1. s \in SUBSET D /\ IsFiniteSet(s) /\ Cardinality(s) \in Nat /\ Cardinality(s) <= k
      BY <1>1
    <3>2. HAVE s # {}
    <3>3. Cardinality(s \ {AnyOf(s)}) = Cardinality(s) - 1
      BY <3>1, <3>2, OneIn, FS_RemoveElement
    <3> QED
      BY <1>1, <3>1, <3>3
  <2>4. \A s \in C(k - 1) : h[s] = g[s]
    BY <2>1, <2>2
  <2>5. \A s \in C(k) : SumStep(f, h, s) = SumStep(f, g, s)
    <3> HIDE DEF h, C
    <3> QED
      BY <2>3, <2>4 DEF SumStep
  <2>6. h = [s \in C(k) |-> SumStep(f, h, s)]
    <3>1. h = [s \in C(k) |-> SumStep(f, g, s)]
      OBVIOUS
    <3> HIDE DEF h, C
    <3> QED
      BY <2>5, <3>1
  <2>7. \E m : m = [s \in C(k) |-> SumStep(f, m, s)]
    BY <2>6
  <2> HIDE DEF C, h, n
  <2> QED
    BY <1>1, <2>7
<1>4. n \in S
  <2> HIDE DEF S, n
  <2> QED
    BY <1>1, <1>2, <1>3, UpTo
<1>5. C(n) = SUBSET D
  BY <1>1
<1> QED
  BY <1>4, <1>5 DEF SumsUpTo

\* What the fold says of a set and its subsets.
LEMMA SumsAre ==
  ASSUME NEW f, NEW D, IsFiniteSet(D)
  PROVE  \E g : SumsUpTo(f, D, g) /\ SumOn(f, D) = g[D]
<1> DEFINE F == CHOOSE g : g = [s \in SUBSET D |-> IF s = {} THEN 0
                                                   ELSE f[CHOOSE x \in s : TRUE] + g[s \ {CHOOSE x \in s : TRUE}]]
<1>1. \E g : g = [s \in SUBSET D |-> IF s = {} THEN 0
                                     ELSE f[CHOOSE x \in s : TRUE] + g[s \ {CHOOSE x \in s : TRUE}]]
  <2>1. \E g : SumsUpTo(f, D, g)
    BY SumsExist
  <2> QED
    BY <2>1 DEF SumsUpTo, SumStep, AnyOf
<1>2. F = [s \in SUBSET D |-> IF s = {} THEN 0
                              ELSE f[CHOOSE x \in s : TRUE] + F[s \ {CHOOSE x \in s : TRUE}]]
  BY <1>1
<1>3. SumOn(f, D) = F[D]
  BY DEF SumOn, FoldFunctionOnSet, MapThenFoldSet
<1> HIDE DEF F
<1>4. SumsUpTo(f, D, F)
  BY <1>2 DEF SumsUpTo, SumStep, AnyOf
<1> QED
  BY <1>3, <1>4

LEMMA SumsAgree ==
  ASSUME NEW D, IsFiniteSet(D), NEW f, NEW A, NEW g, SumsUpTo(f, A, g), D \subseteq A,
         NEW e, NEW B, NEW h, SumsUpTo(e, B, h), D \subseteq B, \A x \in D : f[x] = e[x]
  PROVE  g[D] = h[D]
<1> DEFINE P == {T \in SUBSET D : g[T] = h[T]}
<1>1. ASSUME NEW T \in SUBSET D, \A S \in SUBSET T : S # T => S \in P
      PROVE  T \in P
  <2>1. g[T] = SumStep(f, g, T) /\ h[T] = SumStep(e, h, T)
    BY DEF SumsUpTo
  <2>2. CASE T = {}
    BY <2>1, <2>2 DEF SumStep
  <2>3. CASE T # {}
    <3>1. AnyOf(T) \in T
      BY <2>3, OneIn
    <3>2. T \ {AnyOf(T)} \in P
      BY <1>1, <3>1
    <3>3. g[T \ {AnyOf(T)}] = h[T \ {AnyOf(T)}] /\ f[AnyOf(T)] = e[AnyOf(T)]
      BY <3>1, <3>2
    <3> QED
      BY <2>1, <2>3, <3>3 DEF SumStep
  <2> QED
    BY <2>2, <2>3
<1>2. D \in P
  <2> HIDE DEF P
  <2> QED
    BY <1>1, SmallerFirst
<1> QED
  BY <1>2

LEMMA SumEmpty == ASSUME NEW f PROVE SumOn(f, {}) = 0
<1>1. PICK g : SumsUpTo(f, {}, g) /\ SumOn(f, {}) = g[{}]
  BY SumsAre, FS_EmptySet
<1> QED
  BY <1>1 DEF SumsUpTo, SumStep

LEMMA SumSame ==
  ASSUME NEW S, IsFiniteSet(S), NEW f, NEW e, \A x \in S : f[x] = e[x]
  PROVE  SumOn(f, S) = SumOn(e, S)
<1>1. PICK g : SumsUpTo(f, S, g) /\ SumOn(f, S) = g[S]
  BY SumsAre
<1>2. PICK h : SumsUpTo(e, S, h) /\ SumOn(e, S) = h[S]
  BY SumsAre
<1>3. g[S] = h[S]
  BY <1>1, <1>2, SumsAgree
<1> QED
  BY <1>1, <1>2, <1>3

LEMMA SumOne ==
  ASSUME NEW S, IsFiniteSet(S), S # {}, NEW f
  PROVE  SumOn(f, S) = f[AnyOf(S)] + SumOn(f, S \ {AnyOf(S)})
<1> DEFINE T == S \ {AnyOf(S)}
<1>1. IsFiniteSet(T) /\ T \subseteq S
  BY FS_RemoveElement
<1>2. PICK g : SumsUpTo(f, S, g) /\ SumOn(f, S) = g[S]
  BY SumsAre
<1>3. PICK h : SumsUpTo(f, T, h) /\ SumOn(f, T) = h[T]
  BY <1>1, SumsAre
<1>4. g[T] = h[T]
  <2> HIDE DEF T
  <2> QED
    BY <1>1, <1>2, <1>3, SumsAgree
<1>5. g[S] = f[AnyOf(S)] + g[T]
  BY <1>2 DEF SumsUpTo, SumStep
<1> QED
  BY <1>2, <1>3, <1>4, <1>5

LEMMA SumInt ==
  ASSUME NEW S, IsFiniteSet(S), NEW f, \A x \in S : f[x] \in Int
  PROVE  SumOn(f, S) \in Int
<1> DEFINE P == {T \in SUBSET S : SumOn(f, T) \in Int}
<1>1. ASSUME NEW T \in SUBSET S, \A R \in SUBSET T : R # T => R \in P
      PROVE  T \in P
  <2>1. CASE T = {}
    BY <2>1, SumEmpty
  <2>2. CASE T # {}
    <3>1. IsFiniteSet(T)
      BY FS_Subset
    <3>2. AnyOf(T) \in T
      BY <2>2, OneIn
    <3>3. SumOn(f, T) = f[AnyOf(T)] + SumOn(f, T \ {AnyOf(T)})
      BY <2>2, <3>1, SumOne
    <3>4. T \ {AnyOf(T)} \in P
      BY <1>1, <3>2
    <3> QED
      BY <3>2, <3>3, <3>4
  <2> QED
    BY <2>1, <2>2
<1>2. S \in P
  <2> HIDE DEF P
  <2> QED
    BY <1>1, SmallerFirst
<1> QED
  BY <1>2

\* Any element may be taken out.
LEMMA SumPick ==
  ASSUME NEW S, IsFiniteSet(S), NEW f, \A x \in S : f[x] \in Int, NEW x \in S
  PROVE  SumOn(f, S) = f[x] + SumOn(f, S \ {x})
<1> DEFINE P == {T \in SUBSET S : \A y \in T : SumOn(f, T) = f[y] + SumOn(f, T \ {y})}
<1>1. \A T \in SUBSET S : IsFiniteSet(T) /\ SumOn(f, T) \in Int
  BY FS_Subset, SumInt
<1>2. ASSUME NEW T \in SUBSET S, \A R \in SUBSET T : R # T => R \in P
      PROVE  T \in P
  <2>1. SUFFICES ASSUME NEW y \in T PROVE SumOn(f, T) = f[y] + SumOn(f, T \ {y})
    OBVIOUS
  <2>2. IsFiniteSet(T) /\ T # {}
    BY <1>1, <2>1
  <2> DEFINE o == AnyOf(T)
             R == (T \ {o}) \ {y}
  <2>3. o \in T
    BY <2>2, OneIn
  <2>4. SumOn(f, T) = f[o] + SumOn(f, T \ {o})
    BY <2>2, SumOne
  <2>5. CASE y = o
    BY <2>4, <2>5
  <2>6. CASE y # o
    <3>1. T \ {o} \in P /\ T \ {y} \in P
      BY <1>2, <2>1, <2>3
    <3>2. SumOn(f, T \ {o}) = f[y] + SumOn(f, R)
      BY <2>1, <2>6, <3>1
    <3>3. SumOn(f, T \ {y}) = f[o] + SumOn(f, (T \ {y}) \ {o})
      BY <2>3, <2>6, <3>1
    <3>4. (T \ {y}) \ {o} = R
      OBVIOUS
    <3>5. SumOn(f, R) \in Int /\ f[o] \in Int /\ f[y] \in Int
      BY <1>1, <2>1, <2>3
    <3>6. SumOn(f, T \ {y}) = f[o] + SumOn(f, R)
      BY <3>3, <3>4
    <3>7. SumOn(f, T) = f[o] + (f[y] + SumOn(f, R))
      BY <2>4, <3>2
    <3>8. \A a, b, c \in Int : a + (b + c) = b + (a + c)
      OBVIOUS
    <3> HIDE DEF o, R
    <3> QED
      BY <3>5, <3>6, <3>7, <3>8
  <2> QED
    BY <2>5, <2>6
<1>3. S \in P
  <2> HIDE DEF P
  <2> QED
    BY <1>2, SmallerFirst
<1> QED
  BY <1>3

LEMMA SumInsert ==
  ASSUME NEW S, IsFiniteSet(S), NEW x, x \notin S,
         NEW f, \A y \in S \cup {x} : f[y] \in Int
  PROVE  SumOn(f, S \cup {x}) = f[x] + SumOn(f, S)
<1>1. IsFiniteSet(S \cup {x})
  BY FS_AddElement
<1>2. (S \cup {x}) \ {x} = S
  OBVIOUS
<1>3. SumOn(f, S \cup {x}) = f[x] + SumOn(f, (S \cup {x}) \ {x})
  BY <1>1, SumPick
<1> QED
  BY <1>2, <1>3

LEMMA SumPlus ==
  ASSUME NEW S, IsFiniteSet(S), NEW f, NEW e, NEW h,
         \A x \in S : f[x] \in Int /\ e[x] \in Int /\ h[x] = f[x] + e[x]
  PROVE  SumOn(h, S) = SumOn(f, S) + SumOn(e, S)
<1> DEFINE P == {T \in SUBSET S : SumOn(h, T) = SumOn(f, T) + SumOn(e, T)}
<1>1. {} \in P
  BY SumEmpty
<1>2. ASSUME NEW T \in SUBSET S, T \in P, NEW x \in S \ T
      PROVE  T \cup {x} \in P
  <2>1. IsFiniteSet(T)
    BY FS_Subset
  <2>2. \A y \in T \cup {x} : f[y] \in Int /\ e[y] \in Int /\ h[y] \in Int
    OBVIOUS
  <2>3. SumOn(h, T \cup {x}) = h[x] + SumOn(h, T)
    BY <2>1, <2>2, SumInsert
  <2>4. SumOn(f, T \cup {x}) = f[x] + SumOn(f, T)
    BY <2>1, <2>2, SumInsert
  <2>5. SumOn(e, T \cup {x}) = e[x] + SumOn(e, T)
    BY <2>1, <2>2, SumInsert
  <2>6. SumOn(f, T) \in Int /\ SumOn(e, T) \in Int
    BY <2>1, <2>2, SumInt
  <2>7. SumOn(h, T) = SumOn(f, T) + SumOn(e, T) /\ h[x] = f[x] + e[x] /\ f[x] \in Int /\ e[x] \in Int
    BY <1>2
  <2>8. \A a, b, c, d \in Int : (a + b) + (c + d) = (a + c) + (b + d)
    OBVIOUS
  <2>9. SumOn(h, T \cup {x}) = SumOn(f, T \cup {x}) + SumOn(e, T \cup {x})
    BY <2>3, <2>4, <2>5, <2>6, <2>7, <2>8
  <2> QED
    BY <2>9
<1>3. S \in P
  <2> HIDE DEF P
  <2> QED
    BY <1>1, <1>2, OneMore
<1> QED
  BY <1>3

LEMMA SumTimes ==
  ASSUME NEW S, IsFiniteSet(S), NEW f, NEW h, NEW c \in {-1, 0, 1},
         \A x \in S : f[x] \in Int /\ h[x] = c * f[x]
  PROVE  SumOn(h, S) = c * SumOn(f, S)
<1> DEFINE P == {T \in SUBSET S : SumOn(h, T) = c * SumOn(f, T)}
<1>1. {} \in P
  BY SumEmpty
<1>2. ASSUME NEW T \in SUBSET S, T \in P, NEW x \in S \ T
      PROVE  T \cup {x} \in P
  <2>1. IsFiniteSet(T)
    BY FS_Subset
  <2>2. \A y \in T \cup {x} : f[y] \in Int /\ h[y] \in Int
    OBVIOUS
  <2>3. SumOn(h, T \cup {x}) = h[x] + SumOn(h, T)
    BY <2>1, <2>2, SumInsert
  <2>4. SumOn(f, T \cup {x}) = f[x] + SumOn(f, T)
    BY <2>1, <2>2, SumInsert
  <2>5. SumOn(f, T) \in Int /\ f[x] \in Int /\ h[x] = c * f[x]
    BY <2>1, <2>2, SumInt
  <2>6. SumOn(h, T) = c * SumOn(f, T)
    BY <1>2
  <2>7. \A a, b \in Int : c * a + c * b = c * (a + b)
    OBVIOUS
  <2>8. SumOn(h, T \cup {x}) = c * SumOn(f, T \cup {x})
    BY <2>3, <2>4, <2>5, <2>6, <2>7
  <2> QED
    BY <2>8
<1>3. S \in P
  <2> HIDE DEF P
  <2> QED
    BY <1>1, <1>2, OneMore
<1> QED
  BY <1>3

LEMMA SumLeq ==
  ASSUME NEW S, IsFiniteSet(S), NEW f, NEW e,
         \A x \in S : f[x] \in Int /\ e[x] \in Int /\ f[x] <= e[x]
  PROVE  SumOn(f, S) <= SumOn(e, S)
<1> DEFINE P == {T \in SUBSET S : SumOn(f, T) <= SumOn(e, T)}
<1>1. {} \in P
  BY SumEmpty
<1>2. ASSUME NEW T \in SUBSET S, T \in P, NEW x \in S \ T
      PROVE  T \cup {x} \in P
  <2>1. IsFiniteSet(T)
    BY FS_Subset
  <2>2. \A y \in T \cup {x} : f[y] \in Int /\ e[y] \in Int
    OBVIOUS
  <2>3. SumOn(f, T \cup {x}) = f[x] + SumOn(f, T) /\ SumOn(e, T \cup {x}) = e[x] + SumOn(e, T)
    BY <2>1, <2>2, SumInsert
  <2>4. SumOn(f, T) \in Int /\ SumOn(e, T) \in Int /\ f[x] \in Int /\ e[x] \in Int
    BY <2>1, <2>2, SumInt
  <2>5. SumOn(f, T) <= SumOn(e, T) /\ f[x] <= e[x]
    BY <1>2
  <2>6. SumOn(f, T \cup {x}) <= SumOn(e, T \cup {x})
    BY <2>3, <2>4, <2>5
  <2> QED
    BY <2>6
<1>3. S \in P
  <2> HIDE DEF P
  <2> QED
    BY <1>1, <1>2, OneMore
<1> QED
  BY <1>3

LEMMA SumZero ==
  ASSUME NEW S, IsFiniteSet(S), NEW f, \A x \in S : f[x] = 0
  PROVE  SumOn(f, S) = 0
<1> DEFINE P == {T \in SUBSET S : SumOn(f, T) = 0}
<1>1. {} \in P
  BY SumEmpty
<1>2. ASSUME NEW T \in SUBSET S, T \in P, NEW x \in S \ T
      PROVE  T \cup {x} \in P
  <2>1. IsFiniteSet(T)
    BY FS_Subset
  <2>2. \A y \in T \cup {x} : f[y] \in Int
    OBVIOUS
  <2>3. SumOn(f, T \cup {x}) = f[x] + SumOn(f, T)
    BY <2>1, <2>2, SumInsert
  <2> QED
    BY <1>2, <2>3
<1>3. S \in P
  <2> HIDE DEF P
  <2> QED
    BY <1>1, <1>2, OneMore
<1> QED
  BY <1>3

LEMMA SumNat ==
  ASSUME NEW S, IsFiniteSet(S), NEW f, \A x \in S : f[x] \in Nat
  PROVE  SumOn(f, S) \in Nat
<1> DEFINE z == [x \in S |-> 0]
<1>1. SumOn(z, S) = 0
  BY SumZero
<1>2. SumOn(z, S) <= SumOn(f, S)
  BY SumLeq
<1>3. SumOn(f, S) \in Int
  BY SumInt
<1> QED
  BY <1>1, <1>2, <1>3

\* The sum of two sets that share nothing.
LEMMA SumUnion ==
  ASSUME NEW S, NEW U, IsFiniteSet(S), IsFiniteSet(U), S \cap U = {},
         NEW f, \A x \in S \cup U : f[x] \in Int
  PROVE  SumOn(f, S \cup U) = SumOn(f, S) + SumOn(f, U)
<1> DEFINE P == {T \in SUBSET U : SumOn(f, S \cup T) = SumOn(f, S) + SumOn(f, T)}
<1>1. {} \in P
  <2>1. S \cup {} = S /\ SumOn(f, S) \in Int
    BY SumInt
  <2> QED
    BY <2>1, SumEmpty
<1>2. ASSUME NEW T \in SUBSET U, T \in P, NEW x \in U \ T
      PROVE  T \cup {x} \in P
  <2>1. IsFiniteSet(T) /\ IsFiniteSet(S \cup T)
    BY FS_Subset, FS_Union
  <2>2. \A y \in (S \cup T) \cup {x} : f[y] \in Int
    OBVIOUS
  <2>3. x \notin S \cup T
    OBVIOUS
  <2>4. SumOn(f, (S \cup T) \cup {x}) = f[x] + SumOn(f, S \cup T)
    BY <2>1, <2>2, <2>3, SumInsert
  <2>5. SumOn(f, T \cup {x}) = f[x] + SumOn(f, T)
    BY <2>1, <2>2, SumInsert
  <2>6. SumOn(f, T) \in Int /\ SumOn(f, S) \in Int /\ f[x] \in Int
    BY <2>1, <2>2, SumInt
  <2>7. SumOn(f, S \cup T) = SumOn(f, S) + SumOn(f, T)
    BY <1>2
  <2>8. (S \cup T) \cup {x} = S \cup (T \cup {x})
    OBVIOUS
  <2>9. \A a, b, c \in Int : a + (b + c) = b + (a + c)
    OBVIOUS
  <2>10. SumOn(f, S \cup (T \cup {x})) = SumOn(f, S) + SumOn(f, T \cup {x})
    <3>1. SumOn(f, S \cup (T \cup {x})) = f[x] + (SumOn(f, S) + SumOn(f, T))
      BY <2>4, <2>7, <2>8
    <3> QED
      BY <2>5, <2>6, <2>9, <3>1
  <2> QED
    BY <2>10
<1>3. U \in P
  <2> HIDE DEF P
  <2> QED
    BY <1>1, <1>2, OneMore
<1> QED
  BY <1>3

\* Where all but one element gives 0.
LEMMA SumAtOne ==
  ASSUME NEW S, IsFiniteSet(S), NEW x \in S, NEW f, f[x] \in Int, \A y \in S \ {x} : f[y] = 0
  PROVE  SumOn(f, S) = f[x]
<1>1. \A y \in S : f[y] \in Int
  OBVIOUS
<1>2. IsFiniteSet(S \ {x})
  BY FS_RemoveElement
<1>3. SumOn(f, S \ {x}) = 0
  BY <1>2, SumZero
<1> QED
  BY <1>1, <1>3, SumPick

\* The elements that give something are all that counts.
LEMMA SumSupport ==
  ASSUME NEW S, IsFiniteSet(S), NEW U \in SUBSET S,
         NEW f, \A x \in S : f[x] \in Int, \A x \in S \ U : f[x] = 0
  PROVE  SumOn(f, S) = SumOn(f, U)
<1>1. IsFiniteSet(U) /\ IsFiniteSet(S \ U) /\ U \cap (S \ U) = {} /\ U \cup (S \ U) = S
  BY FS_Subset
<1>2. SumOn(f, S \ U) = 0
  BY <1>1, SumZero
<1>3. SumOn(f, U) \in Int
  BY <1>1, SumInt
<1>4. SumOn(f, S) = SumOn(f, U) + SumOn(f, S \ U)
  BY <1>1, SumUnion
<1> QED
  BY <1>2, <1>3, <1>4

Onto(h, S) == {h[x] : x \in S}
Where(R, key, k) == {r \in R : key[r] = k}

LEMMA ImageFinite ==
  ASSUME NEW S, IsFiniteSet(S), NEW f
  PROVE  IsFiniteSet(Onto(f, S))
<1> DEFINE T == Onto(f, S)
           g == [x \in S |-> f[x]]
<1>1. g \in [S -> T] /\ \A t \in T : \E x \in S : g[x] = t
  BY DEF Onto
<1>2. g \in Surjection(S, T)
  BY <1>1 DEF Surjection
<1> HIDE DEF g, T
<1>3. IsFiniteSet(T)
  BY <1>2, FS_Surjection
<1> QED
  BY <1>3 DEF T

\* The same numbers, under other names.
LEMMA SumMove ==
  ASSUME NEW S, IsFiniteSet(S), NEW f, \A x \in S : f[x] \in Int, NEW h,
         \A x, y \in S : h[x] = h[y] => x = y, NEW e, \A x \in S : e[h[x]] = f[x]
  PROVE  SumOn(e, Onto(h, S)) = SumOn(f, S) /\ IsFiniteSet(Onto(h, S))
<1> DEFINE I(X) == {h[x] : x \in X}
           P == {X \in SUBSET S : SumOn(e, I(X)) = SumOn(f, X) /\ IsFiniteSet(I(X))}
<1>1. {} \in P
  <2>1. I({}) = {}
    OBVIOUS
  <2> QED
    BY <2>1, SumEmpty, FS_EmptySet
<1>2. ASSUME NEW T \in SUBSET S, T \in P, NEW x \in S \ T
      PROVE  T \cup {x} \in P
  <2>1. IsFiniteSet(T)
    BY FS_Subset
  <2>2. \A y \in T \cup {x} : f[y] \in Int
    OBVIOUS
  <2>3. SumOn(f, T \cup {x}) = f[x] + SumOn(f, T)
    BY <2>1, <2>2, SumInsert
  <2>4. h[x] \notin I(T) /\ I(T \cup {x}) = I(T) \cup {h[x]}
    OBVIOUS
  <2>5. \A z \in I(T) \cup {h[x]} : e[z] \in Int
    OBVIOUS
  <2>6. IsFiniteSet(I(T)) /\ SumOn(e, I(T)) = SumOn(f, T)
    BY <1>2
  <2>7. SumOn(e, I(T) \cup {h[x]}) = e[h[x]] + SumOn(e, I(T))
    <3> HIDE DEF I
    <3> QED
      BY <2>4, <2>5, <2>6, SumInsert
  <2>8. IsFiniteSet(I(T) \cup {h[x]})
    <3> HIDE DEF I
    <3> QED
      BY <2>6, FS_AddElement
  <2>9. e[h[x]] = f[x]
    OBVIOUS
  <2> HIDE DEF I
  <2> QED
    BY <2>3, <2>4, <2>6, <2>7, <2>8, <2>9
<1>3. S \in P
  <2> HIDE DEF P
  <2> QED
    BY <1>1, <1>2, OneMore
<1>4. I(S) = Onto(h, S)
  BY DEF Onto
<1> HIDE DEF I
<1> QED
  BY <1>3, <1>4

\* The sums of the groups of a set add up to the sum of the set.
LEMMA SumGroups ==
  ASSUME NEW R, IsFiniteSet(R), NEW f, \A r \in R : f[r] \in Int,
         NEW K, IsFiniteSet(K), NEW key, \A r \in R : key[r] \in K,
         NEW e, \A k \in K : e[k] = SumOn(f, Where(R, key, k))
  PROVE  SumOn(e, K) = SumOn(f, R)
<1> DEFINE Of(X) == {r \in R : key[r] \in X}
           G(k) == Where(R, key, k)
           P == {X \in SUBSET K : SumOn(e, X) = SumOn(f, Of(X))}
<1>1. {} \in P
  <2>1. Of({}) = {}
    OBVIOUS
  <2> QED
    BY <2>1, SumEmpty
<1>2. ASSUME NEW T \in SUBSET K, T \in P, NEW x \in K \ T
      PROVE  T \cup {x} \in P
  <2>1. IsFiniteSet(T) /\ IsFiniteSet(Of(T)) /\ \A k \in K : IsFiniteSet(G(k)) /\ G(k) \in SUBSET R
    BY FS_Subset DEF Where
  <2>2. \A k \in K : SumOn(f, G(k)) \in Int /\ e[k] = SumOn(f, G(k))
    <3> TAKE k \in K
    <3>1. IsFiniteSet(G(k)) /\ \A r \in G(k) : f[r] \in Int
      BY <2>1
    <3> QED
      BY <3>1, SumInt
  <2>3. \A y \in T \cup {x} : e[y] \in Int
    BY <2>2
  <2>4. SumOn(e, T \cup {x}) = e[x] + SumOn(e, T)
    BY <2>1, <2>3, SumInsert
  <2>5. Of(T \cup {x}) = G(x) \cup Of(T) /\ G(x) \cap Of(T) = {}
    BY DEF Where
  <2>6. \A r \in G(x) \cup Of(T) : f[r] \in Int
    BY <2>1
  <2>7. SumOn(f, G(x) \cup Of(T)) = SumOn(f, G(x)) + SumOn(f, Of(T))
    <3> HIDE DEF G, Of
    <3> QED
      BY <2>1, <2>5, <2>6, SumUnion
  <2>8. SumOn(e, T) = SumOn(f, Of(T))
    BY <1>2
  <2> HIDE DEF G, Of
  <2> QED
    BY <2>2, <2>4, <2>5, <2>7, <2>8
<1>3. K \in P
  <2> HIDE DEF P
  <2> QED
    BY <1>1, <1>2, OneMore
<1>4. Of(K) = R
  OBVIOUS
<1> QED
  BY <1>3, <1>4

LEMMA SumByGroups ==
  ASSUME NEW R, IsFiniteSet(R), NEW f, \A r \in R : f[r] \in Int, NEW h, NEW e,
         \A r \in R : e[h[r]] = SumOn(f, Where(R, h, h[r]))
  PROVE  SumOn(e, Onto(h, R)) = SumOn(f, R) /\ IsFiniteSet(Onto(h, R))
<1> DEFINE H == Onto(h, R)
<1>1. IsFiniteSet(H)
  BY ImageFinite
<1>2. \A r \in R : h[r] \in H
  BY DEF Onto
<1>3. \A k \in H : e[k] = SumOn(f, Where(R, h, k))
  BY DEF Onto
<1> HIDE DEF H
<1>4. SumOn(e, H) = SumOn(f, R)
  BY <1>1, <1>2, <1>3, SumGroups
<1> QED
  BY <1>1, <1>4 DEF H
=============================================================================
