-------------------------------- MODULE Sums --------------------------------
(***************************************************************************)
(* Facts about the sum of w[x] over a finite set, the way MapThenSumSet    *)
(* and FoldFunction compute it: they take the elements in an order that    *)
(* CHOOSE fixes and nobody knows.  The facts that count are those that do  *)
(* not depend on the order: what one element more, one less or one changed *)
(* does to the sum.                                                        *)
(*                                                                         *)
(* The provers cannot instantiate an induction rule over predicates; one   *)
(* over sets of numbers, SetInduction, serves wherever the statement can   *)
(* be put as a set of the numbers it holds for.                            *)
(***************************************************************************)
EXTENDS Integers, FiniteSetsExt, Functions, FiniteSetTheorems, WellFoundedInduction, TLAPS

(* Induction on the natural numbers, for a set S of them.                  *)
LEMMA SetInduction ==
  ASSUME NEW S, 0 \in S, \A n \in Nat : n \in S => n + 1 \in S
  PROVE  Nat \subseteq S
<1> DEFINE T == Nat \ S
<1> SUFFICES ASSUME T # {} PROVE FALSE
  OBVIOUS
<1>1. PICK p \in T : \A n \in T : ~(n < p)
  <2>1. \E p \in T : \A n \in T : <<n, p>> \notin OpToRel(<, Nat)
    <3>1. T \subseteq Nat /\ T # {}
      OBVIOUS
    <3> HIDE DEF T
    <3> QED
      BY <3>1, NatLessThanWellFounded, WFMin
  <2> QED
    BY <2>1 DEF OpToRel
<1>2. p - 1 \in Nat /\ p - 1 \notin T
  BY <1>1
<1> QED
  BY <1>1, <1>2

-----------------------------------------------------------------------------
(* The sum of w over S, and the equation of the function that the library  *)
(* defines by recursion on the subsets of S.                               *)
SumOf(w, S) == MapThenSumSet(LAMBDA x : w[x], S)

Chosen(s) == CHOOSE x \in s : TRUE

SumItem(g, w, s) == IF s = {} THEN 0 ELSE w[Chosen(s)] + g[s \ {Chosen(s)}]

SumStep(g, w, S) == g = [s \in SUBSET S |-> SumItem(g, w, s)]

Numbered(w, S) == \A x \in S : w[x] \in Int

LEMMA SumOfChosen ==
  ASSUME NEW w, NEW S
  PROVE  SumOf(w, S) = (CHOOSE g : SumStep(g, w, S))[S]
BY Zenon DEF SumOf, MapThenSumSet, MapThenFoldSet, SumStep, SumItem, Chosen

(* The chosen element is one of the set, and taking it away makes the set  *)
(* smaller.                                                                *)
LEMMA ChosenFacts ==
  ASSUME NEW s, IsFiniteSet(s), s # {}
  PROVE  /\ Chosen(s) \in s
         /\ IsFiniteSet(s \ {Chosen(s)})
         /\ Cardinality(s) \in Nat \ {0}
         /\ Cardinality(s \ {Chosen(s)}) = Cardinality(s) - 1
<1>1. Chosen(s) \in s
  BY DEF Chosen
<1> HIDE DEF Chosen
<1> QED
  BY <1>1, FS_RemoveElement, FS_CardinalityType, FS_EmptySet

(* The sets with at most n elements, and the equation up to those.         *)
UpTo(S, n) == {s \in SUBSET S : Cardinality(s) <= n}

StepUpTo(g, w, S, n) == g = [s \in UpTo(S, n) |-> SumItem(g, w, s)]

(* The equation has a solution.                                            *)
LEMMA SumExists ==
  ASSUME NEW w, NEW S, IsFiniteSet(S)
  PROVE  \E g : SumStep(g, w, S)
<1> DEFINE N == {n \in Nat : \E g : StepUpTo(g, w, S, n)}
<1>0. \A s \in SUBSET S : IsFiniteSet(s) /\ Cardinality(s) \in Nat
                          /\ Cardinality(s) <= Cardinality(S)
  BY FS_Subset, FS_CardinalityType
<1>1. 0 \in N
  <2> DEFINE g == [s \in UpTo(S, 0) |-> 0]
  <2>1. \A s \in UpTo(S, 0) : s = {}
    BY <1>0, FS_EmptySet DEF UpTo
  <2>2. \A s \in UpTo(S, 0) : SumItem(g, w, s) = 0
    BY <2>1 DEF SumItem
  <2>3. g = [s \in UpTo(S, 0) |-> SumItem(g, w, s)]
    BY <2>2
  <2> HIDE DEF g
  <2> QED
    BY <2>3 DEF StepUpTo
<1>2. ASSUME NEW n \in Nat, n \in N PROVE n + 1 \in N
  <2>1. PICK old : StepUpTo(old, w, S, n)
    BY <1>2
  <2> DEFINE g == [s \in UpTo(S, n + 1) |-> SumItem(old, w, s)]
  <2>2. ASSUME NEW s \in UpTo(S, n + 1) PROVE SumItem(g, w, s) = SumItem(old, w, s)
    <3>1. CASE s = {}
      BY <3>1 DEF SumItem
    <3>2. CASE s # {}
      <4> DEFINE r == s \ {Chosen(s)}
      <4>1. /\ s \in SUBSET S /\ Cardinality(s) <= n + 1
            /\ Cardinality(r) = Cardinality(s) - 1 /\ Cardinality(s) \in Nat
        BY <1>0, <3>2, ChosenFacts DEF UpTo
      <4>2. r \in UpTo(S, n) /\ r \in UpTo(S, n + 1)
        BY <4>1 DEF UpTo
      <4>3. g[r] = SumItem(old, w, r)
        BY <4>2
      <4>4. old[r] = SumItem(old, w, r)
        BY <2>1, <4>2 DEF StepUpTo
      <4> HIDE DEF g
      <4> QED
        BY <3>2, <4>3, <4>4 DEF SumItem
    <3> QED
      BY <3>1, <3>2
  <2>3. g = [s \in UpTo(S, n + 1) |-> SumItem(g, w, s)]
    BY <2>2
  <2> HIDE DEF g
  <2> QED
    BY <2>3 DEF StepUpTo
<1> HIDE DEF N
<1>3. Cardinality(S) \in N
  BY <1>1, <1>2, SetInduction, FS_CardinalityType
<1>4. UpTo(S, Cardinality(S)) = SUBSET S
  BY <1>0 DEF UpTo
<1> QED
  BY <1>3, <1>4 DEF N, StepUpTo, SumStep

(* Any two solutions agree, for functions that agree, and are numbers.     *)
LEMMA SumUnique ==
  ASSUME NEW S, IsFiniteSet(S), NEW T, IsFiniteSet(T), NEW U, U \subseteq S, U \subseteq T,
         NEW w, NEW v, \A x \in U : w[x] = v[x] /\ w[x] \in Int,
         NEW g, SumStep(g, w, S), NEW h, SumStep(h, v, T)
  PROVE  g[U] = h[U] /\ g[U] \in Int
<1> DEFINE N == {n \in Nat : \A s \in SUBSET U : Cardinality(s) = n => g[s] = h[s] /\ g[s] \in Int}
<1>1. \A s \in SUBSET U : /\ IsFiniteSet(s) /\ Cardinality(s) \in Nat
                          /\ g[s] = SumItem(g, w, s) /\ h[s] = SumItem(h, v, s)
  <2>1. \A s \in SUBSET U : IsFiniteSet(s) /\ Cardinality(s) \in Nat
    BY FS_Subset, FS_CardinalityType
  <2>2. \A s \in SUBSET U : s \in SUBSET S /\ s \in SUBSET T
    OBVIOUS
  <2> QED
    BY <2>1, <2>2 DEF SumStep
<1>2. 0 \in N
  <2>1. \A s \in SUBSET U : Cardinality(s) = 0 => s = {}
    BY <1>1, FS_EmptySet
  <2>2. g[{}] = SumItem(g, w, {}) /\ h[{}] = SumItem(h, v, {})
    BY <1>1
  <2>3. g[{}] = 0 /\ h[{}] = 0
    BY <2>2 DEF SumItem
  <2> QED
    BY <2>1, <2>3
<1>3. ASSUME NEW n \in Nat, n \in N PROVE n + 1 \in N
  <2> SUFFICES ASSUME NEW s \in SUBSET U, Cardinality(s) = n + 1
               PROVE  g[s] = h[s] /\ g[s] \in Int
    OBVIOUS
  <2> DEFINE r == s \ {Chosen(s)}
  <2>1. s # {}
    BY FS_EmptySet
  <2>2. Chosen(s) \in s /\ Cardinality(r) = n /\ r \in SUBSET U
    BY <1>1, <2>1, ChosenFacts
  <2>3. g[r] = h[r] /\ g[r] \in Int
    BY <1>3, <2>2
  <2>4. w[Chosen(s)] = v[Chosen(s)] /\ w[Chosen(s)] \in Int
    BY <2>2
  <2>5. g[s] = w[Chosen(s)] + g[r] /\ h[s] = v[Chosen(s)] + h[r]
    BY <1>1, <2>1 DEF SumItem
  <2> HIDE DEF r
  <2> QED
    BY <2>3, <2>4, <2>5
<1> HIDE DEF N
<1>4. Cardinality(U) \in N
  BY <1>1, <1>2, <1>3, SetInduction
<1> QED
  BY <1>4 DEF N

(* Whatever satisfies the equation gives the sum, on every subset.         *)
LEMMA SumIs ==
  ASSUME NEW S, IsFiniteSet(S), NEW T, T \subseteq S, NEW w, Numbered(w, T),
         NEW g, SumStep(g, w, S)
  PROVE  g[T] = SumOf(w, T) /\ SumOf(w, T) \in Int
<1>1. IsFiniteSet(T)
  BY FS_Subset
<1>2. SumStep((CHOOSE h : SumStep(h, w, T)), w, T)
  BY <1>1, SumExists
<1>3. PICK h : SumStep(h, w, T) /\ SumOf(w, T) = h[T]
  BY <1>2, SumOfChosen
<1>4. T \subseteq T /\ \A x \in T : w[x] = w[x] /\ w[x] \in Int
  BY DEF Numbered
<1>5. g[T] = h[T] /\ g[T] \in Int
  BY <1>1, <1>3, <1>4, SumUnique
<1> QED
  BY <1>3, <1>5

(* A sum of integers is one, and one element may be split off: the chosen  *)
(* one.                                                                    *)
LEMMA SumSplit ==
  ASSUME NEW S, IsFiniteSet(S), NEW w, Numbered(w, S)
  PROVE  /\ SumOf(w, S) \in Int
         /\ S = {} => SumOf(w, S) = 0
         /\ S # {} => SumOf(w, S) = w[Chosen(S)] + SumOf(w, S \ {Chosen(S)})
<1>1. PICK g : SumStep(g, w, S)
  BY SumExists
<1>2. \A T \in SUBSET S : g[T] = SumOf(w, T) /\ SumOf(w, T) \in Int /\ g[T] = SumItem(g, w, T)
  <2>1. \A T \in SUBSET S : Numbered(w, T)
    BY DEF Numbered
  <2>2. \A T \in SUBSET S : g[T] = SumOf(w, T) /\ SumOf(w, T) \in Int
    BY <1>1, <2>1, SumIs
  <2> QED
    BY <1>1, <2>2 DEF SumStep
<1>3. S \in SUBSET S /\ S \ {Chosen(S)} \in SUBSET S
  OBVIOUS
<1>4. g[S] = SumOf(w, S) /\ SumOf(w, S) \in Int /\ g[S] = SumItem(g, w, S)
      /\ g[S \ {Chosen(S)}] = SumOf(w, S \ {Chosen(S)})
  BY <1>2, <1>3
<1> QED
  BY <1>4 DEF SumItem

(* Functions that agree have the same sum.                                 *)
LEMMA SumSame ==
  ASSUME NEW S, IsFiniteSet(S), NEW w, Numbered(w, S), NEW v, \A x \in S : w[x] = v[x]
  PROVE  SumOf(w, S) = SumOf(v, S)
<1>1. PICK g : SumStep(g, w, S)
  BY SumExists
<1>2. PICK h : SumStep(h, v, S)
  BY SumExists
<1>3. g[S] = h[S]
  BY <1>1, <1>2, SumUnique DEF Numbered
<1>4. Numbered(v, S)
  BY DEF Numbered
<1> QED
  BY <1>1, <1>2, <1>3, <1>4, SumIs

-----------------------------------------------------------------------------
(* Any element may be split off.                                           *)
LEMMA SumRemove ==
  ASSUME NEW S, IsFiniteSet(S), NEW w, Numbered(w, S), NEW e \in S
  PROVE  SumOf(w, S) = w[e] + SumOf(w, S \ {e})
<1> DEFINE Good(s) == \A x \in s : SumOf(w, s) = w[x] + SumOf(w, s \ {x})
           N == {n \in Nat : \A s \in SUBSET S : Cardinality(s) = n => Good(s)}
<1>1. \A s \in SUBSET S : IsFiniteSet(s) /\ Cardinality(s) \in Nat /\ Numbered(w, s)
  BY FS_Subset, FS_CardinalityType DEF Numbered
<1>2. 0 \in N
  BY <1>1, FS_EmptySet
<1>3. ASSUME NEW n \in Nat, n \in N PROVE n + 1 \in N
  <2> SUFFICES ASSUME NEW s \in SUBSET S, Cardinality(s) = n + 1, NEW x \in s
               PROVE  SumOf(w, s) = w[x] + SumOf(w, s \ {x})
    OBVIOUS
  <2> DEFINE c == Chosen(s)
             r == s \ {c}
             q == s \ {x}
  <2>1. s # {} /\ c \in s /\ Cardinality(r) = n
    BY <1>1, ChosenFacts
  <2>2. SumOf(w, s) = w[c] + SumOf(w, r)
    BY <1>1, <2>1, SumSplit
  <2>3. CASE x # c
    <3> DEFINE u == r \ {x}
    <3>1. x \in r /\ c \in q /\ u = q \ {c} /\ r \in SUBSET S /\ q \in SUBSET S
      BY <2>1, <2>3
    <3>2. Cardinality(q) = n
      BY <1>1, FS_RemoveElement
    <3>3. SumOf(w, r) = w[x] + SumOf(w, u)
      BY <1>3, <2>1, <3>1
    <3>4. SumOf(w, q) = w[c] + SumOf(w, q \ {c})
      BY <1>3, <3>1, <3>2
    <3>5. w[x] \in Int /\ w[c] \in Int /\ SumOf(w, u) \in Int
      <4>1. u \in SUBSET S
        BY <3>1
      <4> QED
        BY <1>1, <2>1, <4>1, SumSplit DEF Numbered
    <3> HIDE DEF u, q, r, c
    <3>6. SumOf(w, s) = w[x] + SumOf(w, q)
      BY <2>2, <3>1, <3>3, <3>4, <3>5
    <3> QED
      BY <3>6 DEF q
  <2> QED
    BY <2>2, <2>3
<1> HIDE DEF N
<1>4. Cardinality(S) \in N
  BY <1>1, <1>2, <1>3, SetInduction
<1> QED
  BY <1>4 DEF N

(* One element more.                                                       *)
LEMMA SumAdd ==
  ASSUME NEW S, IsFiniteSet(S), NEW e, e \notin S, NEW w, Numbered(w, S \cup {e})
  PROVE  SumOf(w, S \cup {e}) = SumOf(w, S) + w[e]
<1>1. IsFiniteSet(S \cup {e}) /\ (S \cup {e}) \ {e} = S
  BY FS_AddElement
<1>2. Numbered(w, S) /\ w[e] \in Int
  BY DEF Numbered
<1>3. SumOf(w, S \cup {e}) = w[e] + SumOf(w, (S \cup {e}) \ {e})
  BY <1>1, SumRemove
<1>4. SumOf(w, S) \in Int
  BY <1>2, SumSplit
<1>5. SumOf(w, S \cup {e}) = w[e] + SumOf(w, S)
  BY <1>1, <1>3
<1> QED
  BY <1>2, <1>4, <1>5

(* One element changed.                                                    *)
LEMMA SumChange ==
  ASSUME NEW S, IsFiniteSet(S), NEW e \in S, NEW w, Numbered(w, S), NEW v, v[e] \in Int,
         \A x \in S \ {e} : v[x] = w[x]
  PROVE  SumOf(v, S) = SumOf(w, S) - w[e] + v[e]
<1>1. Numbered(v, S) /\ Numbered(w, S \ {e}) /\ w[e] \in Int
  BY DEF Numbered
<1>2. IsFiniteSet(S \ {e})
  BY FS_RemoveElement
<1>3. SumOf(w, S) = w[e] + SumOf(w, S \ {e}) /\ SumOf(v, S) = v[e] + SumOf(v, S \ {e})
  BY <1>1, SumRemove
<1>4. SumOf(w, S \ {e}) = SumOf(v, S \ {e}) /\ SumOf(w, S \ {e}) \in Int
  BY <1>1, <1>2, SumSame, SumSplit
<1> QED
  BY <1>1, <1>3, <1>4

(* A sum of natural numbers is one.                                        *)
LEMMA SumNatural ==
  ASSUME NEW S, IsFiniteSet(S), NEW w, \A x \in S : w[x] \in Nat
  PROVE  SumOf(w, S) \in Nat
<1> DEFINE N == {n \in Nat : \A s \in SUBSET S : Cardinality(s) = n => SumOf(w, s) \in Nat}
<1>1. \A s \in SUBSET S : IsFiniteSet(s) /\ Cardinality(s) \in Nat /\ Numbered(w, s)
  BY FS_Subset, FS_CardinalityType DEF Numbered
<1>2. 0 \in N
  <2>1. \A s \in SUBSET S : Cardinality(s) = 0 => SumOf(w, s) = 0
    BY <1>1, FS_EmptySet, SumSplit
  <2> QED
    BY <2>1
<1>3. ASSUME NEW n \in Nat, n \in N PROVE n + 1 \in N
  <2> SUFFICES ASSUME NEW s \in SUBSET S, Cardinality(s) = n + 1
               PROVE  SumOf(w, s) \in Nat
    OBVIOUS
  <2> DEFINE r == s \ {Chosen(s)}
  <2>1. s # {} /\ Chosen(s) \in s /\ Cardinality(r) = n /\ r \in SUBSET S
    BY <1>1, ChosenFacts, FS_EmptySet
  <2>2. SumOf(w, s) = w[Chosen(s)] + SumOf(w, r)
    BY <1>1, <2>1, SumSplit
  <2>3. SumOf(w, r) \in Nat /\ w[Chosen(s)] \in Nat
    BY <1>3, <2>1
  <2> QED
    BY <2>2, <2>3
<1> HIDE DEF N
<1>4. Cardinality(S) \in N
  BY <1>1, <1>2, <1>3, SetInduction
<1> QED
  BY <1>4 DEF N

(* The sum does not depend on what the elements are called.                *)
LEMMA SumRenamed ==
  ASSUME NEW S, IsFiniteSet(S), NEW T, IsFiniteSet(T), NEW f,
         \A x \in S : f[x] \in T,
         \A x, y \in S : f[x] = f[y] => x = y,
         \A z \in T : \E x \in S : f[x] = z,
         NEW w, Numbered(w, S), NEW v, \A x \in S : w[x] = v[f[x]]
  PROVE  SumOf(w, S) = SumOf(v, T)
<1> DEFINE Image(s) == {f[x] : x \in s}
           N == {n \in Nat : \A s \in SUBSET S : Cardinality(s) = n => SumOf(w, s) = SumOf(v, Image(s))}
<1>1. \A s \in SUBSET S : IsFiniteSet(s) /\ Cardinality(s) \in Nat /\ Numbered(w, s)
  BY FS_Subset, FS_CardinalityType DEF Numbered
<1>2. \A s \in SUBSET S : IsFiniteSet(Image(s)) /\ Numbered(v, Image(s))
  <2>1. \A s \in SUBSET S : Image(s) \in SUBSET T
    OBVIOUS
  <2>2. \A s \in SUBSET S : \A z \in Image(s) : v[z] \in Int
    BY DEF Numbered
  <2> QED
    BY <2>1, <2>2, FS_Subset DEF Numbered
<1>3. 0 \in N
  <2> SUFFICES ASSUME NEW s \in SUBSET S, Cardinality(s) = 0
               PROVE  SumOf(w, s) = SumOf(v, Image(s))
    OBVIOUS
  <2>1. s = {} /\ Image(s) = {}
    BY <1>1, FS_EmptySet
  <2> HIDE DEF Image
  <2> QED
    BY <1>1, <1>2, <2>1, SumSplit
<1>4. ASSUME NEW n \in Nat, n \in N PROVE n + 1 \in N
  <2> SUFFICES ASSUME NEW s \in SUBSET S, Cardinality(s) = n + 1
               PROVE  SumOf(w, s) = SumOf(v, Image(s))
    OBVIOUS
  <2>1. PICK e \in s : TRUE
    BY FS_EmptySet
  <2> DEFINE r == s \ {e}
  <2>2. r \in SUBSET S /\ Cardinality(r) = n
    <3>1. IsFiniteSet(s)
      BY <1>1
    <3>2. Cardinality(r) = Cardinality(s) - 1
      BY <2>1, <3>1, FS_RemoveElement
    <3> QED
      BY <3>2
  <2>3. f[e] \in Image(s) /\ Image(s) \ {f[e]} = Image(r)
    BY <2>1
  <2>4. SumOf(w, r) = SumOf(v, Image(r))
    BY <1>4, <2>2
  <2> HIDE DEF Image
  <2>5. SumOf(w, s) = w[e] + SumOf(w, r)
    BY <1>1, <2>1, SumRemove
  <2>6. SumOf(v, Image(s)) = v[f[e]] + SumOf(v, Image(s) \ {f[e]})
    BY <1>2, <2>3, SumRemove
  <2>7. w[e] = v[f[e]]
    BY <2>1
  <2> QED
    BY <2>3, <2>4, <2>5, <2>6, <2>7
<1>5. Image(S) = T
  OBVIOUS
<1> HIDE DEF N, Image
<1>6. Cardinality(S) \in N
  BY <1>1, <1>3, <1>4, SetInduction
<1> QED
  BY <1>5, <1>6 DEF N

-----------------------------------------------------------------------------
(* Every set of naturals that is not empty has a least element.            *)
LEMMA LeastOf ==
  ASSUME NEW S, S \subseteq Nat, S # {}
  PROVE  \E x \in S : \A y \in S : x <= y
<1>1. \E x \in S : \A y \in S : <<y, x>> \notin OpToRel(<, Nat)
  BY NatLessThanWellFounded, WFMin
<1>2. PICK x \in S : \A y \in S : ~(y < x)
  BY <1>1 DEF OpToRel
<1> QED
  BY <1>2

LEMMA MinFacts ==
  ASSUME NEW S, S \subseteq Nat, S # {}
  PROVE  Min(S) \in S /\ \A y \in S : Min(S) <= y
BY LeastOf DEF Min

(* Intervals between low and high that do not overlap, in the order of     *)
(* their numbers, are together no longer than the time between.            *)
LEMMA IntervalsFit ==
  ASSUME NEW S, IsFiniteSet(S), S \subseteq Nat, NEW w, NEW begin, NEW end,
         NEW low \in Int, NEW high \in Int, low <= high,
         \A m \in S : /\ begin[m] \in Int /\ end[m] \in Int /\ w[m] = end[m] - begin[m]
                      /\ low <= begin[m] /\ begin[m] <= end[m] /\ end[m] <= high,
         \A m, n \in S : m < n => end[m] <= begin[n]
  PROVE  SumOf(w, S) \in Int /\ SumOf(w, S) <= high - low
<1> DEFINE Fits(s) == \A l \in Int : l <= high /\ (\A m \in s : l <= begin[m])
                                       => SumOf(w, s) <= high - l
           N == {n \in Nat : \A s \in SUBSET S : Cardinality(s) = n => Fits(s)}
<1>1. \A s \in SUBSET S : /\ IsFiniteSet(s) /\ Cardinality(s) \in Nat /\ Numbered(w, s)
                          /\ SumOf(w, s) \in Int
  <2>1. \A x \in S : w[x] \in Int
    OBVIOUS
  <2>2. \A s \in SUBSET S : IsFiniteSet(s) /\ Cardinality(s) \in Nat /\ Numbered(w, s)
    BY <2>1, FS_Subset, FS_CardinalityType DEF Numbered
  <2> QED
    BY <2>2, SumSplit
<1>2. 0 \in N
  <2>1. \A s \in SUBSET S : Cardinality(s) = 0 => SumOf(w, s) = 0
    BY <1>1, FS_EmptySet, SumSplit
  <2> QED
    BY <2>1
<1>3. ASSUME NEW n \in Nat, n \in N PROVE n + 1 \in N
  <2> SUFFICES ASSUME NEW s \in SUBSET S, Cardinality(s) = n + 1, NEW l \in Int, l <= high,
                      \A m \in s : l <= begin[m]
               PROVE  SumOf(w, s) <= high - l
    OBVIOUS
  <2>1. s # {} /\ s \subseteq Nat
    BY FS_EmptySet
  <2>2. PICK e \in s : \A m \in s : e <= m
    BY <2>1, LeastOf
  <2> DEFINE r == s \ {e}
  <2>3. Cardinality(r) = n /\ r \in SUBSET S /\ r = s \ {e}
    <3>1. IsFiniteSet(s)
      BY <1>1
    <3>2. Cardinality(r) = Cardinality(s) - 1
      BY <3>1, FS_RemoveElement
    <3> QED
      BY <3>1, <3>2
  <2>4. \A m \in r : end[e] <= begin[m]
    <3> SUFFICES ASSUME NEW m \in r PROVE end[e] <= begin[m]
      OBVIOUS
    <3>1. e <= m /\ e # m /\ e \in Nat /\ m \in Nat /\ e \in S /\ m \in S
      BY <2>2
    <3>2. e < m
      BY <3>1
    <3> QED
      BY <3>1, <3>2
  <2>5. end[e] \in Int /\ begin[e] \in Int /\ w[e] = end[e] - begin[e] /\ end[e] <= high /\ l <= begin[e]
    OBVIOUS
  <2>6. SumOf(w, r) <= high - end[e]
    BY <1>3, <2>3, <2>4, <2>5
  <2>7. SumOf(w, s) = w[e] + SumOf(w, r)
    BY <1>1, <2>3, SumRemove
  <2>8. SumOf(w, r) \in Int
    BY <1>1, <2>3
  <2> HIDE DEF r
  <2> QED
    BY <2>5, <2>6, <2>7, <2>8
<1> HIDE DEF N
<1>4. Cardinality(S) \in N
  BY <1>1, <1>2, <1>3, SetInduction
<1>5. SumOf(w, S) <= high - low
  BY <1>4 DEF N
<1> QED
  BY <1>1, <1>5

-----------------------------------------------------------------------------
(* What holds of the empty set, and of a set with one element more, holds  *)
(* of every finite one: G is the set of those it holds of.                 *)
LEMMA SubsetInduction ==
  ASSUME NEW S, IsFiniteSet(S), NEW G, {} \in G,
         \A s \in SUBSET S, e \in S : s \in G /\ e \notin s => s \cup {e} \in G
  PROVE  S \in G
<1> DEFINE N == {n \in Nat : \A s \in SUBSET S : Cardinality(s) = n => s \in G}
<1>1. \A s \in SUBSET S : IsFiniteSet(s) /\ Cardinality(s) \in Nat
  BY FS_Subset, FS_CardinalityType
<1>2. 0 \in N
  BY <1>1, FS_EmptySet
<1>3. ASSUME NEW n \in Nat, n \in N PROVE n + 1 \in N
  <2> SUFFICES ASSUME NEW s \in SUBSET S, Cardinality(s) = n + 1 PROVE s \in G
    OBVIOUS
  <2>1. PICK e \in s : TRUE
    <3>1. IsFiniteSet(s) /\ Cardinality(s) # 0
      BY <1>1
    <3>2. s # {}
      BY <3>1, FS_EmptySet
    <3> QED
      BY <3>2
  <2> DEFINE r == s \ {e}
  <2>2. r \in SUBSET S /\ e \in S /\ e \notin r /\ s = r \cup {e}
    BY <2>1
  <2>3. Cardinality(r) = n
    <3>1. IsFiniteSet(s)
      BY <1>1
    <3>2. Cardinality(r) = Cardinality(s) - 1
      BY <2>1, <3>1, FS_RemoveElement
    <3> QED
      BY <3>2
  <2>4. r \in G
    BY <1>3, <2>2, <2>3
  <2> HIDE DEF r
  <2> QED
    BY <2>2, <2>4
<1> HIDE DEF N
<1>4. Cardinality(S) \in N
  BY <1>1, <1>2, <1>3, SetInduction
<1> QED
  BY <1>4 DEF N

(* Sums of sums, and of larger terms.                                      *)
LEMMA SumPlus ==
  ASSUME NEW S, IsFiniteSet(S), NEW v, Numbered(v, S), NEW w, Numbered(w, S),
         NEW u, \A x \in S : u[x] = v[x] + w[x]
  PROVE  SumOf(u, S) = SumOf(v, S) + SumOf(w, S)
<1> DEFINE G == {s \in SUBSET S : SumOf(u, s) = SumOf(v, s) + SumOf(w, s)}
<1>1. \A s \in SUBSET S : /\ IsFiniteSet(s)
                          /\ Numbered(v, s) /\ Numbered(w, s) /\ Numbered(u, s)
                          /\ SumOf(v, s) \in Int /\ SumOf(w, s) \in Int
  <2>1. \A s \in SUBSET S : /\ IsFiniteSet(s)
                            /\ Numbered(v, s) /\ Numbered(w, s) /\ Numbered(u, s)
    BY FS_Subset DEF Numbered
  <2> QED
    BY <2>1, SumSplit
<1>2. {} \in G
  <2>1. {} \in SUBSET S
    OBVIOUS
  <2>2. SumOf(u, {}) = 0 /\ SumOf(v, {}) = 0 /\ SumOf(w, {}) = 0
    BY <1>1, <2>1, SumSplit
  <2> QED
    BY <2>1, <2>2
<1>3. ASSUME NEW s \in SUBSET S, NEW e \in S, s \in G, e \notin s PROVE s \cup {e} \in G
  <2>1. s \cup {e} \in SUBSET S
    OBVIOUS
  <2>2. /\ SumOf(u, s \cup {e}) = SumOf(u, s) + u[e]
        /\ SumOf(v, s \cup {e}) = SumOf(v, s) + v[e]
        /\ SumOf(w, s \cup {e}) = SumOf(w, s) + w[e]
    BY <1>1, <1>3, <2>1, SumAdd
  <2>3. u[e] = v[e] + w[e] /\ v[e] \in Int /\ w[e] \in Int
    BY DEF Numbered
  <2>4. SumOf(u, s) = SumOf(v, s) + SumOf(w, s) /\ SumOf(v, s) \in Int /\ SumOf(w, s) \in Int
    BY <1>1, <1>3
  <2>5. SumOf(u, s \cup {e}) = SumOf(v, s \cup {e}) + SumOf(w, s \cup {e})
    BY <2>2, <2>3, <2>4
  <2> QED
    BY <2>1, <2>5
<1> HIDE DEF G
<1>4. S \in G
  BY <1>2, <1>3, SubsetInduction
<1> QED
  BY <1>4 DEF G

LEMMA SumUnion ==
  ASSUME NEW S, IsFiniteSet(S), NEW T, IsFiniteSet(T), S \cap T = {},
         NEW w, Numbered(w, S \cup T)
  PROVE  SumOf(w, S \cup T) = SumOf(w, S) + SumOf(w, T)
<1> DEFINE G == {s \in SUBSET T : SumOf(w, S \cup s) = SumOf(w, S) + SumOf(w, s)}
<1>1. \A s \in SUBSET T : /\ IsFiniteSet(s) /\ IsFiniteSet(S \cup s)
                          /\ Numbered(w, s) /\ Numbered(w, S \cup s)
                          /\ SumOf(w, s) \in Int /\ SumOf(w, S \cup s) \in Int
  <2>1. \A s \in SUBSET T : IsFiniteSet(s) /\ Numbered(w, s) /\ Numbered(w, S \cup s)
    BY FS_Subset DEF Numbered
  <2>2. \A s \in SUBSET T : IsFiniteSet(S \cup s)
    BY <2>1, FS_Union
  <2> QED
    BY <2>1, <2>2, SumSplit
<1>2. SumOf(w, S) \in Int /\ SumOf(w, {}) = 0
  <2>1. Numbered(w, S) /\ Numbered(w, {}) /\ IsFiniteSet({})
    BY FS_EmptySet DEF Numbered
  <2> QED
    BY <2>1, SumSplit
<1>3. {} \in G
  <2>1. S \cup {} = S
    OBVIOUS
  <2> QED
    BY <1>2, <2>1
<1>4. ASSUME NEW s \in SUBSET T, NEW e \in T, s \in G, e \notin s PROVE s \cup {e} \in G
  <2>1. /\ s \cup {e} \in SUBSET T /\ e \notin S \cup s
        /\ S \cup (s \cup {e}) = (S \cup s) \cup {e}
    BY <1>4
  <2>2. /\ SumOf(w, s \cup {e}) = SumOf(w, s) + w[e]
        /\ SumOf(w, (S \cup s) \cup {e}) = SumOf(w, S \cup s) + w[e]
    BY <1>1, <1>4, <2>1, SumAdd
  <2>3. w[e] \in Int
    BY DEF Numbered
  <2>4. SumOf(w, S \cup s) = SumOf(w, S) + SumOf(w, s) /\ SumOf(w, s) \in Int
    BY <1>1, <1>4
  <2>5. SumOf(w, S \cup (s \cup {e})) = SumOf(w, S \cup s) + w[e]
    BY <2>1, <2>2
  <2>6. SumOf(w, S \cup (s \cup {e})) = SumOf(w, S) + SumOf(w, s \cup {e})
    <3> DEFINE a == SumOf(w, S \cup (s \cup {e}))
               b == SumOf(w, S \cup s)
               c == SumOf(w, s \cup {e})
               d == SumOf(w, s)
               f == SumOf(w, S)
               x == w[e]
    <3>1. a = b + x /\ c = d + x /\ b = f + d /\ d \in Int /\ f \in Int /\ x \in Int
      BY <1>2, <2>2, <2>3, <2>4, <2>5
    <3> HIDE DEF a, b, c, d, f, x
    <3>2. a = f + c
      BY <3>1
    <3> QED
      BY <3>2 DEF a, c, f
  <2> QED
    BY <2>1, <2>6
<1> HIDE DEF G
<1>5. T \in G
  BY <1>3, <1>4, SubsetInduction
<1> QED
  BY <1>5 DEF G

LEMMA SumAtMost ==
  ASSUME NEW S, IsFiniteSet(S), NEW v, Numbered(v, S), NEW w, Numbered(w, S),
         \A x \in S : v[x] <= w[x]
  PROVE  SumOf(v, S) <= SumOf(w, S)
<1> DEFINE u == [x \in S |-> w[x] - v[x]]
<1>1. \A x \in S : u[x] \in Nat /\ w[x] = v[x] + u[x]
  <2>1. \A x \in S : v[x] \in Int /\ w[x] \in Int
    BY DEF Numbered
  <2> QED
    BY <2>1
<1> HIDE DEF u
<1>2. Numbered(u, S)
  BY <1>1 DEF Numbered
<1>3. SumOf(u, S) \in Nat
  BY <1>1, SumNatural
<1>4. SumOf(w, S) = SumOf(v, S) + SumOf(u, S)
  BY <1>1, <1>2, SumPlus
<1>5. SumOf(v, S) \in Int
  BY SumSplit
<1> QED
  BY <1>3, <1>4, <1>5

LEMMA SumOfPart ==
  ASSUME NEW S, IsFiniteSet(S), NEW T, T \subseteq S, NEW w, \A x \in S : w[x] \in Nat
  PROVE  SumOf(w, T) <= SumOf(w, S)
<1> DEFINE R == S \ T
<1>1. IsFiniteSet(T) /\ IsFiniteSet(R) /\ T \cap R = {} /\ T \cup R = S
  <2>1. \A s \in SUBSET S : IsFiniteSet(s)
    BY FS_Subset
  <2> QED
    BY <2>1
<1> HIDE DEF R
<1>2. Numbered(w, T \cup R) /\ \A x \in T : w[x] \in Nat
  BY <1>1 DEF Numbered
<1>3. \A x \in R : w[x] \in Nat
  BY <1>1
<1>4. SumOf(w, T \cup R) = SumOf(w, T) + SumOf(w, R)
  BY <1>1, <1>2, SumUnion
<1>5. SumOf(w, T) \in Nat /\ SumOf(w, R) \in Nat
  BY <1>1, <1>2, <1>3, SumNatural
<1>6. SumOf(w, S) = SumOf(w, T) + SumOf(w, R)
  BY <1>1, <1>4
<1> QED
  BY <1>5, <1>6

(* A sum can be taken class by class: key says to which an element belongs. *)
Class(key, S, i) == {x \in S : key[x] = i}

LEMMA SumPartition ==
  ASSUME NEW S, IsFiniteSet(S), NEW I, IsFiniteSet(I), NEW key, \A x \in S : key[x] \in I,
         NEW w, Numbered(w, S), NEW v, \A i \in I : v[i] = SumOf(w, Class(key, S, i))
  PROVE  SumOf(v, I) = SumOf(w, S)
<1> DEFINE By(s) == [i \in I |-> SumOf(w, Class(key, s, i))]
           G == {s \in SUBSET S : SumOf(By(s), I) = SumOf(w, s)}
<1>1. \A s \in SUBSET S : IsFiniteSet(s) /\ Numbered(w, s) /\ SumOf(w, s) \in Int
  <2>1. \A s \in SUBSET S : IsFiniteSet(s) /\ Numbered(w, s)
    BY FS_Subset DEF Numbered
  <2> QED
    BY <2>1, SumSplit
<1>2. \A s \in SUBSET S : /\ \A i : Class(key, s, i) \in SUBSET S
                          /\ Numbered(By(s), I)
                          /\ \A i \in I : By(s)[i] = SumOf(w, Class(key, s, i))
  <2> SUFFICES ASSUME NEW s \in SUBSET S
               PROVE  /\ \A i : Class(key, s, i) \in SUBSET S
                      /\ Numbered(By(s), I)
                      /\ \A i \in I : By(s)[i] = SumOf(w, Class(key, s, i))
    OBVIOUS
  <2>1. \A i : Class(key, s, i) \in SUBSET S
    BY DEF Class
  <2>2. \A i \in I : By(s)[i] = SumOf(w, Class(key, s, i))
    OBVIOUS
  <2> HIDE DEF By
  <2> QED
    BY <1>1, <2>1, <2>2 DEF Numbered
<1> HIDE DEF By
<1>3. {} \in G
  <2>1. {} \in SUBSET S /\ \A i \in I : Class(key, {}, i) = {}
    BY DEF Class
  <2>2. SumOf(w, {}) = 0
    BY <1>1, <2>1, SumSplit
  <2>3. \A i \in I : By({})[i] = 0
    <3>1. \A i \in I : By({})[i] = SumOf(w, Class(key, {}, i))
      BY <1>2, <2>1
    <3> QED
      BY <2>1, <2>2, <3>1
  <2> DEFINE zero == By({})
  <2>4. SumOf(zero, I) = 0
    <3> DEFINE H == {s \in SUBSET I : SumOf(zero, s) = 0}
    <3>1. \A s \in SUBSET I : IsFiniteSet(s) /\ Numbered(zero, s)
      BY <2>3, FS_Subset DEF Numbered
    <3>2. {} \in H
      BY <3>1, SumSplit
    <3>3. ASSUME NEW s \in SUBSET I, NEW e \in I, s \in H, e \notin s PROVE s \cup {e} \in H
      <4>1. s \cup {e} \in SUBSET I /\ zero[e] = 0
        BY <2>3
      <4>2. SumOf(zero, s \cup {e}) = SumOf(zero, s) + zero[e]
        BY <3>1, <3>3, <4>1, SumAdd
      <4> HIDE DEF zero
      <4> QED
        BY <3>3, <4>1, <4>2
    <3> HIDE DEF H
    <3>4. I \in H
      BY <3>2, <3>3, SubsetInduction
    <3> QED
      BY <3>4 DEF H
  <2> QED
    BY <2>1, <2>2, <2>4
<1>4. ASSUME NEW s \in SUBSET S, NEW e \in S, s \in G, e \notin s PROVE s \cup {e} \in G
  <2> DEFINE t == s \cup {e}
             k == key[e]
             old == By(s)
             new == By(t)
  <2>1. t \in SUBSET S /\ k \in I
    OBVIOUS
  <2>2. /\ \A i \in I : i # k => Class(key, t, i) = Class(key, s, i)
        /\ Class(key, t, k) = Class(key, s, k) \cup {e} /\ e \notin Class(key, s, k)
    BY <1>4 DEF Class
  <2>3. SumOf(w, t) = SumOf(w, s) + w[e] /\ SumOf(w, s) \in Int /\ w[e] \in Int
    BY <1>1, <1>4, <2>1, SumAdd DEF Numbered
  <2>4. SumOf(w, Class(key, t, k)) = SumOf(w, Class(key, s, k)) + w[e]
    <3> DEFINE C == Class(key, s, k)
    <3>1. /\ IsFiniteSet(C) /\ Numbered(w, C \cup {e}) /\ e \notin C
          /\ Class(key, t, k) = C \cup {e}
      BY <1>1, <1>2, <2>1, <2>2
    <3> HIDE DEF C
    <3>2. SumOf(w, C \cup {e}) = SumOf(w, C) + w[e]
      BY ONLY <3>1, SumAdd, Zenon
    <3> QED
      BY <3>1, <3>2 DEF C
  <2>5. /\ Numbered(old, I) /\ Numbered(new, I)
        /\ \A i \in I \ {k} : new[i] = old[i]
        /\ new[k] = old[k] + w[e]
    <3>1. s \in SUBSET S /\ t \in SUBSET S
      BY <2>1
    <3>2. /\ Numbered(old, I) /\ Numbered(new, I)
          /\ \A i \in I : old[i] = SumOf(w, Class(key, s, i))
          /\ \A i \in I : new[i] = SumOf(w, Class(key, t, i))
      BY <1>2, <3>1
    <3> HIDE DEF old, new, k, t
    <3> QED
      BY <2>1, <2>2, <2>4, <3>2
  <2> HIDE DEF old, new, k
  <2>6. new[k] \in Int /\ old[k] \in Int
    BY <2>1, <2>5 DEF Numbered
  <2>7. SumOf(new, I) = SumOf(old, I) - old[k] + new[k]
    BY <2>1, <2>5, <2>6, SumChange
  <2>8. SumOf(old, I) = SumOf(w, s)
    BY <1>4 DEF old
  <2>9. SumOf(new, I) = SumOf(w, t)
    BY <2>3, <2>5, <2>6, <2>7, <2>8
  <2> QED
    BY <2>1, <2>9 DEF new
<1> HIDE DEF G
<1>5. S \in G
  BY <1>3, <1>4, SubsetInduction
<1>6. SumOf(By(S), I) = SumOf(w, S)
  BY <1>5 DEF G
<1>7. SumOf(By(S), I) = SumOf(v, I)
  <2>1. S \in SUBSET S
    OBVIOUS
  <2>2. Numbered(By(S), I) /\ \A i \in I : By(S)[i] = v[i]
    BY <1>2, <2>1
  <2> QED
    BY <2>2, SumSame
<1> QED
  BY <1>6, <1>7

=============================================================================
