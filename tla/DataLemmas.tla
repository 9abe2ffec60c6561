----------------------------- MODULE DataLemmas ------------------------------
(***************************************************************************)
(* What the proofs of several components need of finite data: sums over a  *)
(* finite set (MapThenSumSet, FoldFunction), sorted sequences and filters  *)
(* (Sorting), products and binomial coefficients (Combinatorics).  The     *)
(* library leaves the folds without theorems that the provers can          *)
(* instantiate; their equation is proved here for an arbitrary function,   *)
(* by induction over the subsets of a finite set, from the library's fact  *)
(* that strict inclusion is well founded on them.                          *)
(***************************************************************************)
EXTENDS Sorting, FiniteSetsExt, Combinatorics, FiniteSetTheorems, TLAPS

-----------------------------------------------------------------------------
(* Sums *)

\* What MapThenSumSet adds up, with the values as a function.
Total(g, S) == MapThenSumSet(LAMBDA x : g[x], S)

\* The fold behind it, as a function of the subsets of S.
AnyOf(s) == CHOOSE x \in s : TRUE
SumsUp(it, g, S) ==
    it = [s \in SUBSET S |-> IF s = {} THEN 0 ELSE g[AnyOf(s)] + it[s \ {AnyOf(s)}]]

\* A sum is the last value of a fold over the subsets.
LEMMA TotalIsFolded ==
    ASSUME NEW g, NEW S
    PROVE  Total(g, S) = (CHOOSE it : SumsUp(it, g, S))[S]
BY DEF Total, MapThenSumSet, MapThenFoldSet, SumsUp, AnyOf

\* The element a fold takes out next is one of the set.
LEMMA AnyOfIsIn == ASSUME NEW s, s # {} PROVE AnyOf(s) \in s
BY DEF AnyOf

\* Induction over the subsets of a finite set.
LEMMA SubsetInduction ==
    ASSUME NEW S, IsFiniteSet(S), NEW Good \in SUBSET SUBSET S,
           \A s \in SUBSET S : (\A u \in SUBSET s : u # s => u \in Good) => s \in Good
    PROVE  Good = SUBSET S
<1> SUFFICES ASSUME Good # SUBSET S PROVE FALSE
  OBVIOUS
<1> DEFINE Bad == (SUBSET S) \ Good
<1>1. Bad # {} /\ Bad \subseteq SUBSET S
  OBVIOUS
<1>2. IsWellFoundedOn(StrictSubsetOrdering(S), SUBSET S)
  <2>1. IsWellFoundedOn(StrictSubsetOrdering(S), FiniteSubsetsOf(S))
    BY FS_StrictSubsetOrderingWellFounded
  <2>2. FiniteSubsetsOf(S) = SUBSET S
    BY FS_FiniteSubsetsOfFinite
  <2> QED
    BY <2>1, <2>2
<1>3. PICK s \in Bad : \A u \in Bad : <<u, s>> \notin StrictSubsetOrdering(S)
  <2> HIDE DEF Bad
  <2> QED
    BY <1>1, <1>2, WFMin
<1>4. \A u \in SUBSET s : u # s => u \in Good
  BY <1>3 DEF StrictSubsetOrdering
<1> QED
  BY <1>3, <1>4

\* Two folds agree on the subsets they share: the choice of the next element
\* depends on the subset only.
LEMMA FoldsAgree ==
    ASSUME NEW S, IsFiniteSet(S), NEW T \in SUBSET S, NEW g, NEW it, NEW jt,
           SumsUp(it, g, S), SumsUp(jt, g, T)
    PROVE  \A s \in SUBSET T : it[s] = jt[s]
<1> DEFINE Good == {s \in SUBSET T : it[s] = jt[s]}
<1>1. ASSUME NEW s \in SUBSET T, \A u \in SUBSET s : u # s => u \in Good
      PROVE  s \in Good
  <2>1. CASE s = {}
    BY <2>1 DEF SumsUp
  <2>2. CASE s # {}
    <3>1. s \ {AnyOf(s)} \in Good
      BY <1>1, <2>2, AnyOfIsIn
    <3>2. it[s] = g[AnyOf(s)] + it[s \ {AnyOf(s)}]
      BY <2>2 DEF SumsUp
    <3>3. jt[s] = g[AnyOf(s)] + jt[s \ {AnyOf(s)}]
      BY <2>2 DEF SumsUp
    <3> QED
      BY <3>1, <3>2, <3>3
  <2> QED
    BY <2>1, <2>2
<1>2. IsFiniteSet(T)
  BY FS_Subset
<1>3. Good = SUBSET T
  <2> HIDE DEF Good
  <2>1. Good \in SUBSET SUBSET T
    BY DEF Good
  <2> QED
    BY <1>1, <1>2, <2>1, SubsetInduction
<1> QED
  BY <1>3

\* There is a fold over the subsets of a finite set.
LEMMA FoldsExist ==
    ASSUME NEW S, IsFiniteSet(S), NEW g
    PROVE  \E it : SumsUp(it, g, S)
<1> DEFINE Good == {s \in SUBSET S : \E it : SumsUp(it, g, s)}
           F(s) == CHOOSE it : SumsUp(it, g, s)
<1>1. ASSUME NEW s \in SUBSET S, \A u \in SUBSET s : u # s => u \in Good
      PROVE  s \in Good
  <2> DEFINE it == [u \in SUBSET s |->
                      IF u = {} THEN 0
                      ELSE g[AnyOf(u)] + F(u \ {AnyOf(u)})[u \ {AnyOf(u)}]]
  <2>1. \A u \in SUBSET s : u # s => SumsUp(F(u), g, u)
    BY <1>1
  <2>2. \A u \in SUBSET s : u # s => it[u] = F(u)[u]
    <3> SUFFICES ASSUME NEW u \in SUBSET s, u # s PROVE it[u] = F(u)[u]
      OBVIOUS
    <3>1. SumsUp(F(u), g, u)
      BY <2>1
    <3>2. CASE u = {}
      BY <3>1, <3>2 DEF SumsUp
    <3>3. CASE u # {}
      <4> DEFINE v == u \ {AnyOf(u)}
      <4>1. v \in SUBSET u /\ v \in SUBSET s /\ v # s
        BY <3>3, AnyOfIsIn
      <4>2. SumsUp(F(v), g, v)
        BY <2>1, <4>1
      <4>3. IsFiniteSet(u)
        BY FS_Subset
      <4>4. F(u)[v] = F(v)[v]
        <5> HIDE DEF v, F
        <5> QED
          BY <3>1, <4>1, <4>2, <4>3, FoldsAgree
      <4>5. F(u)[u] = g[AnyOf(u)] + F(u)[v]
        <5> HIDE DEF F
        <5> QED
          BY <3>1, <3>3 DEF SumsUp
      <4>6. it[u] = g[AnyOf(u)] + F(v)[v]
        BY <3>3
      <4> QED
        BY <4>4, <4>5, <4>6
    <3> QED
      BY <3>2, <3>3
  <2>3. SumsUp(it, g, s)
    <3>1. \A u \in SUBSET s : u # {} =>
             it[u] = g[AnyOf(u)] + it[u \ {AnyOf(u)}]
      <4> SUFFICES ASSUME NEW u \in SUBSET s, u # {}
                   PROVE  it[u] = g[AnyOf(u)] + it[u \ {AnyOf(u)}]
        OBVIOUS
      <4>1. u \ {AnyOf(u)} \in SUBSET s /\ u \ {AnyOf(u)} # s
        BY AnyOfIsIn
      <4>2. it[u \ {AnyOf(u)}] = F(u \ {AnyOf(u)})[u \ {AnyOf(u)}]
        BY <2>2, <4>1
      <4>3. it[u] = g[AnyOf(u)] + F(u \ {AnyOf(u)})[u \ {AnyOf(u)}]
        OBVIOUS
      <4> QED
        BY <4>2, <4>3
    <3>2. it[{}] = 0
      OBVIOUS
    <3>3. it = [u \in SUBSET s |-> it[u]]
      OBVIOUS
    <3> HIDE DEF it
    <3> QED
      BY <3>1, <3>2, <3>3 DEF SumsUp
  <2> QED
    BY <2>3
<1>2. Good = SUBSET S
  <2>1. Good \in SUBSET SUBSET S
    OBVIOUS
  <2> HIDE DEF Good
  <2> QED
    BY <1>1, <2>1, SubsetInduction
<1> QED
  BY <1>2

\* The equation of a sum over a finite set.
LEMMA TotalUnfolds ==
    ASSUME NEW S, IsFiniteSet(S), NEW g
    PROVE  Total(g, S) = IF S = {} THEN 0
                         ELSE g[AnyOf(S)] + Total(g, S \ {AnyOf(S)})
<1> DEFINE F(s) == CHOOSE it : SumsUp(it, g, s)
           v == S \ {AnyOf(S)}
<1>1. SumsUp(F(S), g, S)
  BY FoldsExist
<1>2. IsFiniteSet(v)
  BY FS_Subset
<1>3. SumsUp(F(v), g, v)
  BY <1>2, FoldsExist
<1>4. F(S)[v] = F(v)[v]
  <2>1. v \in SUBSET S
    OBVIOUS
  <2> HIDE DEF v, F
  <2> QED
    BY <1>1, <1>3, <2>1, FoldsAgree
<1>5. F(S)[S] = IF S = {} THEN 0 ELSE g[AnyOf(S)] + F(S)[v]
  <2> HIDE DEF F
  <2> QED
    BY <1>1 DEF SumsUp
<1>6. Total(g, S) = F(S)[S] /\ Total(g, v) = F(v)[v]
  BY TotalIsFolded
<1> QED
  BY <1>4, <1>5, <1>6

\* Nothing adds up to nothing.
LEMMA TotalOfNone == ASSUME NEW g PROVE Total(g, {}) = 0
BY TotalUnfolds, FS_EmptySet

\* A sum of integers is one.
LEMMA TotalIsInt ==
    ASSUME NEW S, IsFiniteSet(S), NEW g, \A x \in S : g[x] \in Int
    PROVE  Total(g, S) \in Int
<1> DEFINE Good == {s \in SUBSET S : Total(g, s) \in Int}
<1>1. ASSUME NEW s \in SUBSET S, \A u \in SUBSET s : u # s => u \in Good
      PROVE  s \in Good
  <2>1. IsFiniteSet(s)
    BY FS_Subset
  <2>2. CASE s = {}
    BY <2>2, TotalOfNone
  <2>3. CASE s # {}
    <3>1. AnyOf(s) \in s /\ s \ {AnyOf(s)} \in Good
      BY <1>1, <2>3, AnyOfIsIn
    <3>2. Total(g, s) = g[AnyOf(s)] + Total(g, s \ {AnyOf(s)})
      BY <2>1, <2>3, TotalUnfolds
    <3> QED
      BY <3>1, <3>2
  <2> QED
    BY <2>2, <2>3
<1>2. Good = SUBSET S
  <2>1. Good \in SUBSET SUBSET S
    OBVIOUS
  <2> HIDE DEF Good
  <2> QED
    BY <1>1, <2>1, SubsetInduction
<1> QED
  BY <1>2

\* Any element may be taken out first.
LEMMA TotalRemoves ==
    ASSUME NEW S, IsFiniteSet(S), NEW g, \A x \in S : g[x] \in Int, NEW r \in S
    PROVE  Total(g, S) = g[r] + Total(g, S \ {r})
<1> DEFINE Good == {s \in SUBSET S : \A x \in s : Total(g, s) = g[x] + Total(g, s \ {x})}
<1>1. ASSUME NEW s \in SUBSET S, \A u \in SUBSET s : u # s => u \in Good, NEW x \in s
      PROVE  Total(g, s) = g[x] + Total(g, s \ {x})
  <2> DEFINE a == AnyOf(s)
  <2>1. a \in s
    BY AnyOfIsIn
  <2>2. /\ IsFiniteSet(s) /\ IsFiniteSet(s \ {x}) /\ IsFiniteSet(s \ {a})
        /\ IsFiniteSet((s \ {x}) \ {a})
    BY FS_Subset
  <2>3. Total(g, s) = g[a] + Total(g, s \ {a})
    BY <2>2, TotalUnfolds
  <2>4. CASE x = a
    BY <2>3, <2>4
  <2>5. CASE x # a
    <3>1. s \ {a} \in Good /\ s \ {x} \in Good
      BY <1>1, <2>1
    <3>2. Total(g, s \ {a}) = g[x] + Total(g, (s \ {a}) \ {x})
      BY <2>5, <3>1
    <3>3. Total(g, s \ {x}) = g[a] + Total(g, (s \ {x}) \ {a})
      BY <2>1, <2>5, <3>1
    <3>4. (s \ {a}) \ {x} = (s \ {x}) \ {a}
      OBVIOUS
    <3>5. Total(g, (s \ {x}) \ {a}) \in Int /\ g[a] \in Int /\ g[x] \in Int
      BY <2>1, <2>2, TotalIsInt
    <3>6. Total(g, s \ {a}) = g[x] + Total(g, (s \ {x}) \ {a})
      BY <3>2, <3>4
    <3> HIDE DEF a
    <3> QED
      BY <2>3, <3>3, <3>5, <3>6
  <2> QED
    BY <2>4, <2>5
<1>2. Good = SUBSET S
  <2>1. Good \in SUBSET SUBSET S
    OBVIOUS
  <2>2. \A s \in SUBSET S : (\A u \in SUBSET s : u # s => u \in Good) => s \in Good
    BY <1>1
  <2> HIDE DEF Good
  <2> QED
    BY <2>1, <2>2, SubsetInduction
<1> QED
  BY <1>2

\* One more element adds its value.
LEMMA TotalAdds ==
    ASSUME NEW S, IsFiniteSet(S), NEW r, r \notin S, NEW g,
           \A x \in S \cup {r} : g[x] \in Int
    PROVE  Total(g, S \cup {r}) = g[r] + Total(g, S)
<1>1. IsFiniteSet(S \cup {r})
  BY FS_AddElement
<1>2. (S \cup {r}) \ {r} = S
  OBVIOUS
<1>3. Total(g, S \cup {r}) = g[r] + Total(g, (S \cup {r}) \ {r})
  BY <1>1, TotalRemoves
<1> QED
  BY <1>2, <1>3

\* Larger values over more elements give a larger sum.
LEMMA TotalGrows ==
    ASSUME NEW S, IsFiniteSet(S), NEW T \in SUBSET S, NEW g, NEW h,
           \A x \in S : g[x] \in Int /\ h[x] \in Int,
           \A x \in T : g[x] <= h[x],
           \A x \in S \ T : h[x] >= 0
    PROVE  Total(g, T) <= Total(h, S)
<1> DEFINE Good == {s \in SUBSET S : Total(g, s \cap T) <= Total(h, s)}
<1>1. ASSUME NEW s \in SUBSET S, \A u \in SUBSET s : u # s => u \in Good
      PROVE  s \in Good
  <2>1. IsFiniteSet(s) /\ IsFiniteSet(s \cap T)
    BY FS_Subset
  <2>2. CASE s = {}
    <3>1. s \cap T = {}
      BY <2>2
    <3> QED
      BY <2>2, <3>1, TotalOfNone
  <2>3. CASE s # {}
    <3> DEFINE a == AnyOf(s)
    <3>1. a \in s
      BY <2>3, AnyOfIsIn
    <3> HIDE DEF a
    <3> DEFINE v == s \ {a}
    <3>2. v \in Good /\ IsFiniteSet(v) /\ IsFiniteSet(v \cap T)
      BY <1>1, <3>1, FS_Subset
    <3>3. Total(h, s) = h[a] + Total(h, v)
      BY <2>1, <3>1, TotalRemoves
    <3>4. /\ Total(h, v) \in Int /\ Total(g, v \cap T) \in Int
          /\ g[a] \in Int /\ h[a] \in Int /\ Total(g, v \cap T) <= Total(h, v)
      BY <3>1, <3>2, TotalIsInt
    <3>5. CASE a \in T
      <4>1. (s \cap T) \ {a} = v \cap T
        OBVIOUS
      <4>2. a \in s \cap T /\ \A x \in s \cap T : g[x] \in Int
        BY <3>1, <3>5
      <4>3. Total(g, s \cap T) = g[a] + Total(g, (s \cap T) \ {a})
        BY <2>1, <4>2, TotalRemoves
      <4>4. Total(g, s \cap T) = g[a] + Total(g, v \cap T)
        BY <4>1, <4>3
      <4>5. g[a] <= h[a]
        BY <3>5
      <4> HIDE DEF v
      <4> QED
        BY <3>3, <3>4, <4>4, <4>5
    <3>6. CASE a \notin T
      <4>1. s \cap T = v \cap T
        BY <3>6
      <4>2. h[a] >= 0
        BY <3>1, <3>6
      <4> HIDE DEF v
      <4> QED
        BY <3>3, <3>4, <4>1, <4>2
    <3> QED
      BY <3>5, <3>6
  <2> QED
    BY <2>2, <2>3
<1>2. Good = SUBSET S
  <2>1. Good \in SUBSET SUBSET S
    OBVIOUS
  <2> HIDE DEF Good
  <2> QED
    BY <1>1, <2>1, SubsetInduction
<1>3. S \in Good /\ S \cap T = T
  BY <1>2
<1> QED
  BY <1>3

\* What adds nothing may be left out.
LEMMA TotalOfSupport ==
    ASSUME NEW S, IsFiniteSet(S), NEW T \in SUBSET S, NEW g, \A x \in S : g[x] \in Int,
           \A x \in S \ T : g[x] = 0
    PROVE  Total(g, S) = Total(g, T)
<1> DEFINE Good == {s \in SUBSET S : Total(g, s) = Total(g, s \cap T)}
<1>1. ASSUME NEW s \in SUBSET S, \A u \in SUBSET s : u # s => u \in Good
      PROVE  s \in Good
  <2>1. IsFiniteSet(s) /\ IsFiniteSet(s \cap T)
    BY FS_Subset
  <2>2. CASE s = {}
    <3>1. s \cap T = {}
      BY <2>2
    <3> QED
      BY <2>2, <3>1
  <2>3. CASE s # {}
    <3>1. PICK a \in s : TRUE
      BY <2>3
    <3> DEFINE v == s \ {a}
    <3>2. v \in Good /\ IsFiniteSet(v) /\ IsFiniteSet(v \cap T)
      BY <1>1, <3>1, <2>1, FS_Subset
    <3>3. Total(g, s) = g[a] + Total(g, v)
      BY <2>1, <3>1, TotalRemoves
    <3>4. Total(g, v) \in Int /\ Total(g, v) = Total(g, v \cap T)
      BY <3>2, TotalIsInt
    <3>5. CASE a \in T
      <4>1. (s \cap T) \ {a} = v \cap T
        OBVIOUS
      <4>2. a \in s \cap T /\ \A x \in s \cap T : g[x] \in Int
        BY <3>1, <3>5
      <4>3. Total(g, s \cap T) = g[a] + Total(g, (s \cap T) \ {a})
        BY <2>1, <4>2, TotalRemoves
      <4>4. Total(g, s \cap T) = g[a] + Total(g, v \cap T)
        BY <4>1, <4>3
      <4>5. Total(g, s) = Total(g, s \cap T)
        BY <3>3, <3>4, <4>4
      <4> QED
        BY <4>5
    <3>6. CASE a \notin T
      <4>1. s \cap T = v \cap T
        BY <3>6
      <4>2. g[a] = 0
        BY <3>1, <3>6
      <4>3. Total(g, s \cap T) = Total(g, v \cap T)
        BY <4>1
      <4>4. Total(g, s) = Total(g, s \cap T)
        BY <3>3, <3>4, <4>2, <4>3
      <4> QED
        BY <4>4
    <3> QED
      BY <3>5, <3>6
  <2> QED
    BY <2>2, <2>3
<1>2. Good = SUBSET S
  <2>1. Good \in SUBSET SUBSET S
    OBVIOUS
  <2> HIDE DEF Good
  <2> QED
    BY <1>1, <2>1, SubsetInduction
<1>3. S \in Good /\ S \cap T = T
  BY <1>2
<1> QED
  BY <1>3

\* Only the values of the elements matter.
LEMMA TotalOfSame ==
    ASSUME NEW S, IsFiniteSet(S), NEW g, NEW h,
           \A x \in S : g[x] \in Int /\ g[x] = h[x]
    PROVE  Total(g, S) = Total(h, S)
<1>1. Total(g, S) <= Total(h, S) /\ Total(h, S) <= Total(g, S)
  BY TotalGrows
<1>2. Total(g, S) \in Int /\ Total(h, S) \in Int
  BY TotalIsInt
<1> QED
  BY <1>1, <1>2

\* One value changes.
LEMMA TotalChanges ==
    ASSUME NEW S, IsFiniteSet(S), NEW g, NEW h, NEW r \in S,
           \A x \in S : g[x] \in Int /\ h[x] \in Int,
           \A x \in S \ {r} : g[x] = h[x]
    PROVE  Total(h, S) = Total(g, S) + h[r] - g[r]
<1>1. Total(g, S) = g[r] + Total(g, S \ {r}) /\ Total(h, S) = h[r] + Total(h, S \ {r})
  BY TotalRemoves
<1>2. IsFiniteSet(S \ {r})
  BY FS_Subset
<1>3. Total(g, S \ {r}) = Total(h, S \ {r})
  BY <1>2, TotalOfSame
<1>4. Total(g, S \ {r}) \in Int
  BY <1>2, TotalIsInt
<1> QED
  BY <1>1, <1>3, <1>4

-----------------------------------------------------------------------------
(* Cardinalities *)

\* A renaming gives different elements different names.
Renames(p, S) == \A x, y \in S : p[x] = p[y] => x = y
Named(p, S) == {p[x] : x \in S}

\* There are as many names as elements.
LEMMA CountRenamed ==
    ASSUME NEW S, IsFiniteSet(S), NEW p, Renames(p, S)
    PROVE  IsFiniteSet(Named(p, S)) /\ Cardinality(Named(p, S)) = Cardinality(S)
<1> DEFINE f == [x \in S |-> p[x]]
<1>1. f \in Bijection(S, Named(p, S))
  BY DEF Bijection, Injection, Surjection, IsInjective, Renames, Named
<1> QED
  BY <1>1, FS_Bijection DEF ExistsBijection

\* A sum is the same under other names.
LEMMA TotalRenamed ==
    ASSUME NEW S, IsFiniteSet(S), NEW p, Renames(p, S), NEW g, NEW h,
           \A x \in S : g[x] \in Int /\ g[x] = h[p[x]]
    PROVE  Total(g, S) = Total(h, Named(p, S))
<1> DEFINE Good == {s \in SUBSET S : Total(g, s) = Total(h, Named(p, s))}
<1>1. ASSUME NEW s \in SUBSET S, \A u \in SUBSET s : u # s => u \in Good
      PROVE  s \in Good
  <2>1. IsFiniteSet(s) /\ Renames(p, s)
    BY FS_Subset DEF Renames
  <2>2. CASE s = {}
    <3>1. Named(p, s) = {}
      BY <2>2 DEF Named
    <3> QED
      BY <2>2, <3>1, TotalOfNone
  <2>3. CASE s # {}
    <3>1. PICK a \in s : TRUE
      BY <2>3
    <3> DEFINE v == s \ {a}
    <3>2. v \in Good
      BY <1>1
    <3>3. Total(g, s) = g[a] + Total(g, v)
      BY <2>1, TotalRemoves
    <3>4. IsFiniteSet(Named(p, s)) /\ p[a] \in Named(p, s)
      BY <2>1, CountRenamed DEF Named
    <3>5. Named(p, s) \ {p[a]} = Named(p, v)
      BY <2>1 DEF Named, Renames
    <3>6. \A y \in Named(p, s) : h[y] \in Int
      BY DEF Named
    <3>7. Total(h, Named(p, s)) = h[p[a]] + Total(h, Named(p, s) \ {p[a]})
      BY <3>4, <3>6, TotalRemoves
    <3>8. Total(h, Named(p, s)) = g[a] + Total(h, Named(p, v))
      BY <3>5, <3>7
    <3>9. Total(g, s) = Total(h, Named(p, s))
      BY <3>2, <3>3, <3>8
    <3> QED
      BY <3>9
  <2> QED
    BY <2>2, <2>3
<1>2. Good = SUBSET S
  <2>1. Good \in SUBSET SUBSET S
    OBVIOUS
  <2> HIDE DEF Good
  <2> QED
    BY <1>1, <2>1, SubsetInduction
<1>3. S \in Good
  BY <1>2
<1> QED
  BY <1>3

LEMMA CountUpTo == ASSUME NEW n \in Nat PROVE IsFiniteSet(1..n) /\ Cardinality(1..n) = n
<1>1. IsFiniteSet(1..n) /\ Cardinality(1..n) = IF 1 > n THEN 0 ELSE n - 1 + 1
  BY FS_Interval
<1> QED
  BY <1>1

\* The values a function takes on a finite set are finitely many.
LEMMA ImageIsFinite ==
    ASSUME NEW S, IsFiniteSet(S), NEW g
    PROVE  IsFiniteSet({g[x] : x \in S})
<1> DEFINE T == {g[x] : x \in S}
           f == [x \in S |-> g[x]]
<1>1. f \in Surjection(S, T)
  BY DEF Surjection
<1> QED
  BY <1>1, FS_Surjection

\* Two sets with nothing in common count together.
LEMMA CountDisjoint ==
    ASSUME NEW S, NEW T, IsFiniteSet(S), IsFiniteSet(T), S \cap T = {}
    PROVE  IsFiniteSet(S \cup T) /\ Cardinality(S \cup T) = Cardinality(S) + Cardinality(T)
<1>1. /\ IsFiniteSet(S \cup T)
      /\ Cardinality(S \cup T) = Cardinality(S) + Cardinality(T) - Cardinality(S \cap T)
  BY FS_Union
<1>2. Cardinality(S \cap T) = 0
  BY FS_EmptySet
<1>3. Cardinality(S) \in Nat /\ Cardinality(T) \in Nat
  BY FS_CardinalityType
<1> QED
  BY <1>1, <1>2, <1>3

-----------------------------------------------------------------------------
(* Sorted sequences *)

\* The pairs of `before` order the elements of S one behind the other.
Orders(before, S) ==
    /\ \A x \in S : <<x, x>> \notin before
    /\ \A x, y \in S : x # y => <<x, y>> \in before \/ <<y, x>> \in before
    /\ \A x, y, z \in S : <<x, y>> \in before /\ <<y, z>> \in before => <<x, z>> \in before

\* How many elements come before one.
Behind(x, S, before) == {y \in S : <<y, x>> \in before}
Rank(x, S, before) == Cardinality(Behind(x, S, before))

\* An element has a higher rank than what it is behind.
LEMMA RankGrows ==
    ASSUME NEW S, IsFiniteSet(S), NEW before, Orders(before, S),
           NEW x \in S, NEW y \in S, <<x, y>> \in before
    PROVE  Rank(x, S, before) < Rank(y, S, before)
<1>1. Behind(x, S, before) \subseteq Behind(y, S, before)
  BY DEF Behind, Orders
<1>2. x \in Behind(y, S, before) /\ x \notin Behind(x, S, before)
  BY DEF Behind, Orders
<1>3. IsFiniteSet(Behind(y, S, before))
  BY FS_Subset DEF Behind
<1>4. /\ IsFiniteSet(Behind(x, S, before))
      /\ Cardinality(Behind(x, S, before)) <= Cardinality(Behind(y, S, before))
      /\ Cardinality(Behind(x, S, before)) # Cardinality(Behind(y, S, before))
  BY <1>1, <1>2, <1>3, FS_Subset
<1> QED
  BY <1>3, <1>4, FS_CardinalityType DEF Rank

\* The ranks are 0, 1, ... and each is of one element.
LEMMA RanksCount ==
    ASSUME NEW S, IsFiniteSet(S), NEW before, Orders(before, S)
    PROVE  /\ \A x \in S : Rank(x, S, before) \in 0..(Cardinality(S) - 1)
           /\ \A x, y \in S : Rank(x, S, before) = Rank(y, S, before) => x = y
           /\ \A n \in 0..(Cardinality(S) - 1) : \E x \in S : Rank(x, S, before) = n
<1> DEFINE N == Cardinality(S)
           ranks == [x \in S |-> Rank(x, S, before)]
<1>1. N \in Nat
  BY FS_CardinalityType
<1>2. \A x \in S : Rank(x, S, before) \in 0..(N - 1)
  <2> SUFFICES ASSUME NEW x \in S PROVE Rank(x, S, before) \in 0..(N - 1)
    OBVIOUS
  <2>1. x \notin Behind(x, S, before) /\ Behind(x, S, before) \in SUBSET S
    BY DEF Behind, Orders
  <2>2. IsFiniteSet(S \ {x}) /\ Cardinality(S \ {x}) = N - 1
    BY FS_RemoveElement
  <2>3. Behind(x, S, before) \in SUBSET (S \ {x})
    BY <2>1
  <2>4. IsFiniteSet(Behind(x, S, before)) /\ Cardinality(Behind(x, S, before)) <= N - 1
    BY <2>2, <2>3, FS_Subset
  <2>5. Cardinality(Behind(x, S, before)) \in Nat
    BY <2>4, FS_CardinalityType
  <2> QED
    BY <1>1, <2>4, <2>5 DEF Rank
<1>3. \A x, y \in S : Rank(x, S, before) = Rank(y, S, before) => x = y
  <2> SUFFICES ASSUME NEW x \in S, NEW y \in S, Rank(x, S, before) = Rank(y, S, before), x # y
               PROVE  FALSE
    OBVIOUS
  <2>1. Rank(x, S, before) \in Int
    BY <1>1, <1>2
  <2>2. CASE <<x, y>> \in before
    BY <2>1, <2>2, RankGrows
  <2>3. CASE <<y, x>> \in before
    BY <2>1, <2>3, RankGrows
  <2> QED
    BY <2>2, <2>3 DEF Orders
<1>4. ranks \in [S -> 0..(N - 1)]
  BY <1>2
<1>5. ranks \in Injection(S, 0..(N - 1))
  BY <1>3, <1>4 DEF Injection, IsInjective
<1>6. IsFiniteSet(0..(N - 1)) /\ Cardinality(0..(N - 1)) = N
  <2>1. 0 \in Int /\ N - 1 \in Int
    BY <1>1
  <2>2. /\ IsFiniteSet(0..(N - 1))
        /\ Cardinality(0..(N - 1)) = IF 0 > N - 1 THEN 0 ELSE (N - 1) - 0 + 1
    BY <2>1, FS_Interval
  <2> HIDE DEF N
  <2> QED
    BY <1>1, <2>2
<1>7. ranks \in Surjection(S, 0..(N - 1))
  <2> HIDE DEF ranks
  <2> QED
    BY <1>5, <1>6, FS_Injection
<1>8. \A n \in 0..(N - 1) : \E x \in S : ranks[x] = n
  <2> HIDE DEF ranks
  <2> QED
    BY <1>7 DEF Surjection
<1> QED
  BY <1>2, <1>3, <1>8

\* sorted() has every element once, in the order.
LEMMA SortedOrders ==
    ASSUME NEW S, IsFiniteSet(S), NEW before, Orders(before, S)
    PROVE  /\ Cardinality(S) \in Nat
           /\ Sorted(S, before) \in [1..Cardinality(S) -> S]
           /\ \A n \in 1..Cardinality(S) : Rank(Sorted(S, before)[n], S, before) = n - 1
           /\ \A m, n \in 1..Cardinality(S) :
                 m < n => <<Sorted(S, before)[m], Sorted(S, before)[n]>> \in before
           /\ \A x \in S : \E n \in 1..Cardinality(S) : Sorted(S, before)[n] = x
<1> DEFINE N == Cardinality(S)
           sorted == Sorted(S, before)
<1>1. N \in Nat
  BY FS_CardinalityType
<1>2. \A n \in 1..N : sorted[n] \in S /\ Rank(sorted[n], S, before) = n - 1
  <2> SUFFICES ASSUME NEW n \in 1..N PROVE sorted[n] \in S /\ Rank(sorted[n], S, before) = n - 1
    OBVIOUS
  <2>1. n - 1 \in 0..(N - 1)
    BY <1>1
  <2>2. \E x \in S : Rank(x, S, before) = n - 1
    BY <2>1, RanksCount
  <2>3. sorted[n] = CHOOSE x \in S : Rank(x, S, before) = n - 1
    BY DEF Sorted, Rank, Behind
  <2> HIDE DEF sorted
  <2> QED
    BY <2>2, <2>3
<1>3. sorted \in [1..N -> S]
  <2>1. sorted = [n \in 1..N |->
                    CHOOSE x \in S : Cardinality({y \in S : <<y, x>> \in before}) = n - 1]
    BY DEF Sorted
  <2>2. DOMAIN sorted = 1..N /\ sorted = [n \in DOMAIN sorted |-> sorted[n]]
    BY <2>1
  <2> HIDE DEF sorted, N
  <2> QED
    BY <1>2, <2>2
<1>4. ASSUME NEW m \in 1..N, NEW n \in 1..N, m < n
      PROVE  <<sorted[m], sorted[n]>> \in before
  <2> HIDE DEF sorted
  <2>1. sorted[m] \in S /\ sorted[n] \in S /\ Rank(sorted[m], S, before) < Rank(sorted[n], S, before)
    BY <1>1, <1>2, <1>4
  <2>2. Rank(sorted[m], S, before) \in Int /\ Rank(sorted[n], S, before) \in Int
    BY <1>1, <1>2
  <2>3. CASE <<sorted[n], sorted[m]>> \in before
    BY <2>1, <2>2, <2>3, RankGrows
  <2>4. CASE sorted[n] = sorted[m]
    BY <2>1, <2>2, <2>4
  <2> QED
    BY <2>1, <2>3, <2>4 DEF Orders
<1>5. ASSUME NEW x \in S PROVE \E n \in 1..N : sorted[n] = x
  <2>1. Rank(x, S, before) \in 0..(N - 1)
    BY RanksCount
  <2> DEFINE n == Rank(x, S, before) + 1
  <2>2. n \in 1..N
    BY <1>1, <2>1
  <2>3. sorted[n] \in S /\ Rank(sorted[n], S, before) = Rank(x, S, before)
    <3>1. sorted[n] \in S /\ Rank(sorted[n], S, before) = n - 1
      BY <1>2, <2>2
    <3> QED
      BY <2>1, <3>1, <1>1
  <2>4. sorted[n] = x
    BY <2>3, RanksCount
  <2> QED
    BY <2>2, <2>4
<1> QED
  BY <1>1, <1>2, <1>3, <1>4, <1>5

\* f has every element of S, in the order.
Lists(f, k, S, before) ==
    /\ f \in [1..k -> S]
    /\ \A m, n \in 1..k : m < n => <<f[m], f[n]>> \in before
    /\ \A x \in S : \E n \in 1..k : f[n] = x

\* There is one such sequence, the one that sorted() makes.
LEMMA SortedIsTheOne ==
    ASSUME NEW S, IsFiniteSet(S), NEW before, Orders(before, S),
           NEW k \in Nat, NEW f, Lists(f, k, S, before)
    PROVE  f = Sorted(S, before)
<1> /\ f \in [1..k -> S]
    /\ \A m, n \in 1..k : m < n => <<f[m], f[n]>> \in before
    /\ \A x \in S : \E n \in 1..k : f[n] = x
  BY DEF Lists
<1> DEFINE N == Cardinality(S)
<1>1. N \in Nat
  BY FS_CardinalityType
<1>2. \A m, n \in 1..k : f[m] = f[n] => m = n
  <2> SUFFICES ASSUME NEW m \in 1..k, NEW n \in 1..k, f[m] = f[n], m < n PROVE FALSE
    OBVIOUS
  <2> QED
    BY DEF Orders
<1>3. ASSUME NEW n \in 1..k PROVE Rank(f[n], S, before) = n - 1
  <2> DEFINE g == [m \in 1..(n - 1) |-> f[m]]
             B == Behind(f[n], S, before)
  <2>1. ASSUME NEW y \in B PROVE \E m \in 1..(n - 1) : g[m] = y
    <3>1. y \in S /\ <<y, f[n]>> \in before
      BY <2>1 DEF Behind
    <3>2. PICK m \in 1..k : f[m] = y
      BY <3>1
    <3>3. CASE m = n
      BY <3>1, <3>2, <3>3 DEF Orders
    <3>4. CASE n < m
      <4>1. <<f[n], y>> \in before
        BY <3>2, <3>4
      <4>2. <<f[n], f[n]>> \in before
        BY <3>1, <4>1 DEF Orders
      <4> QED
        BY <4>2 DEF Orders
    <3>5. CASE m < n
      BY <3>2, <3>5
    <3> QED
      BY <3>3, <3>4, <3>5
  <2>2. \A m \in 1..(n - 1) : g[m] \in B
    BY DEF Behind
  <2>3. g \in Bijection(1..(n - 1), B)
    <3>1. g \in [1..(n - 1) -> B]
      BY <2>2
    <3>2. \A a, b \in 1..(n - 1) : g[a] = g[b] => a = b
      BY <1>2
    <3> HIDE DEF g, B
    <3> QED
      BY <2>1, <3>1, <3>2 DEF Bijection, Injection, Surjection, IsInjective
  <2>4. IsFiniteSet(1..(n - 1)) /\ Cardinality(1..(n - 1)) = n - 1
    <3>1. /\ IsFiniteSet(1..(n - 1))
          /\ Cardinality(1..(n - 1)) = IF 1 > n - 1 THEN 0 ELSE (n - 1) - 1 + 1
      BY FS_Interval
    <3> QED
      BY <3>1
  <2>5. ExistsBijection(1..(n - 1), B)
    <3> HIDE DEF g, B
    <3> QED
      BY <2>3 DEF ExistsBijection
  <2>6. Cardinality(B) = n - 1
    <3> HIDE DEF B
    <3> QED
      BY <2>4, <2>5, FS_Bijection
  <2> QED
    BY <2>6 DEF Rank
<1>4. N = k
  <2>1. f \in Bijection(1..k, S)
    BY <1>2 DEF Bijection, Injection, Surjection, IsInjective
  <2>2. ExistsBijection(1..k, S)
    BY <2>1 DEF ExistsBijection
  <2>3. IsFiniteSet(1..k) /\ Cardinality(1..k) = k
    <3>1. IsFiniteSet(1..k) /\ Cardinality(1..k) = IF 1 > k THEN 0 ELSE k - 1 + 1
      BY FS_Interval
    <3> QED
      BY <3>1
  <2> QED
    BY <2>2, <2>3, FS_Bijection
<1> DEFINE sorted == Sorted(S, before)
<1>5. /\ sorted \in [1..N -> S]
      /\ \A n \in 1..N : Rank(sorted[n], S, before) = n - 1
  BY SortedOrders
<1>6. \A n \in 1..k : f[n] = sorted[n]
  <2> SUFFICES ASSUME NEW n \in 1..k PROVE f[n] = sorted[n]
    OBVIOUS
  <2>1. Rank(f[n], S, before) = n - 1
    BY <1>3
  <2>2. Rank(sorted[n], S, before) = n - 1 /\ sorted[n] \in S
    BY <1>4, <1>5
  <2> HIDE DEF sorted
  <2> QED
    BY <2>1, <2>2, RanksCount
<1>7. sorted \in [1..k -> S]
  BY <1>4, <1>5
<1>8. f = sorted
  <2> HIDE DEF sorted, N
  <2> QED
    BY <1>6, <1>7
<1> QED
  BY <1>8

\* Integers are ordered by <.
LEMMA IntegersAreOrdered ==
    ASSUME NEW S \in SUBSET Int
    PROVE  Orders({pair \in S \X S : pair[1] < pair[2]}, S)
<1> DEFINE before == {pair \in S \X S : pair[1] < pair[2]}
<1>1. \A x, y \in S : <<x, y>> \in before <=> x < y
  OBVIOUS
<1> HIDE DEF before
<1> QED
  BY <1>1 DEF Orders

\* The increasing sequence of a finite set of integers.
LEMMA IncreasingOrders ==
    ASSUME NEW S \in SUBSET Int, IsFiniteSet(S)
    PROVE  /\ Cardinality(S) \in Nat
           /\ Increasing(S) \in [1..Cardinality(S) -> S]
           /\ \A m, n \in 1..Cardinality(S) : m < n => Increasing(S)[m] < Increasing(S)[n]
           /\ \A x \in S : \E n \in 1..Cardinality(S) : Increasing(S)[n] = x
<1> DEFINE before == {pair \in S \X S : pair[1] < pair[2]}
<1>1. Orders(before, S)
  BY IntegersAreOrdered
<1>2. \A x, y \in S : <<x, y>> \in before <=> x < y
  OBVIOUS
<1> DEFINE N == Cardinality(S)
           s == Sorted(S, before)
<1>3. /\ N \in Nat /\ s \in [1..N -> S]
      /\ \A m, n \in 1..N : m < n => <<s[m], s[n]>> \in before
      /\ \A x \in S : \E n \in 1..N : s[n] = x
  <2> HIDE DEF before
  <2> QED
    BY <1>1, SortedOrders
<1>4. \A m, n \in 1..N : m < n => s[m] < s[n]
  <2> HIDE DEF before, s, N
  <2> QED
    BY <1>2, <1>3
<1>5. Increasing(S) = s
  BY DEF Increasing
<1> HIDE DEF s
<1> QED
  BY <1>3, <1>4, <1>5

LEMMA IncreasingIsTheOne ==
    ASSUME NEW S \in SUBSET Int, IsFiniteSet(S), NEW k \in Nat, NEW f \in [1..k -> S],
           \A m, n \in 1..k : m < n => f[m] < f[n],
           \A x \in S : \E n \in 1..k : f[n] = x
    PROVE  f = Increasing(S)
<1> DEFINE before == {pair \in S \X S : pair[1] < pair[2]}
<1>1. Orders(before, S)
  BY IntegersAreOrdered
<1>2. \A x, y \in S : <<x, y>> \in before <=> x < y
  OBVIOUS
<1>3. \A m, n \in 1..k : m < n => <<f[m], f[n]>> \in before
  <2> HIDE DEF before
  <2> QED
    BY <1>2
<1>4. Lists(f, k, S, before)
  <2> HIDE DEF before
  <2> QED
    BY <1>3 DEF Lists
<1>5. f = Sorted(S, before)
  <2> HIDE DEF before
  <2> QED
    BY <1>1, <1>4, SortedIsTheOne
<1> QED
  BY <1>5 DEF Increasing

-----------------------------------------------------------------------------
(* Extremes *)

\* A finite set of integers has a largest and a smallest.
LEMMA Extremes ==
    ASSUME NEW S \in SUBSET Int, IsFiniteSet(S), S # {}
    PROVE  /\ Max(S) \in S /\ \A x \in S : x <= Max(S)
           /\ Min(S) \in S /\ \A x \in S : Min(S) <= x
<1> DEFINE n == Cardinality(S)
           s == Increasing(S)
<1>1. /\ n \in Nat /\ s \in [1..n -> S]
      /\ \A i, j \in 1..n : i < j => s[i] < s[j]
      /\ \A x \in S : \E i \in 1..n : s[i] = x
  BY IncreasingOrders
<1> HIDE DEF s, n
<1>2. 1 \in 1..n /\ n \in 1..n /\ s[1] \in Int /\ s[n] \in Int
  <2>1. PICK x \in S : TRUE
    OBVIOUS
  <2>2. PICK i \in 1..n : s[i] = x
    BY <1>1
  <2>3. 1 \in 1..n /\ n \in 1..n
    BY <1>1, <2>2
  <2>4. s[1] \in S /\ s[n] \in S
    BY <1>1, <2>3
  <2> QED
    BY <2>3, <2>4
<1>3. s[n] \in S /\ \A x \in S : s[n] >= x
  <2> SUFFICES ASSUME NEW x \in S PROVE s[n] \in S /\ s[n] >= x
    BY <1>1, <1>2
  <2>1. PICK i \in 1..n : s[i] = x
    BY <1>1
  <2>2. i = n \/ i < n
    BY <1>1
  <2>3. s[n] \in S
    BY <1>1, <1>2
  <2> QED
    BY <1>1, <1>2, <2>1, <2>2, <2>3
<1>4. s[1] \in S /\ \A x \in S : s[1] <= x
  <2> SUFFICES ASSUME NEW x \in S PROVE s[1] \in S /\ s[1] <= x
    BY <1>1, <1>2
  <2>1. PICK i \in 1..n : s[i] = x
    BY <1>1
  <2>2. i = 1 \/ 1 < i
    BY <1>1
  <2>3. s[1] \in S
    BY <1>1, <1>2
  <2> QED
    BY <1>1, <1>2, <2>1, <2>2, <2>3
<1>5. Max(S) \in S /\ \A x \in S : Max(S) >= x
  <2>1. \E m \in S : \A x \in S : m >= x
    BY <1>3
  <2> QED
    BY <2>1 DEF Max
<1>6. Min(S) \in S /\ \A x \in S : Min(S) <= x
  <2>1. \E m \in S : \A x \in S : m <= x
    BY <1>4
  <2> QED
    BY <2>1 DEF Min
<1> QED
  BY <1>5, <1>6

-----------------------------------------------------------------------------
(* Filters *)

\* `at` names the places of s, of length n, that Keep(s, T) is made of.
KeptAt(s, n, T, k, at) ==
    /\ DOMAIN Keep(s, T) = 1..k
    /\ \A i \in 1..k : Keep(s, T)[i] = s[at[i]] /\ s[at[i]] \in T
    /\ \A i, j \in 1..k : i < j => at[i] < at[j]
    /\ \A i \in 1..n : s[i] \in T => \E j \in 1..k : at[j] = i

\* What is kept of a sequence, where it was, in the order it had.
LEMMA KeepsInOrder ==
    ASSUME NEW s, NEW n \in Nat, DOMAIN s = 1..n, NEW T
    PROVE  \E k \in Nat : \E at \in [1..k -> 1..n] : KeptAt(s, n, T, k, at)
<1> DEFINE K == {i \in 1..n : s[i] \in T}
           at == Increasing(K)
           k == Cardinality(K)
<1>1. K \in SUBSET Int /\ K \in SUBSET (1..n)
  OBVIOUS
<1>2. IsFiniteSet(K)
  BY <1>1, FS_Interval, FS_Subset
<1>3. /\ k \in Nat /\ at \in [1..k -> K]
      /\ \A i, j \in 1..k : i < j => at[i] < at[j]
      /\ \A x \in K : \E j \in 1..k : at[j] = x
  <2> HIDE DEF K
  <2> QED
    BY <1>1, <1>2, IncreasingOrders
<1>4. Keep(s, T) = [i \in 1..k |-> s[at[i]]]
  <2>1. DOMAIN at = 1..k
    BY <1>3
  <2>2. {i \in DOMAIN s : s[i] \in T} = K
    OBVIOUS
  <2>3. Keep(s, T) = [i \in DOMAIN at |-> s[at[i]]]
    BY <2>2 DEF Keep
  <2> HIDE DEF at, k
  <2> QED
    BY <2>1, <2>3
<1>5. at \in [1..k -> 1..n]
  BY <1>1, <1>3
<1>6. \A i \in 1..k : s[at[i]] \in T
  <2>1. \A i \in 1..k : at[i] \in K
    BY <1>3
  <2> HIDE DEF at, k
  <2> QED
    BY <2>1
<1>7. \A i \in 1..n : s[i] \in T => \E j \in 1..k : at[j] = i
  <2>1. \A i \in 1..n : s[i] \in T => i \in K
    OBVIOUS
  <2> HIDE DEF at, k, K
  <2> QED
    BY <1>3, <2>1
<1> HIDE DEF at, k
<1> QED
  BY <1>3, <1>4, <1>5, <1>6, <1>7 DEF KeptAt

\* Filtering an increasing sequence keeps the increasing sequence of what is kept.
LEMMA KeepOfIncreasing ==
    ASSUME NEW S \in SUBSET Int, IsFiniteSet(S), NEW T
    PROVE  Keep(Increasing(S), T) = Increasing(S \cap T)
<1> DEFINE s == Increasing(S)
           n == Cardinality(S)
<1>1. /\ n \in Nat /\ s \in [1..n -> S]
      /\ \A i, j \in 1..n : i < j => s[i] < s[j]
      /\ \A x \in S : \E i \in 1..n : s[i] = x
  BY IncreasingOrders
<1> HIDE DEF s, n
<1>2. PICK k \in Nat : \E at \in [1..k -> 1..n] : KeptAt(s, n, T, k, at)
  <2>1. DOMAIN s = 1..n
    BY <1>1
  <2> QED
    BY <1>1, <2>1, KeepsInOrder
<1>3. PICK at \in [1..k -> 1..n] :
              /\ DOMAIN Keep(s, T) = 1..k
              /\ \A i \in 1..k : Keep(s, T)[i] = s[at[i]] /\ s[at[i]] \in T
              /\ \A i, j \in 1..k : i < j => at[i] < at[j]
              /\ \A i \in 1..n : s[i] \in T => \E j \in 1..k : at[j] = i
  BY <1>2 DEF KeptAt
<1> DEFINE f == Keep(s, T)
<1>4. \A i \in 1..k : f[i] \in S \cap T /\ at[i] \in 1..n
  BY <1>1, <1>3
<1>5. f = [i \in 1..k |-> f[i]]
  <2>1. Keep(s, T) = [i \in DOMAIN Keep(s, T) |-> Keep(s, T)[i]]
    BY DEF Keep
  <2> QED
    BY <1>3, <2>1
<1>6. f \in [1..k -> S \cap T]
  <2> HIDE DEF f
  <2> QED
    BY <1>4, <1>5
<1>7. \A i, j \in 1..k : i < j => f[i] < f[j]
  <2> SUFFICES ASSUME NEW i \in 1..k, NEW j \in 1..k, i < j PROVE f[i] < f[j]
    OBVIOUS
  <2>1. at[i] < at[j] /\ at[i] \in 1..n /\ at[j] \in 1..n
    BY <1>3, <1>4
  <2>2. s[at[i]] < s[at[j]]
    BY <1>1, <2>1
  <2> QED
    BY <1>3, <2>2
<1>8. \A x \in S \cap T : \E i \in 1..k : f[i] = x
  <2> SUFFICES ASSUME NEW x \in S \cap T PROVE \E i \in 1..k : f[i] = x
    OBVIOUS
  <2>1. PICK i \in 1..n : s[i] = x
    BY <1>1
  <2>2. PICK j \in 1..k : at[j] = i
    BY <1>3, <2>1
  <2> QED
    BY <1>3, <2>1, <2>2
<1>9. IsFiniteSet(S \cap T) /\ S \cap T \in SUBSET Int
  BY FS_Subset
<1>10. f = Increasing(S \cap T)
  <2> HIDE DEF f
  <2> QED
    BY <1>6, <1>7, <1>8, <1>9, IncreasingIsTheOne
<1> QED
  BY <1>10 DEF s

-----------------------------------------------------------------------------
(* Products *)

\* Induction over the natural numbers.
LEMMA CountingUp ==
    ASSUME NEW Good \in SUBSET Nat, 0 \in Good, \A n \in Good : n + 1 \in Good
    PROVE  Good = Nat
<1> SUFFICES ASSUME NEW x \in Nat \ Good PROVE FALSE
  OBVIOUS
<1> DEFINE bad == (0..x) \ Good
           m == Min(bad)
<1>1. 0..x = {0} \cup 1..x /\ IsFiniteSet(1..x)
  BY CountUpTo
<1>2. bad \in SUBSET Int /\ bad # {} /\ IsFiniteSet(bad)
  <2>1. bad \subseteq 1..x
    BY <1>1
  <2>2. x \in bad
    OBVIOUS
  <2> QED
    BY <1>1, <2>1, <2>2, FS_Subset
<1> HIDE DEF bad
<1>3. m \in bad /\ \A y \in bad : m <= y
  BY <1>2, Extremes
<1>4. m \in Nat /\ m # 0 /\ m - 1 \in 0..x /\ m - 1 \notin bad
  BY <1>2, <1>3 DEF bad
<1>5. m - 1 \in Good
  BY <1>4 DEF bad
<1> QED
  BY <1>3, <1>4, <1>5 DEF bad

\* The products of the factors h[1], h[2], ... up to each number.
Multiplies(f, h, S) == f = [n \in S |-> IF n = 0 THEN 1 ELSE h[n] * f[n - 1]]

\* Such products agree as far as they go.
LEMMA ProductsAgree ==
    ASSUME NEW h, NEW m \in Nat, NEW n \in Nat, m <= n, NEW f, NEW g,
           Multiplies(f, h, 0..m), Multiplies(g, h, 0..n)
    PROVE  \A k \in 0..m : f[k] = g[k]
<1> DEFINE Good == {k \in Nat : k > m \/ f[k] = g[k]}
<1>1. 0 \in Good
  BY DEF Multiplies
<1>2. ASSUME NEW k \in Good PROVE k + 1 \in Good
  <2>1. CASE k + 1 > m
    BY <2>1
  <2>2. CASE k + 1 <= m
    <3>1. k + 1 \in 0..m /\ k + 1 \in 0..n /\ k + 1 # 0 /\ (k + 1) - 1 = k /\ f[k] = g[k]
      BY <2>2
    <3>2. f[k + 1] = h[k + 1] * f[k] /\ g[k + 1] = h[k + 1] * g[k]
      BY <3>1 DEF Multiplies
    <3> QED
      BY <3>1, <3>2
  <2> QED
    BY <2>1, <2>2
<1>3. Good = Nat
  <2> HIDE DEF Good
  <2>1. Good \in SUBSET Nat
    BY DEF Good
  <2> QED
    BY <1>1, <1>2, <2>1, CountingUp
<1> QED
  BY <1>3

\* There are products as far as one likes.
LEMMA ProductsReach ==
    ASSUME NEW h, NEW n \in Nat
    PROVE  \E f : Multiplies(f, h, 0..n)
<1> DEFINE Good == {k \in Nat : \E f : Multiplies(f, h, 0..k)}
<1>1. 0 \in Good
  <2>1. Multiplies([k \in 0..0 |-> 1], h, 0..0)
    BY DEF Multiplies
  <2> QED
    BY <2>1
<1>2. ASSUME NEW k \in Good PROVE k + 1 \in Good
  <2>1. PICK f : Multiplies(f, h, 0..k)
    OBVIOUS
  <2> DEFINE g == [i \in 0..(k + 1) |-> IF i = k + 1 THEN h[k + 1] * f[k] ELSE f[i]]
  <2>2. \A i \in 0..k : g[i] = f[i]
    OBVIOUS
  <2>3. g[k + 1] = h[k + 1] * g[k]
    BY <2>2
  <2>4. \A i \in 0..k : f[i] = IF i = 0 THEN 1 ELSE h[i] * f[i - 1]
    BY <2>1 DEF Multiplies
  <2>5. g = [i \in 0..(k + 1) |-> g[i]]
    OBVIOUS
  <2> HIDE DEF g
  <2>6. \A i \in 0..(k + 1) : g[i] = IF i = 0 THEN 1 ELSE h[i] * g[i - 1]
    <3> TAKE i \in 0..(k + 1)
    <3>1. CASE i = k + 1
      BY <2>3, <3>1
    <3>2. CASE i \in 0..k
      <4>1. i # 0 => i - 1 \in 0..k
        BY <3>2
      <4> QED
        BY <2>2, <2>4, <3>2, <4>1
    <3> QED
      BY <3>1, <3>2
  <2>7. Multiplies(g, h, 0..(k + 1))
    BY <2>5, <2>6 DEF Multiplies
  <2> QED
    BY <2>7
<1>3. Good = Nat
  <2> HIDE DEF Good
  <2>1. Good \in SUBSET Nat
    BY DEF Good
  <2> QED
    BY <1>1, <1>2, <2>1, CountingUp
<1> QED
  BY <1>3

\* So there are all of them.
LEMMA ProductsExist ==
    ASSUME NEW h
    PROVE  \E f : Multiplies(f, h, Nat)
<1> DEFINE upTo(n) == CHOOSE f : Multiplies(f, h, 0..n)
           all == [n \in Nat |-> upTo(n)[n]]
<1>1. \A n \in Nat : Multiplies(upTo(n), h, 0..n)
  BY ProductsReach
<1>2. \A n \in Nat : all[n] = upTo(n)[n]
  OBVIOUS
<1>3. all = [n \in Nat |-> all[n]]
  OBVIOUS
<1> HIDE DEF all, upTo
<1>4. \A n \in Nat : all[n] = IF n = 0 THEN 1 ELSE h[n] * all[n - 1]
  <2> TAKE n \in Nat
  <2>1. CASE n = 0
    BY <1>1, <1>2, <2>1 DEF Multiplies
  <2>2. CASE n # 0
    <3>1. n - 1 \in Nat /\ n - 1 <= n /\ n - 1 \in 0..(n - 1) /\ n \in 0..n
      BY <2>2
    <3>2. upTo(n)[n] = h[n] * upTo(n)[n - 1]
      BY <1>1, <2>2, <3>1 DEF Multiplies
    <3>3. upTo(n - 1)[n - 1] = upTo(n)[n - 1]
      BY <1>1, <3>1, ProductsAgree
    <3> QED
      BY <1>2, <2>2, <3>1, <3>2, <3>3
  <2> QED
    BY <2>1, <2>2
<1>5. Multiplies(all, h, Nat)
  BY <1>3, <1>4 DEF Multiplies
<1> QED
  BY <1>5

\* n! is a positive number.
LEMMA FactorialUnfolds ==
    /\ factorial[0] = 1
    /\ \A n \in Nat : n # 0 => factorial[n] = n * factorial[n - 1]
<1> DEFINE h == [n \in Nat |-> n]
           F == CHOOSE f : f = [n \in Nat |-> IF n = 0 THEN 1 ELSE n * f[n - 1]]
<1>1. factorial = F
  BY DEF factorial
<1>2. \A f : Multiplies(f, h, Nat) <=> f = [n \in Nat |-> IF n = 0 THEN 1 ELSE n * f[n - 1]]
  BY DEF Multiplies
<1>3. F = [n \in Nat |-> IF n = 0 THEN 1 ELSE n * F[n - 1]]
  <2>1. \E f : f = [n \in Nat |-> IF n = 0 THEN 1 ELSE n * f[n - 1]]
    BY <1>2, ProductsExist
  <2> QED
    BY <2>1
<1> HIDE DEF F
<1>4. \A n \in Nat : F[n] = IF n = 0 THEN 1 ELSE n * F[n - 1]
  BY <1>3
<1> QED
  BY <1>1, <1>4

LEMMA FactorialIsPositive == \A n \in Nat : factorial[n] \in Nat \ {0}
<1> DEFINE Good == {n \in Nat : factorial[n] \in Nat \ {0}}
<1>1. 0 \in Good
  BY FactorialUnfolds
<1>2. ASSUME NEW n \in Good PROVE n + 1 \in Good
  <2>1. n \in Nat /\ factorial[n] \in Nat \ {0} /\ n + 1 # 0 /\ (n + 1) - 1 = n
    OBVIOUS
  <2>2. factorial[n + 1] = (n + 1) * factorial[n]
    BY <2>1, FactorialUnfolds
  <2>3. (n + 1) * factorial[n] \in Nat \ {0}
    BY <2>1
  <2> QED
    BY <2>2, <2>3
<1>3. Good = Nat
  <2> HIDE DEF Good
  <2>1. Good \in SUBSET Nat
    BY DEF Good
  <2> QED
    BY <1>1, <1>2, <2>1, CountingUp
<1> QED
  BY <1>3

\* There is one way to choose nothing, and never less than none.
LEMMA ChoosingIsNatural ==
    ASSUME NEW n \in Nat, NEW k \in 0..n
    PROVE  choose(n, k) \in Nat /\ choose(n, 0) = 1
<1> DEFINE a == factorial[n]
           b == factorial[k]
           c == factorial[n - k]
<1>1. a \in Nat \ {0} /\ b \in Nat \ {0} /\ c \in Nat \ {0} /\ factorial[0] = 1
  BY FactorialIsPositive, FactorialUnfolds
<1>2. choose(n, k) = a \div (b * c) /\ choose(n, 0) = a \div (factorial[0] * factorial[n])
  BY DEF choose
<1> HIDE DEF a, b, c
<1>3. b * c \in Nat \ {0}
  BY <1>1
<1>4. \A d \in Nat \ {0} : a \div d \in Nat
  BY <1>1
<1>5. a \div (1 * a) = 1
  BY <1>1
<1> QED
  BY <1>1, <1>2, <1>3, <1>4, <1>5 DEF a
=============================================================================
