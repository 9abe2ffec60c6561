------------------------- MODULE SpendCounterProofs --------------------------
(***************************************************************************)
(* The spend counter of SpendCounter, for any number of requests, estimates *)
(* and failed calls: it never shows less than was spent, converges on real  *)
(* spend, and what was admitted stays within the limit.                     *)
(*                                                                          *)
(* The three are about sums over a set of requests (DataLemmas).            *)
(***************************************************************************)
EXTENDS SpendCounter, DataLemmas

-----------------------------------------------------------------------------
(* What each request adds to the counter *)

Doors == {"new", "uncounted", "look", "admitted", "refused", "broken", "accepted",
          "release", "released"}
Works == {"none", "queued", "running", "ended", "leaking", "skipped", "unsettled", "dead"}

Types ==
    /\ counter \in [Windows -> Int] /\ today \in Windows
    /\ door \in [Requests -> Doors] /\ work \in [Requests -> Works]
    /\ lane \in [Requests -> Lanes]
    /\ principal \in [Requests -> [window : Windows, reserved : Nat]]
    /\ total \in [Requests -> Int] /\ spent \in [Requests -> Nat]
    /\ faults \in Nat
    /\ IsFiniteSet({r \in Requests : door[r] # "new"})

\* Only an accepted request has work, and only work spends.
Flow ==
    \A r \in Requests :
        /\ door[r] \in {"new", "uncounted"} => principal[r].window = 0 /\ principal[r].reserved = 0
        /\ door[r] = "accepted" <=> work[r] # "none"
        /\ work[r] = "none" => spent[r] = 0

\* What r adds to the counter of its window, at least.
Held(r) ==
    IF door[r] \in {"new", "uncounted", "refused", "released"} \/ work[r] = "leaking" THEN 0
    ELSE IF work[r] = "ended" THEN spent[r] ELSE principal[r].reserved
HeldBy == [r \in Requests |-> Held(r)]

\* No call of the counter was lost sight of.
Exact == \A r \in Requests : door[r] # "broken" /\ work[r] # "leaking"

CountInv ==
    \A w \in Windows :
        /\ counter[w] >= Total(HeldBy, CountedIn(w))
        /\ Exact => counter[w] = Total(HeldBy, CountedIn(w))

\* What may still be admitted in w, or was.
Live(w) == {r \in CountedIn(w) : door[r] \in {"look", "admitted", "accepted"}
                                 /\ work[r] # "leaking"}
OwedBy == [r \in Requests |-> Owed(r)]
Modest == \A r \in Requests : spent[r] <= principal[r].reserved

\* Of any requests of a window, the last one to reserve has seen them all.
LastSawAll ==
    \A w \in Windows : \A T \in SUBSET Live(w) :
        T # {} => \E r \in T : total[r] >= Total(OwedBy, T)

LimitInv ==
    /\ \A r \in Requests : door[r] \in {"admitted", "accepted"} => total[r] <= Limit
    /\ Modest => LastSawAll

SpendInv == Types /\ Flow /\ CountInv /\ LimitInv

\* What is summed up are naturals, over finitely many requests.
LEMMA HeldTypes ==
    ASSUME Types
    PROVE  /\ HeldBy \in [Requests -> Nat] /\ OwedBy \in [Requests -> Nat]
           /\ \A w \in Windows : IsFiniteSet(CountedIn(w)) /\ CountedIn(w) \subseteq Requests
<1>1. HeldBy \in [Requests -> Nat] /\ OwedBy \in [Requests -> Nat]
  BY DEF Types, HeldBy, Held, OwedBy, Owed
<1>2. ASSUME NEW w \in Windows PROVE IsFiniteSet(CountedIn(w)) /\ CountedIn(w) \subseteq Requests
  <2>1. CountedIn(w) \in SUBSET {r \in Requests : door[r] # "new"}
    BY DEF CountedIn
  <2> QED
    BY <2>1, FS_Subset DEF Types
<1> QED
  BY <1>1, <1>2

\* The same of the next state.
LEMMA HeldTypesNext ==
    ASSUME Types'
    PROVE  /\ HeldBy' \in [Requests -> Nat] /\ OwedBy' \in [Requests -> Nat]
           /\ \A w \in Windows : IsFiniteSet(CountedIn(w)') /\ CountedIn(w)' \subseteq Requests
<1>1. HeldBy' \in [Requests -> Nat] /\ OwedBy' \in [Requests -> Nat]
  BY DEF Types, HeldBy, Held, OwedBy, Owed
<1>2. ASSUME NEW w \in Windows PROVE IsFiniteSet(CountedIn(w)') /\ CountedIn(w)' \subseteq Requests
  <2>1. CountedIn(w)' \in SUBSET {r \in Requests : door'[r] # "new"}
    BY DEF CountedIn
  <2> QED
    BY <2>1, FS_Subset DEF Types
<1> QED
  BY <1>1, <1>2

\* What WithinLimit adds up, as the sum of a function.
LEMMA OwedIsTotal ==
    ASSUME NEW S \in SUBSET Requests
    PROVE  MapThenSumSet(Owed, S) = Total(OwedBy, S)
<1> DEFINE Sums(it) ==
             it = [s \in SUBSET S |-> IF s = {} THEN 0 ELSE Owed(AnyOf(s)) + it[s \ {AnyOf(s)}]]
<1>1. MapThenSumSet(Owed, S) = (CHOOSE it : Sums(it))[S]
  BY DEF MapThenSumSet, MapThenFoldSet, AnyOf
<1>2. \A s \in SUBSET S : s # {} => Owed(AnyOf(s)) = OwedBy[AnyOf(s)]
  BY AnyOfIsIn DEF OwedBy
<1>3. \A it : Sums(it) <=> SumsUp(it, OwedBy, S)
  <2> SUFFICES ASSUME NEW it PROVE Sums(it) <=> SumsUp(it, OwedBy, S)
    OBVIOUS
  <2>1. [s \in SUBSET S |-> IF s = {} THEN 0 ELSE Owed(AnyOf(s)) + it[s \ {AnyOf(s)}]]
        = [s \in SUBSET S |-> IF s = {} THEN 0 ELSE OwedBy[AnyOf(s)] + it[s \ {AnyOf(s)}]]
    BY <1>2
  <2> QED
    BY <2>1 DEF SumsUp
<1>4. (CHOOSE it : Sums(it)) = (CHOOSE it : SumsUp(it, OwedBy, S))
  <2> HIDE DEF Sums
  <2> QED
    BY <1>3, Zenon
<1> QED
  BY <1>1, <1>4, TotalIsFolded

-----------------------------------------------------------------------------
(* A step of one request *)

\* Nothing of the other requests changes, and r stays in its window.
OnlyOne(r) ==
    /\ \A q \in Requests \ {r} :
          /\ door'[q] = door[q] /\ work'[q] = work[q] /\ principal'[q] = principal[q]
          /\ total'[q] = total[q] /\ spent'[q] = spent[q]
    /\ door'[r] # "new"
    /\ door[r] # "new" => principal'[r].window = principal[r].window

\* The counter follows what r adds to it.
Follows(r) ==
    /\ \A w \in Windows :
          counter'[w] >= counter[w] + (IF w = principal'[r].window THEN Held(r)' - Held(r) ELSE 0)
    /\ door'[r] # "broken" /\ work'[r] # "leaking" =>
          \A w \in Windows :
             counter'[w] = counter[w] + (IF w = principal'[r].window THEN Held(r)' - Held(r) ELSE 0)
    /\ door[r] = "broken" \/ work[r] = "leaking" => door'[r] = "broken" \/ work'[r] = "leaking"

\* If the counter follows what one request adds, it still agrees with the sum.
LEMMA CountFollows ==
    ASSUME Types, Types', CountInv, NEW r \in Requests, OnlyOne(r), Follows(r)
    PROVE  CountInv'
<1> SUFFICES ASSUME NEW w \in Windows
             PROVE  /\ counter'[w] >= Total(HeldBy', CountedIn(w)')
                    /\ Exact' => counter'[w] = Total(HeldBy', CountedIn(w)')
  BY DEF CountInv
<1> DEFINE g == HeldBy
           h == HeldBy'
           S == CountedIn(w)
           D == IF w = principal'[r].window THEN Held(r)' - Held(r) ELSE 0
<1>1. /\ g \in [Requests -> Nat] /\ h \in [Requests -> Nat] /\ IsFiniteSet(S) /\ S \subseteq Requests
      /\ g[r] = Held(r) /\ h[r] = Held(r)'
  <2>1. /\ g \in [Requests -> Nat] /\ h \in [Requests -> Nat]
        /\ IsFiniteSet(S) /\ S \subseteq Requests
    BY HeldTypes, HeldTypesNext
  <2>2. g[r] = Held(r) /\ h[r] = Held(r)'
    BY DEF HeldBy
  <2> QED
    BY <2>1, <2>2
<1>2. \A q \in Requests \ {r} : g[q] = h[q]
  BY DEF OnlyOne, HeldBy, Held
<1>3. /\ w = principal'[r].window => CountedIn(w)' = S \cup {r}
      /\ w # principal'[r].window => CountedIn(w)' = S /\ r \notin S
      /\ r \notin S /\ w = principal'[r].window => g[r] = 0
  BY DEF OnlyOne, CountedIn, HeldBy, Held
<1>4. Total(h, CountedIn(w)') = Total(g, S) + D
  <2> HIDE DEF g, h, S
  <2>1. CASE w = principal'[r].window /\ r \in S
    <3>1. CountedIn(w)' = S
      BY <1>3, <2>1
    <3>2. Total(h, S) = Total(g, S) + h[r] - g[r]
      BY <1>1, <1>2, <2>1, TotalChanges
    <3>3. Total(g, S) \in Int
      BY <1>1, TotalIsInt
    <3> QED
      BY <1>1, <2>1, <3>1, <3>2, <3>3
  <2>2. CASE w = principal'[r].window /\ r \notin S
    <3>1. Total(h, S \cup {r}) = h[r] + Total(h, S)
      BY <1>1, <2>2, TotalAdds
    <3>2. Total(h, S) = Total(g, S)
      BY <1>1, <1>2, <2>2, TotalOfSame
    <3>3. Total(g, S) \in Int
      BY <1>1, TotalIsInt
    <3>4. CountedIn(w)' = S \cup {r} /\ g[r] = 0
      BY <1>3, <2>2
    <3> QED
      BY <1>1, <2>2, <3>1, <3>2, <3>3, <3>4
  <2>3. CASE w # principal'[r].window
    <3>1. Total(h, S) = Total(g, S)
      BY <1>1, <1>2, <1>3, <2>3, TotalOfSame
    <3>2. Total(g, S) \in Int
      BY <1>1, TotalIsInt
    <3> QED
      BY <1>3, <2>3, <3>1, <3>2
  <2> QED
    BY <2>1, <2>2, <2>3
<1>5. /\ counter[w] >= Total(g, S) /\ (Exact => counter[w] = Total(g, S))
      /\ Total(g, S) \in Int /\ counter[w] \in Int /\ counter'[w] \in Int /\ D \in Int
  <2>1. Total(g, S) \in Int
    <3> HIDE DEF g, S
    <3> QED
      BY <1>1, TotalIsInt
  <2> QED
    BY <1>1, <2>1 DEF CountInv, Types
<1>6. counter'[w] >= counter[w] + D /\ (Exact' => Exact /\ counter'[w] = counter[w] + D)
  BY DEF Follows, Exact, OnlyOne
<1> HIDE DEF g, h, S, D
<1>7. counter'[w] >= Total(g, S) + D /\ (Exact' => counter'[w] = Total(g, S) + D)
  BY <1>5, <1>6
<1> QED
  BY <1>4, <1>7 DEF h

\* Nobody becomes live, and nobody owes more.
LEMMA LimitFollows ==
    ASSUME Types, Types', LimitInv, NEW r \in Requests, OnlyOne(r),
           spent'[r] <= principal'[r].reserved => spent[r] <= principal[r].reserved,
           door'[r] \in {"admitted", "accepted"} => total'[r] <= Limit,
           \A w \in Windows : r \in Live(w)' =>
              /\ r \in Live(w) /\ total'[r] = total[r]
              /\ spent'[r] <= principal'[r].reserved => Owed(r)' <= Owed(r)
    PROVE  LimitInv'
<1>1. \A q \in Requests : door'[q] \in {"admitted", "accepted"} => total'[q] <= Limit
  BY DEF LimitInv, OnlyOne
<1>2. ASSUME Modest' PROVE LastSawAll'
  <2>1. Modest
    BY <1>2 DEF Modest, OnlyOne
  <2> SUFFICES ASSUME NEW w \in Windows, NEW T \in SUBSET (Live(w)'), T # {}
               PROVE  \E q \in T : total'[q] >= Total(OwedBy', T)
    BY DEF LastSawAll
  <2>2. T \subseteq Live(w) /\ \A q \in T : total'[q] = total[q]
    BY DEF Live, CountedIn, OnlyOne
  <2>3. \A q \in T : OwedBy'[q] <= OwedBy[q]
    <3> SUFFICES ASSUME NEW q \in T PROVE OwedBy'[q] <= OwedBy[q]
      OBVIOUS
    <3>1. q \in Requests
      BY <2>2 DEF Live, CountedIn
    <3>2. CASE q = r
      BY <1>2, <3>1, <3>2 DEF OwedBy, Modest
    <3>3. CASE q # r
      <4>1. Owed(q)' = Owed(q)
        BY <3>1, <3>3 DEF Owed, OnlyOne
      <4>2. OwedBy[q] \in Nat
        BY <3>1, HeldTypes
      <4> QED
        BY <3>1, <4>1, <4>2 DEF OwedBy
    <3> QED
      BY <3>2, <3>3
  <2>4. PICK q \in T : total[q] >= Total(OwedBy, T)
    BY <2>1, <2>2 DEF LimitInv, LastSawAll
  <2>5. /\ IsFiniteSet(T) /\ T \subseteq Requests
        /\ \A x \in Requests : OwedBy[x] \in Int /\ OwedBy'[x] \in Int
    <3>1. T \in SUBSET CountedIn(w)
      BY <2>2 DEF Live
    <3>2. IsFiniteSet(CountedIn(w)) /\ CountedIn(w) \subseteq Requests
      BY HeldTypes
    <3>3. IsFiniteSet(T)
      BY <3>1, <3>2, FS_Subset
    <3>4. OwedBy \in [Requests -> Nat] /\ OwedBy' \in [Requests -> Nat]
      BY HeldTypes, HeldTypesNext
    <3> QED
      BY <3>1, <3>2, <3>3, <3>4
  <2>6. Total(OwedBy', T) <= Total(OwedBy, T)
    <3> DEFINE g == OwedBy'
               h == OwedBy
    <3> HIDE DEF g, h
    <3>1. \A x \in T : g[x] \in Int /\ h[x] \in Int /\ g[x] <= h[x]
      BY <2>3, <2>5 DEF g, h
    <3>2. Total(g, T) <= Total(h, T)
      BY <2>5, <3>1, TotalGrows
    <3> QED
      BY <3>2 DEF g, h
  <2>7. Total(OwedBy, T) \in Int /\ Total(OwedBy', T) \in Int /\ total[q] \in Int
    BY <2>5, TotalIsInt DEF Types
  <2>8. total'[q] >= Total(OwedBy', T)
    BY <2>2, <2>4, <2>6, <2>7
  <2> QED
    BY <2>8
<1> QED
  BY <1>1, <1>2 DEF LimitInv

\* The one that reserves sees the reservations of all that are live.
LEMMA LimitJoins ==
    ASSUME Types, Types', Flow', CountInv', LimitInv, NEW r \in Requests, OnlyOne(r),
           door[r] = "new", spent'[r] = 0, spent[r] = 0, principal[r].reserved = 0,
           door'[r] = "look", principal'[r].window = today, total'[r] = counter'[today]
    PROVE  LimitInv'
<1>1. \A q \in Requests : door'[q] \in {"admitted", "accepted"} => total'[q] <= Limit
  BY DEF LimitInv, OnlyOne
<1>2. ASSUME Modest' PROVE LastSawAll'
  <2>1. Modest
    BY <1>2 DEF Modest, OnlyOne
  <2> SUFFICES ASSUME NEW w \in Windows, NEW T \in SUBSET (Live(w)'), T # {}
               PROVE  \E q \in T : total'[q] >= Total(OwedBy', T)
    BY DEF LastSawAll
  <2>2. T \subseteq CountedIn(w)' /\ IsFiniteSet(CountedIn(w)') /\ CountedIn(w)' \subseteq Requests
    BY HeldTypesNext DEF Live
  <2>3. \A x \in Requests : OwedBy'[x] \in Int /\ HeldBy'[x] \in Nat /\ OwedBy[x] \in Int
    BY HeldTypes, HeldTypesNext
  <2>4. CASE r \in T
    <3>1. w = today
      BY <2>2, <2>4 DEF CountedIn
    <3>2. \A x \in T : OwedBy'[x] = HeldBy'[x]
      BY <2>2 DEF Live, OwedBy, HeldBy, Owed, Held
    <3>3. Total(OwedBy', T) <= Total(HeldBy', CountedIn(w)')
      <4> DEFINE g == OwedBy'
                 h == HeldBy'
                 S == CountedIn(w)'
      <4>1. /\ IsFiniteSet(S) /\ T \in SUBSET S
            /\ \A x \in S : g[x] \in Int /\ h[x] \in Int /\ h[x] >= 0
            /\ \A x \in T : g[x] <= h[x]
        BY <2>2, <2>3, <3>2
      <4> HIDE DEF g, h, S
      <4>2. Total(g, T) <= Total(h, S)
        BY <4>1, TotalGrows
      <4> QED
        BY <4>2 DEF g, h, S
    <3>4. counter'[w] >= Total(HeldBy', CountedIn(w)')
      BY DEF CountInv
    <3>5. Total(OwedBy', T) \in Int /\ Total(HeldBy', CountedIn(w)') \in Int /\ counter'[w] \in Int
      <4> DEFINE g == OwedBy'
                 h == HeldBy'
                 S == CountedIn(w)'
      <4>1. /\ IsFiniteSet(T) /\ IsFiniteSet(S)
            /\ \A x \in T : g[x] \in Int
            /\ \A x \in S : h[x] \in Int
        BY <2>2, <2>3, FS_Subset
      <4>2. counter'[w] \in Int
        BY DEF Types
      <4> HIDE DEF g, h, S
      <4>3. Total(g, T) \in Int /\ Total(h, S) \in Int
        BY <4>1, TotalIsInt
      <4> QED
        BY <4>2, <4>3 DEF g, h, S
    <3>6. total'[r] >= Total(OwedBy', T)
      BY <3>1, <3>3, <3>4, <3>5
    <3> QED
      BY <2>4, <3>6
  <2>5. CASE r \notin T
    <3>1. T \subseteq Live(w) /\ \A q \in T : total'[q] = total[q]
      BY <2>5 DEF Live, CountedIn, OnlyOne
    <3>2. PICK q \in T : total[q] >= Total(OwedBy, T)
      BY <2>1, <3>1 DEF LimitInv, LastSawAll
    <3>3. \A x \in T : OwedBy'[x] = OwedBy[x]
      BY <2>2, <2>5 DEF OnlyOne, OwedBy, Owed
    <3>4. Total(OwedBy, T) = Total(OwedBy', T)
      <4>1. IsFiniteSet(T) /\ \A x \in T : OwedBy[x] \in Int
        BY <2>2, <2>3, FS_Subset
      <4> DEFINE g == OwedBy
                 h == OwedBy'
      <4>2. \A x \in T : g[x] \in Int /\ g[x] = h[x]
        BY <3>3, <4>1
      <4> HIDE DEF g, h
      <4>3. Total(g, T) = Total(h, T)
        BY <4>1, <4>2, TotalOfSame
      <4> QED
        BY <4>3 DEF g, h
    <3> QED
      BY <3>1, <3>2, <3>4
  <2> QED
    BY <2>4, <2>5
<1> QED
  BY <1>1, <1>2 DEF LimitInv
-----------------------------------------------------------------------------
(* Every step keeps the invariant *)

\* A failed invoke has queued nothing.
NothingQueued == ~AmbiguousInvoke

\* An empty counter and no request.
LEMMA SpendInit == Init => SpendInv
<1> SUFFICES ASSUME Init PROVE SpendInv
  OBVIOUS
<1>1. \A w \in Windows : CountedIn(w) = {} /\ Live(w) = {}
  BY DEF Init, CountedIn, Live
<1>2. {r \in Requests : door[r] # "new"} = {}
  BY DEF Init
<1>3. 0 \in Windows
  BY SpendAssumption DEF Windows
<1>4. Types
  BY <1>2, <1>3, FS_EmptySet DEF Init, Types, Doors, Works
<1>5. Flow
  BY DEF Init, Flow
<1>6. CountInv
  BY <1>1, TotalOfNone DEF Init, CountInv
<1>7. LimitInv
  <2>1. LastSawAll
    BY <1>1 DEF LastSawAll
  <2> QED
    BY <2>1 DEF Init, LimitInv
<1> QED
  BY <1>4, <1>5, <1>6, <1>7 DEF SpendInv

\* One more request is counted at most.
LEMMA StillFinite ==
    ASSUME Types, NEW r \in Requests, OnlyOne(r)
    PROVE  IsFiniteSet({q \in Requests : door'[q] # "new"})
<1> DEFINE S == {q \in Requests : door[q] # "new"}
<1>1. {q \in Requests : door'[q] # "new"} = S \cup {r}
  BY DEF OnlyOne
<1>2. IsFiniteSet(S)
  BY DEF Types
<1> QED
  BY <1>1, <1>2, FS_AddElement

\* r owes no more than before, and is not newly live.
OwesNoMore(r) ==
    /\ spent'[r] <= principal'[r].reserved => spent[r] <= principal[r].reserved
    /\ door'[r] \in {"admitted", "accepted"} => total'[r] <= Limit
    /\ \A w \in Windows : r \in Live(w)' =>
          /\ r \in Live(w) /\ total'[r] = total[r]
          /\ spent'[r] <= principal'[r].reserved => Owed(r)' <= Owed(r)

\* A step of one request that the counter follows and that makes it owe no
\* more keeps the invariant.
LEMMA StepKeeps ==
    ASSUME SpendInv, Types', Flow', NEW r \in Requests, OnlyOne(r), Follows(r), OwesNoMore(r)
    PROVE  SpendInv'
<1>1. CountInv'
  BY CountFollows DEF SpendInv
<1>2. LimitInv'
  BY LimitFollows DEF SpendInv, OwesNoMore
<1> QED
  BY <1>1, <1>2 DEF SpendInv

\* An add that has landed, and one that raised.
LEMMA ReserveKeeps ==
    ASSUME SpendInv, NEW r \in Requests, NEW estimate \in Nat, door[r] = "new",
           Reserve(r, estimate), UNCHANGED <<today, work, lane, spent>>
    PROVE  SpendInv'
<1>1. /\ today \in Windows /\ counter \in [Windows -> Int] /\ today \in Nat
      /\ door \in [Requests -> Doors] /\ principal \in [Requests -> [window : Windows, reserved : Nat]]
      /\ work[r] = "none" /\ spent[r] = 0 /\ principal[r].window = 0 /\ principal[r].reserved = 0
  BY DEF SpendInv, Types, Flow, Windows
<1>2. CASE /\ Count(today, estimate)
           /\ principal' = [principal EXCEPT ![r] = Carried(estimate)]
           /\ total' = [total EXCEPT ![r] = counter'[today]]
           /\ Door(r, "look")
           /\ UNCHANGED faults
  <2>1. OnlyOne(r)
    BY <1>1, <1>2 DEF OnlyOne, Door, SpendInv, Types
  <2>2. Types'
    <3>1. counter' \in [Windows -> Int]
      BY <1>1, <1>2 DEF Count
    <3>2. total' \in [Requests -> Int]
      BY <1>1, <1>2, <3>1 DEF SpendInv, Types
    <3>3. principal' \in [Requests -> [window : Windows, reserved : Nat]]
      BY <1>1, <1>2 DEF Carried
    <3>4. door' \in [Requests -> Doors]
      BY <1>1, <1>2 DEF Door, Doors
    <3> QED
      BY <1>2, <2>1, <3>1, <3>2, <3>3, <3>4, StillFinite DEF SpendInv, Types
  <2>3. /\ principal'[r].window = today /\ principal'[r].reserved = estimate
        /\ door'[r] = "look" /\ work'[r] = "none" /\ total'[r] = counter'[today]
        /\ \A w \in Windows : counter'[w] = counter[w] + (IF w = today THEN estimate ELSE 0)
    BY <1>1, <1>2 DEF Count, Carried, Door, SpendInv, Types
  <2>4. Flow'
    BY <2>1, <2>3 DEF SpendInv, Flow, OnlyOne
  <2>5. Held(r) = 0 /\ Held(r)' = estimate
    BY <1>1, <2>3 DEF Held
  <2>6. Follows(r)
    BY <1>1, <2>2, <2>3, <2>5 DEF Follows, Types
  <2>7. CountInv'
    BY <2>1, <2>2, <2>6, CountFollows DEF SpendInv
  <2>8. LimitInv'
    BY <1>1, <2>1, <2>2, <2>3, <2>4, <2>7, LimitJoins DEF SpendInv
  <2> QED
    BY <2>2, <2>4, <2>7, <2>8 DEF SpendInv
<1>3. CASE /\ Fail
           /\ Count(today, estimate) \/ UNCHANGED counter
           /\ Door(r, "broken")
           /\ UNCHANGED <<principal, total>>
  <2>1. OnlyOne(r)
    BY <1>1, <1>3 DEF OnlyOne, Door, SpendInv, Types
  <2>2. Types'
    <3>1. counter' \in [Windows -> Int]
      BY <1>1, <1>3 DEF Count
    <3>2. door' \in [Requests -> Doors] /\ faults' \in Nat
      BY <1>1, <1>3 DEF Door, Doors, Fail, SpendInv, Types
    <3> QED
      BY <1>3, <2>1, <3>1, <3>2, StillFinite DEF SpendInv, Types
  <2>3. /\ principal'[r] = principal[r] /\ door'[r] = "broken" /\ work'[r] = "none"
        /\ \A w \in Windows : counter'[w] >= counter[w]
    BY <1>1, <1>3 DEF Count, Door, SpendInv, Types
  <2>4. Flow'
    BY <2>1, <2>3 DEF SpendInv, Flow, OnlyOne
  <2>5. Held(r) = 0 /\ Held(r)' = 0
    BY <1>1, <2>3 DEF Held
  <2>6. Follows(r)
    BY <1>1, <2>2, <2>3, <2>5 DEF Follows, Types
  <2>7. OwesNoMore(r)
    BY <1>1, <1>3, <2>3 DEF OwesNoMore, Live
  <2> QED
    BY <2>1, <2>2, <2>4, <2>6, <2>7, StepKeeps
<1> QED
  BY <1>2, <1>3 DEF Reserve

\* A request that goes on uncounted, or is turned down before the reservation.
LEMMA UncountedKeeps ==
    ASSUME SpendInv, NEW r \in Requests, door[r] = "new",
           Unattributed(r) \/ Unpriced(r), UNCHANGED <<today, work, lane, spent>>
    PROVE  SpendInv'
<1>1. /\ counter \in [Windows -> Int] /\ door \in [Requests -> Doors]
      /\ work[r] = "none" /\ spent[r] = 0 /\ principal[r].window = 0 /\ principal[r].reserved = 0
  BY DEF SpendInv, Types, Flow
<1>2. /\ door' \in [Requests -> Doors] /\ door'[r] \in {"uncounted", "refused"}
      /\ \A q \in Requests \ {r} : door'[q] = door[q]
      /\ UNCHANGED <<counter, principal, total, faults>>
  BY <1>1 DEF Unattributed, Unpriced, Door, Doors
<1>3. OnlyOne(r)
  BY <1>2 DEF OnlyOne
<1>4. Types'
  BY <1>2, <1>3, StillFinite DEF SpendInv, Types
<1>5. Flow'
  BY <1>1, <1>2 DEF SpendInv, Flow
<1>6. Follows(r)
  BY <1>1, <1>2 DEF Follows, Held
<1>7. OwesNoMore(r)
  BY <1>2 DEF OwesNoMore, Live
<1> QED
  BY <1>3, <1>4, <1>5, <1>6, <1>7, StepKeeps

\* Admission: POST /evaluations and POST /runs.
LEMMA AdmissionKeeps ==
    ASSUME SpendInv, NEW r \in Requests, Admit(r) \/ AdmitRun(r)
    PROVE  SpendInv'
<1>1. \A e \in Estimates, jobs \in 1..MaxJobs : EstimatedCost(e, jobs) \in Nat
  BY SpendAssumption DEF EstimatedCost
<1>2. door[r] = "new" /\ UNCHANGED <<today, work, lane, spent>>
  BY DEF Admit, AdmitRun
<1>3. \/ Unattributed(r) \/ Unpriced(r)
      \/ \E estimate \in Nat : Reserve(r, estimate)
  <2>1. Estimates \subseteq Nat
    BY SpendAssumption
  <2>2. {EstimatedCost(e, jobs) : e \in Estimates, jobs \in 1..MaxJobs} \subseteq Nat
    BY <1>1
  <2> QED
    BY <2>1, <2>2 DEF Admit, AdmitRun
<1> QED
  BY <1>2, <1>3, ReserveKeeps, UncountedKeeps

\* The look at the total: admitted, taken back out, or an add that raised.
LEMMA LookKeeps ==
    ASSUME SpendInv, NEW r \in Requests, Look(r)
    PROVE  SpendInv'
<1>1. /\ counter \in [Windows -> Int] /\ door \in [Requests -> Doors] /\ door[r] = "look"
      /\ principal \in [Requests -> [window : Windows, reserved : Nat]]
      /\ total[r] \in Int /\ spent[r] \in Nat
      /\ work[r] = "none" /\ spent[r] = 0 /\ Limit \in Nat
  BY SpendAssumption DEF SpendInv, Types, Flow, Look
<1>2. UNCHANGED <<today, work, lane, principal, total, spent>>
  BY DEF Look
<1>3. /\ \/ door'[r] = "admitted" /\ ~OverLimit(r) /\ UNCHANGED counter
         \/ /\ door'[r] = "refused"
            /\ Count(principal[r].window, -principal[r].reserved)
         \/ door'[r] = "broken" /\ UNCHANGED counter
      /\ door' \in [Requests -> Doors]
      /\ \A q \in Requests \ {r} : door'[q] = door[q]
  BY <1>1 DEF Look, Door, Doors
<1>4. OnlyOne(r)
  BY <1>1, <1>2, <1>3 DEF OnlyOne
<1>5. counter' \in [Windows -> Int] /\ faults' \in Nat
  BY <1>1, <1>3 DEF Count, Look, Fail, SpendInv, Types
<1>6. Types'
  BY <1>2, <1>3, <1>4, <1>5, StillFinite DEF SpendInv, Types
<1>7. Flow'
  BY <1>1, <1>2, <1>3 DEF SpendInv, Flow
<1>8. Follows(r)
  <2>1. Held(r) = principal[r].reserved
    BY <1>1 DEF Held
  <2>2. Held(r)' = IF door'[r] = "refused" THEN 0 ELSE principal[r].reserved
    BY <1>1, <1>2, <1>3 DEF Held
  <2>3. \A w \in Windows :
           counter'[w] = counter[w] + (IF w = principal'[r].window THEN Held(r)' - Held(r) ELSE 0)
    BY <1>1, <1>2, <1>3, <2>1, <2>2 DEF Count
  <2> QED
    BY <1>1, <1>5, <2>3 DEF Follows
<1>9. OwesNoMore(r)
  <2>1. door'[r] \in {"admitted", "accepted"} => total'[r] <= Limit
    BY <1>1, <1>2, <1>3 DEF OverLimit
  <2>2. \A w \in Windows : r \in Live(w)' =>
           r \in Live(w) /\ total'[r] = total[r] /\ Owed(r)' <= Owed(r)
    BY <1>1, <1>2 DEF Live, CountedIn, Owed
  <2> QED
    BY <1>2, <2>1, <2>2 DEF OwesNoMore
<1> QED
  BY <1>4, <1>6, <1>7, <1>8, <1>9, StepKeeps

\* The admitted request goes to its lane.
LEMMA StartKeeps ==
    ASSUME SpendInv, NothingQueued, NEW r \in Requests, CreateRun(r) \/ StartEvaluation(r)
    PROVE  SpendInv'
<1>1. /\ counter \in [Windows -> Int] /\ door \in [Requests -> Doors] /\ door[r] = "admitted"
      /\ work \in [Requests -> Works]
      /\ principal \in [Requests -> [window : Windows, reserved : Nat]]
      /\ total[r] \in Int /\ total[r] <= Limit
      /\ work[r] = "none" /\ spent[r] = 0
  BY DEF SpendInv, Types, Flow, LimitInv, CreateRun, StartEvaluation
<1>2. UNCHANGED <<counter, today, lane, principal, total, spent>>
  BY DEF CreateRun, StartEvaluation
<1>3. /\ \/ door'[r] = "accepted" /\ work'[r] \in {"queued", "running"}
         \/ door'[r] = "release" /\ work'[r] = "none"
      /\ door' \in [Requests -> Doors] /\ work' \in [Requests -> Works]
      /\ \A q \in Requests \ {r} : door'[q] = door[q] /\ work'[q] = work[q]
  BY <1>1 DEF CreateRun, StartEvaluation, Door, Work, Doors, Works, NothingQueued
<1>4. OnlyOne(r)
  BY <1>1, <1>2, <1>3 DEF OnlyOne
<1>5. Types'
  <2>1. faults' \in Nat
    BY DEF CreateRun, StartEvaluation, Fail, SpendInv, Types
  <2> QED
    BY <1>2, <1>3, <1>4, <2>1, StillFinite DEF SpendInv, Types
<1>6. Flow'
  BY <1>1, <1>2, <1>3 DEF SpendInv, Flow
<1>7. Follows(r)
  <2>1. Held(r)' = Held(r) /\ Held(r) \in Nat
    BY <1>1, <1>2, <1>3 DEF Held
  <2> QED
    BY <1>1, <1>2, <1>3, <2>1 DEF Follows
<1>8. OwesNoMore(r)
  BY <1>1, <1>2, <1>3 DEF OwesNoMore, Live, CountedIn, Owed
<1> QED
  BY <1>4, <1>5, <1>6, <1>7, <1>8, StepKeeps

\* The except clause of create_evaluation takes the reservation out again.
LEMMA CreateEvaluationFailsKeeps ==
    ASSUME SpendInv, NEW r \in Requests, CreateEvaluationFails(r)
    PROVE  SpendInv'
<1>1. /\ counter \in [Windows -> Int] /\ door \in [Requests -> Doors] /\ door[r] = "release"
      /\ principal \in [Requests -> [window : Windows, reserved : Nat]]
      /\ work[r] = "none" /\ spent[r] = 0
  BY DEF SpendInv, Types, Flow, CreateEvaluationFails
<1>2. UNCHANGED <<today, work, lane, principal, total, spent>>
  BY DEF CreateEvaluationFails
<1>3. /\ \/ door'[r] = "released" /\ Count(principal[r].window, 0 - principal[r].reserved)
         \/ door'[r] = "broken" /\ UNCHANGED counter
      /\ door' \in [Requests -> Doors]
      /\ \A q \in Requests \ {r} : door'[q] = door[q]
  BY <1>1 DEF CreateEvaluationFails, GiveBack, Settle, Door, Doors
<1>4. OnlyOne(r)
  BY <1>1, <1>2, <1>3 DEF OnlyOne
<1>5. counter' \in [Windows -> Int] /\ faults' \in Nat
  BY <1>1, <1>3 DEF Count, CreateEvaluationFails, Fail, SpendInv, Types
<1>6. Types'
  BY <1>2, <1>3, <1>4, <1>5, StillFinite DEF SpendInv, Types
<1>7. Flow'
  BY <1>1, <1>2, <1>3 DEF SpendInv, Flow
<1>8. Follows(r)
  <2>1. Held(r) = principal[r].reserved
    BY <1>1 DEF Held
  <2>2. Held(r)' = IF door'[r] = "released" THEN 0 ELSE principal[r].reserved
    BY <1>1, <1>2, <1>3 DEF Held
  <2>3. \A w \in Windows :
           counter'[w] = counter[w] + (IF w = principal'[r].window THEN Held(r)' - Held(r) ELSE 0)
    BY <1>1, <1>2, <1>3, <2>1, <2>2 DEF Count
  <2> QED
    BY <1>1, <1>5, <2>3 DEF Follows
<1>9. OwesNoMore(r)
  BY <1>1, <1>2, <1>3 DEF OwesNoMore, Live
<1> QED
  BY <1>4, <1>6, <1>7, <1>8, <1>9, StepKeeps

\* Work that goes on, or stops, without a word to the counter.
LEMMA UnsettledWorkKeeps ==
    ASSUME SpendInv, NEW r \in Requests, Claim(r) \/ Die(r)
    PROVE  SpendInv'
<1>1. /\ counter \in [Windows -> Int] /\ work \in [Requests -> Works]
      /\ principal \in [Requests -> [window : Windows, reserved : Nat]]
      /\ spent \in [Requests -> Nat] /\ work[r] \in {"queued", "running"} /\ door[r] = "accepted"
      /\ total[r] <= Limit
  BY DEF SpendInv, Types, Flow, LimitInv, Claim, Die
<1>2. UNCHANGED <<counter, today, door, lane, principal, total, spent>>
  BY DEF Claim, Die
<1>3. /\ work'[r] \in {"running", "skipped", "dead"}
      /\ work' \in [Requests -> Works]
      /\ \A q \in Requests \ {r} : work'[q] = work[q]
  BY <1>1 DEF Claim, Die, Work, Works
<1>4. OnlyOne(r)
  BY <1>1, <1>2, <1>3 DEF OnlyOne
<1>5. Types'
  <2>1. faults' \in Nat
    BY DEF Claim, Die, Fail, SpendInv, Types
  <2> QED
    BY <1>2, <1>3, <1>4, <2>1, StillFinite DEF SpendInv, Types
<1>6. Flow'
  BY <1>1, <1>2, <1>3 DEF SpendInv, Flow
<1>7. Follows(r)
  <2>1. Held(r)' = Held(r) /\ Held(r) \in Nat
    BY <1>1, <1>2, <1>3 DEF Held
  <2> QED
    BY <1>1, <1>2, <1>3, <2>1 DEF Follows
<1>8. OwesNoMore(r)
  BY <1>1, <1>2, <1>3 DEF OwesNoMore, Live, CountedIn, Owed
<1> QED
  BY <1>4, <1>5, <1>6, <1>7, <1>8, StepKeeps

\* Usage is reported to whoever will settle, not to the counter.
LEMMA SpendsKeeps ==
    ASSUME SpendInv, NEW r \in Requests, ReportRun(r) \/ ReportJudge(r)
    PROVE  SpendInv'
<1>1. /\ counter \in [Windows -> Int] /\ work \in [Requests -> Works]
      /\ principal \in [Requests -> [window : Windows, reserved : Nat]]
      /\ spent \in [Requests -> Nat] /\ work[r] \in {"running", "leaking"} /\ door[r] = "accepted"
      /\ total[r] <= Limit
  BY DEF SpendInv, Types, Flow, LimitInv, ReportRun, ReportJudge
<1>2. UNCHANGED <<counter, today, door, work, lane, principal, total, faults>>
  BY DEF ReportRun, ReportJudge, Spends
<1>3. /\ spent' \in [Requests -> Nat] /\ spent'[r] >= spent[r]
      /\ \A q \in Requests \ {r} : spent'[q] = spent[q]
  <2>1. PICK c \in Nat : spent' = [spent EXCEPT ![r] = @ + c]
    BY SpendAssumption DEF ReportRun, ReportJudge, Spends
  <2> QED
    BY <1>1, <2>1
<1>4. OnlyOne(r)
  BY <1>1, <1>2, <1>3 DEF OnlyOne
<1>5. Types'
  BY <1>2, <1>3, <1>4, StillFinite DEF SpendInv, Types
<1>6. Flow'
  BY <1>1, <1>2, <1>3 DEF SpendInv, Flow
<1>7. Follows(r)
  <2>1. Held(r)' = Held(r) /\ Held(r) \in Nat
    BY <1>1, <1>2 DEF Held
  <2> QED
    BY <1>1, <1>2, <2>1 DEF Follows
<1>8. OwesNoMore(r)
  <2>1. spent'[r] <= principal'[r].reserved => spent[r] <= principal[r].reserved
    BY <1>1, <1>2, <1>3
  <2>2. \A w \in Windows : r \in Live(w)' =>
           r \in Live(w) /\ total'[r] = total[r] /\ Owed(r)' <= Owed(r)
    BY <1>1, <1>2 DEF Live, CountedIn, Owed
  <2> QED
    BY <1>1, <1>2, <2>1, <2>2 DEF OwesNoMore
<1> QED
  BY <1>4, <1>5, <1>6, <1>7, <1>8, StepKeeps

\* The finally of the work replaces the reservation by what was spent.
LEMMA EndKeeps ==
    ASSUME SpendInv, NEW r \in Requests, EndStream(r) \/ EndEvaluation(r)
    PROVE  SpendInv'
<1>1. /\ counter \in [Windows -> Int] /\ work \in [Requests -> Works]
      /\ principal \in [Requests -> [window : Windows, reserved : Nat]]
      /\ spent \in [Requests -> Nat] /\ work[r] = "running" /\ door[r] = "accepted"
      /\ total[r] <= Limit
  BY DEF SpendInv, Types, Flow, LimitInv, EndStream, EndEvaluation
<1>2. UNCHANGED <<today, door, lane, principal, total, spent>>
  BY DEF EndStream, EndEvaluation
<1>3. /\ \/ /\ work'[r] \in {"ended", "leaking"}
            /\ Count(principal[r].window, spent[r] - principal[r].reserved)
         \/ work'[r] = "unsettled" /\ UNCHANGED counter
      /\ work' \in [Requests -> Works]
      /\ \A q \in Requests \ {r} : work'[q] = work[q]
  BY <1>1 DEF EndStream, EndEvaluation, SettleQuietly, Settle, Work, Works
<1>4. OnlyOne(r)
  BY <1>1, <1>2, <1>3 DEF OnlyOne
<1>5. Types'
  <2>1. faults' \in Nat
    BY DEF EndStream, EndEvaluation, SettleQuietly, Fail, SpendInv, Types
  <2>2. counter' \in [Windows -> Int]
    BY <1>1, <1>3 DEF Count
  <2> QED
    BY <1>2, <1>3, <1>4, <2>1, <2>2, StillFinite DEF SpendInv, Types
<1>6. Flow'
  BY <1>1, <1>2, <1>3 DEF SpendInv, Flow
<1>7. Follows(r)
  <2>1. Held(r) = principal[r].reserved
    BY <1>1 DEF Held
  <2>2. Held(r)' = IF work'[r] = "leaking" THEN 0
                   ELSE IF work'[r] = "ended" THEN spent[r] ELSE principal[r].reserved
    BY <1>1, <1>2 DEF Held
  <2>3. \A w \in Windows :
           /\ counter'[w] >= counter[w]
                 + (IF w = principal'[r].window THEN Held(r)' - Held(r) ELSE 0)
           /\ work'[r] # "leaking" =>
                 counter'[w] = counter[w]
                    + (IF w = principal'[r].window THEN Held(r)' - Held(r) ELSE 0)
    BY <1>1, <1>2, <1>3, <2>1, <2>2 DEF Count
  <2> QED
    BY <1>1, <2>3 DEF Follows
<1>8. OwesNoMore(r)
  <2>1. spent'[r] <= principal'[r].reserved => spent[r] <= principal[r].reserved
    BY <1>2
  <2>2. \A w \in Windows : r \in Live(w)' =>
           /\ r \in Live(w) /\ total'[r] = total[r]
           /\ spent'[r] <= principal'[r].reserved => Owed(r)' <= Owed(r)
    BY <1>1, <1>2, <1>3 DEF Live, CountedIn, Owed
  <2> QED
    BY <1>1, <1>2, <2>1, <2>2 DEF OwesNoMore
<1> QED
  BY <1>4, <1>5, <1>6, <1>7, <1>8, StepKeeps

\* What the invariant says does not depend on the clock.
LEMMA MidnightKeeps ==
    ASSUME SpendInv, Midnight
    PROVE  SpendInv'
<1>1. UNCHANGED <<counter, door, work, lane, principal, total, spent, faults>>
  BY DEF Midnight
<1>2. today' \in Windows
  BY SpendAssumption DEF Midnight, SpendInv, Types, Windows
<1>3. Types' /\ Flow'
  BY <1>1, <1>2 DEF SpendInv, Types, Flow
<1>4. HeldBy' = HeldBy /\ OwedBy' = OwedBy /\ (Exact' <=> Exact) /\ (Modest' <=> Modest)
  BY <1>1 DEF HeldBy, Held, OwedBy, Owed, Exact, Modest
<1>5. \A w \in Windows : CountedIn(w)' = CountedIn(w) /\ Live(w)' = Live(w)
  BY <1>1 DEF Live, CountedIn
<1>6. CountInv'
  BY <1>1, <1>4, <1>5 DEF SpendInv, CountInv
<1>7. LimitInv'
  BY <1>1, <1>4, <1>5 DEF SpendInv, LimitInv, LastSawAll
<1> QED
  BY <1>3, <1>6, <1>7 DEF SpendInv

\* Every step keeps the invariant.
LEMMA SpendNext ==
    ASSUME NothingQueued, SpendInv, [Next]_vars
    PROVE  SpendInv'
<1>1. CASE UNCHANGED vars
  <2>1. UNCHANGED <<counter, today, door, work, lane, principal, total, spent, faults>>
    BY <1>1 DEF vars
  <2>2. Types' /\ Flow'
    BY <2>1 DEF SpendInv, Types, Flow
  <2>3. HeldBy' = HeldBy /\ OwedBy' = OwedBy /\ (Exact' <=> Exact) /\ (Modest' <=> Modest)
    BY <2>1 DEF HeldBy, Held, OwedBy, Owed, Exact, Modest
  <2>4. \A w \in Windows : CountedIn(w)' = CountedIn(w) /\ Live(w)' = Live(w)
    BY <2>1 DEF Live, CountedIn
  <2>5. CountInv' /\ LimitInv'
    BY <2>1, <2>3, <2>4 DEF SpendInv, CountInv, LimitInv, LastSawAll
  <2> QED
    BY <2>2, <2>5 DEF SpendInv
<1>2. CASE Midnight
  BY <1>2, MidnightKeeps
<1>3. ASSUME NEW r \in Requests, Admit(r) \/ AdmitRun(r) PROVE SpendInv'
  BY <1>3, AdmissionKeeps
<1>4. ASSUME NEW r \in Requests, Look(r) PROVE SpendInv'
  BY <1>4, LookKeeps
<1>5. ASSUME NEW r \in Requests, CreateRun(r) \/ StartEvaluation(r) PROVE SpendInv'
  BY <1>5, StartKeeps
<1>6. ASSUME NEW r \in Requests, CreateEvaluationFails(r) PROVE SpendInv'
  BY <1>6, CreateEvaluationFailsKeeps
<1>7. ASSUME NEW r \in Requests, Claim(r) \/ Die(r) PROVE SpendInv'
  BY <1>7, UnsettledWorkKeeps
<1>8. ASSUME NEW r \in Requests, ReportRun(r) \/ ReportJudge(r) PROVE SpendInv'
  BY <1>8, SpendsKeeps
<1>9. ASSUME NEW r \in Requests, EndStream(r) \/ EndEvaluation(r) PROVE SpendInv'
  BY <1>9, EndKeeps
<1> QED
  BY <1>1, <1>2, <1>3, <1>4, <1>5, <1>6, <1>7, <1>8, <1>9 DEF Next, CreateEvaluation

\* The invariant holds always.
LEMMA SpendAlways ==
    ASSUME NothingQueued
    PROVE  Spec => []SpendInv
BY SpendInit, SpendNext, PTL DEF Spec

-----------------------------------------------------------------------------
(* What the counter promises *)

\* What was spent, as the sum of a function.
LEMMA SpentIsTotal == ASSUME NEW S PROVE SpentBy(S) = Total(spent, S)
BY DEF SpentBy, Total

\* The ended are among those counted, and add what they spent.
LEMMA InvNeverUndercounts == ASSUME SpendInv PROVE NeverUndercounts
<1> SUFFICES ASSUME NEW w \in Windows
             PROVE  counter[w] >= SpentBy({r \in CountedIn(w) : work[r] = "ended"})
  BY DEF NeverUndercounts
<1> DEFINE S == CountedIn(w)
           T == {r \in CountedIn(w) : work[r] = "ended"}
           h == HeldBy
<1>1. /\ IsFiniteSet(S) /\ S \subseteq Requests /\ T \in SUBSET S
      /\ HeldBy \in [Requests -> Nat] /\ spent \in [Requests -> Nat]
  BY HeldTypes DEF SpendInv, Types
<1>2. \A x \in T : HeldBy[x] = spent[x]
  <2> SUFFICES ASSUME NEW x \in T PROVE HeldBy[x] = spent[x]
    OBVIOUS
  <2>1. x \in Requests /\ work[x] = "ended" /\ door[x] = "accepted"
    BY <1>1 DEF SpendInv, Flow
  <2> QED
    BY <2>1 DEF HeldBy, Held
<1>3. /\ \A x \in S : spent[x] \in Int /\ h[x] \in Int /\ h[x] >= 0
      /\ \A x \in T : spent[x] <= h[x]
  BY <1>1, <1>2
<1>4. counter[w] >= Total(h, S) /\ counter[w] \in Int
  BY DEF SpendInv, CountInv, Types
<1> HIDE DEF S, T, h
<1>5. Total(spent, T) <= Total(h, S)
  BY <1>1, <1>3, TotalGrows
<1>6. IsFiniteSet(T)
  BY <1>1, FS_Subset
<1>7. \A x \in T : spent[x] \in Int
  BY <1>1, <1>3
<1>8. Total(spent, T) \in Int /\ Total(h, S) \in Int
  BY <1>1, <1>3, <1>6, <1>7, TotalIsInt
<1> QED
  BY <1>4, <1>5, <1>8, SpentIsTotal DEF T

\* At rest, everything counted adds exactly what it spent.
LEMMA InvConverges == ASSUME SpendInv PROVE ConvergesOnSpend
<1> SUFFICES ASSUME \A r \in Requests : AtRest(r), NEW w \in Windows
             PROVE  counter[w] = SpentBy(CountedIn(w))
  BY DEF ConvergesOnSpend
<1>1. Exact
  BY DEF AtRest, Exact
<1>2. \A r \in Requests : HeldBy[r] = spent[r]
  BY DEF AtRest, HeldBy, Held, SpendInv, Flow
<1>3. /\ IsFiniteSet(CountedIn(w)) /\ CountedIn(w) \subseteq Requests
      /\ HeldBy \in [Requests -> Nat]
  BY HeldTypes DEF SpendInv
<1>4. counter[w] = Total(HeldBy, CountedIn(w))
  BY <1>1 DEF SpendInv, CountInv
<1> DEFINE h == HeldBy
           S == CountedIn(w)
<1>5. IsFiniteSet(S) /\ \A x \in S : h[x] \in Int /\ h[x] = spent[x]
  BY <1>2, <1>3
<1> HIDE DEF h, S
<1>6. Total(h, S) = Total(spent, S)
  BY <1>5, TotalOfSame
<1> QED
  BY <1>4, <1>6, SpentIsTotal DEF h, S

\* The winners are live, so the last of them to reserve saw all of them, and
\* what it saw was within the limit.
LEMMA InvWithinLimit == ASSUME SpendInv PROVE WithinLimit
<1> DEFINE Winners(w) == {r \in CountedIn(w) : /\ door[r] \in {"admitted", "accepted"}
                                               /\ work[r] # "leaking"}
<1> SUFFICES ASSUME Modest, NEW w \in Windows
             PROVE  MapThenSumSet(Owed, Winners(w)) <= Limit
  BY DEF WithinLimit, Modest
<1>1. /\ IsFiniteSet(CountedIn(w)) /\ CountedIn(w) \subseteq Requests
      /\ OwedBy \in [Requests -> Nat] /\ Winners(w) \in SUBSET Live(w)
      /\ Winners(w) \in SUBSET CountedIn(w)
  BY HeldTypes DEF SpendInv, Live
<1>2. MapThenSumSet(Owed, Winners(w)) = Total(OwedBy, Winners(w))
  BY <1>1, OwedIsTotal
<1>3. CASE Winners(w) = {}
  BY <1>2, <1>3, TotalOfNone, SpendAssumption
<1>4. CASE Winners(w) # {}
  <2>1. PICK r \in Winners(w) : total[r] >= Total(OwedBy, Winners(w))
    BY <1>1, <1>4 DEF SpendInv, LimitInv, LastSawAll
  <2>2. total[r] <= Limit /\ total[r] \in Int
    BY <1>1, <2>1 DEF SpendInv, LimitInv, Types
  <2>3. Total(OwedBy, Winners(w)) \in Int
    <3> DEFINE g == OwedBy
               T == Winners(w)
    <3>1. IsFiniteSet(T) /\ \A x \in T : g[x] \in Int
      BY <1>1, FS_Subset
    <3> HIDE DEF g, T
    <3>2. Total(g, T) \in Int
      BY <3>1, TotalIsInt
    <3> QED
      BY <3>2 DEF g, T
  <2> QED
    BY <1>2, <2>1, <2>2, <2>3, SpendAssumption
<1> QED
  BY <1>3, <1>4

\* Every variable keeps its type, and only finitely many requests are counted.
THEOREM SpendTypesHold ==
    ASSUME NothingQueued
    PROVE  Spec => []Types
BY SpendAlways, PTL DEF SpendInv

\* Never toward overspending: whatever raises, dies or runs meanwhile, the
\* counter of a window shows at least what its settled requests spent.
THEOREM SpendNeverUndercounts ==
    ASSUME NothingQueued
    PROVE  Spec => []NeverUndercounts
BY SpendAlways, InvNeverUndercounts, PTL

\* Once nothing is under way and nothing was lost, the counter of every window is
\* exactly what its requests spent: reserve, settle and release balance.
THEOREM SpendConverges ==
    ASSUME NothingQueued
    PROVE  Spec => []ConvergesOnSpend
BY SpendAlways, InvConverges, PTL

\* Two requests racing for the last dollars cannot both win: as long as nothing
\* costs more than its estimate, what reserve admitted in a window stays within
\* the limit.
THEOREM SpendWithinLimit ==
    ASSUME NothingQueued
    PROVE  Spec => []WithinLimit
BY SpendAlways, InvWithinLimit, PTL
=============================================================================
