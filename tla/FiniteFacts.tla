---- MODULE FiniteFacts ----
(***************************************************************************)
(* Facts that the proofs about several components rest on, each proved by  *)
(* a least counterexample: a nonempty set of numbers, or of subsets of a   *)
(* finite set, has a least element.  The functions that are defined by     *)
(* recursion over finitely many records exist, and the sums that the       *)
(* community modules compute by folding behave as sums.                    *)
(***************************************************************************)
EXTENDS Integers, FiniteSetTheorems, WellFoundedInduction, TLAPS

----
(* Least elements, and functions defined by recursion.                     *)

\* A nonempty set of numbers has a least element.
LEMMA LeastNumber ==
  ASSUME NEW S \in SUBSET Nat, S # {}
  PROVE  \E x \in S : \A y \in S : x <= y
<1>1. PICK x \in S : \A y \in S : ~(<<y, x>> \in OpToRel(<, Nat))
  BY NatLessThanWellFounded, WFMin
<1>2. \A y \in S : x <= y
  <2>1. ASSUME NEW y \in S PROVE ~(y < x)
    <3>1. x \in Nat /\ y \in Nat
      OBVIOUS
    <3>2. <<y, x>> \in Nat \X Nat
      BY <3>1
    <3>3. ASSUME y < x PROVE <<y, x>> \in OpToRel(<, Nat)
      BY <3>2, <3>3, Zenon DEF OpToRel
    <3>4. QED
      BY <1>1, <3>3, Zenon
  <2>2. QED
    BY <2>1
<1>3. QED
  BY <1>2

\* Two shapes of recursion: following a link until an end is reached, and
\* gathering what lies below, and below that.
FollowsLinks(S, end, link) == \E f : f = [a \in S |-> IF a \in end THEN a ELSE f[link[a]]]
Gathers(N, D) == \E f : f = [a \in 1..N |-> D[a] \union UNION {f[p] : p \in D[a]}]

\* Following links that come closer to the end leads to an end.
LEMMA LinksEnd ==
  ASSUME NEW S, NEW end \in SUBSET S, NEW link, NEW N \in Nat, NEW rank \in [S -> 0..N],
         \A a \in S : a \notin end => link[a] \in S /\ rank[link[a]] < rank[a]
  PROVE  FollowsLinks(S, end, link)
<1> DEFINE Below(n) == {a \in S : rank[a] < n}
           Defined(n) == \E f : f = [a \in Below(n) |-> IF a \in end THEN a ELSE f[link[a]]]
           Not == {n \in Nat : ~Defined(n)}
<1>1. Defined(0)
  <2>1. Below(0) = {}
    OBVIOUS
  <2>2. [a \in {} |-> 0] = [a \in {} |-> IF a \in end THEN a ELSE [b \in {} |-> 0][link[a]]]
    OBVIOUS
  <2>3. QED
    BY <2>1, <2>2
<1>2. ASSUME NEW n \in Nat, Defined(n) PROVE Defined(n + 1)
  <2>1. PICK f : f = [a \in Below(n) |-> IF a \in end THEN a ELSE f[link[a]]]
    BY <1>2
  <2> DEFINE g == [a \in Below(n + 1) |-> IF a \in end THEN a ELSE f[link[a]]]
  <2>2. \A a \in Below(n) : a \in Below(n + 1) /\ g[a] = f[a]
    BY <2>1
  <2>3. \A a \in Below(n + 1) : a \notin end => link[a] \in Below(n)
    OBVIOUS
  <2>4. g = [a \in Below(n + 1) |-> IF a \in end THEN a ELSE g[link[a]]]
    BY <2>2, <2>3
  <2> HIDE DEF g
  <2>5. QED
    BY <2>4
<1> HIDE DEF Defined
<1>3. \A n \in Nat : Defined(n)
  <2> SUFFICES ASSUME Not # {} PROVE FALSE
    OBVIOUS
  <2>1. PICK n \in Not : \A m \in Not : n <= m
    BY LeastNumber
  <2>2. n # 0
    BY <1>1
  <2>3. n - 1 \in Nat /\ ~(n <= n - 1)
    BY <2>2
  <2>4. Defined(n - 1)
    BY <2>1, <2>3
  <2>5. QED
    BY <1>2, <2>3, <2>4
<1>4. Defined(N + 1) /\ Below(N + 1) = S
  BY <1>3
<1>5. QED
  BY <1>4 DEF Defined, FollowsLinks

\* So does gathering what lies below, level by level.
LEMMA LevelsEnd ==
  ASSUME NEW N \in Nat, NEW D, \A a \in 1..N : \A p \in D[a] : p \in 1..N /\ p < a
  PROVE  Gathers(N, D)
<1> DEFINE Defined(n) == \E f : f = [a \in 1..n |-> D[a] \union UNION {f[p] : p \in D[a]}]
           Not == {n \in 0..N : ~Defined(n)}
<1>1. Defined(0)
  <2>1. 1..0 = {}
    OBVIOUS
  <2>2. [a \in {} |-> 0] = [a \in {} |-> D[a] \union UNION {[b \in {} |-> 0][p] : p \in D[a]}]
    OBVIOUS
  <2>3. QED
    BY <2>1, <2>2
<1>2. ASSUME NEW n \in 0..(N - 1), Defined(n) PROVE Defined(n + 1)
  <2>1. PICK f : f = [a \in 1..n |-> D[a] \union UNION {f[p] : p \in D[a]}]
    BY <1>2
  <2> DEFINE g == [a \in 1..(n + 1) |-> D[a] \union UNION {f[p] : p \in D[a]}]
  <2>2. \A a \in 1..n : a \in 1..(n + 1) /\ g[a] = f[a]
    <3> SUFFICES ASSUME NEW a \in 1..n PROVE a \in 1..(n + 1) /\ g[a] = f[a]
      OBVIOUS
    <3>1. a \in 1..(n + 1)
      OBVIOUS
    <3> DEFINE B(x) == D[x] \union UNION {f[p] : p \in D[x]}
    <3>2. f = [x \in 1..n |-> B(x)] /\ g = [x \in 1..(n + 1) |-> B(x)]
      BY <2>1
    <3> HIDE DEF B, g
    <3>3. QED
      BY <3>1, <3>2
  <2>3. \A a \in 1..(n + 1) : \A p \in D[a] : p \in 1..n /\ g[p] = f[p]
    <3>1. \A a \in 1..(n + 1) : \A p \in D[a] : p \in 1..n
      OBVIOUS
    <3> HIDE DEF g
    <3>2. QED
      BY <2>2, <3>1
  <2>4. \A a \in 1..(n + 1) : {f[p] : p \in D[a]} = {g[p] : p \in D[a]}
    <3> HIDE DEF g
    <3>1. QED
      BY <2>3
  <2>5. g = [a \in 1..(n + 1) |-> D[a] \union UNION {g[p] : p \in D[a]}]
    <3> DEFINE h == [a \in 1..(n + 1) |-> D[a] \union UNION {g[p] : p \in D[a]}]
    <3>1. \A a \in 1..(n + 1) : g[a] = h[a]
      <4> SUFFICES ASSUME NEW a \in 1..(n + 1) PROVE g[a] = h[a]
        OBVIOUS
      <4>1. g[a] = D[a] \union UNION {f[p] : p \in D[a]}
        OBVIOUS
      <4>2. h[a] = D[a] \union UNION {g[p] : p \in D[a]}
        OBVIOUS
      <4> HIDE DEF g, h
      <4>3. QED
        BY <2>4, <4>1, <4>2
    <3>2. QED
      BY <3>1, Zenon
  <2> HIDE DEF g
  <2>6. QED
    BY <2>5
<1> HIDE DEF Defined
<1>3. Not = {}
  <2> SUFFICES ASSUME Not # {} PROVE FALSE
    OBVIOUS
  <2>0. Not \in SUBSET Nat
    OBVIOUS
  <2>1. PICK n \in Not : \A m \in Not : n <= m
    <3> HIDE DEF Not
    <3>1. QED
      BY <2>0, LeastNumber
  <2>2. n # 0
    BY <1>1
  <2>3. n - 1 \in 0..(N - 1) /\ n - 1 \in 0..N /\ ~(n <= n - 1)
    BY <2>2
  <2>4. Defined(n - 1)
    BY <2>1, <2>3
  <2>5. QED
    BY <1>2, <2>3, <2>4
<1>4. Defined(N)
  BY <1>3
<1>5. QED
  BY <1>4 DEF Defined, Gathers

----
(* Sums over finite sets.                                                  *)

(* A set of subsets of a finite set that is not empty has a least one.     *)
LEMMA LeastSubset ==
  ASSUME NEW S, IsFiniteSet(S), NEW U, U \subseteq SUBSET S, U # {}
  PROVE  \E T \in U : \A V \in SUBSET T : V # T => V \notin U
<1>1. IsWellFoundedOn(StrictSubsetOrdering(S), SUBSET S)
  BY FS_FiniteSubsetsOfFinite, FS_StrictSubsetOrderingWellFounded, Zenon
<1>2. PICK T \in U : \A V \in U : <<V, T>> \notin StrictSubsetOrdering(S)
  BY <1>1, WFMin, Zenon
<1>3. ASSUME NEW V \in SUBSET T, V # T, V \in U PROVE FALSE
  BY <1>2, <1>3 DEF StrictSubsetOrdering
<1> QED BY <1>3

\* The member that the library's folds take first.
Least(s) == CHOOSE x \in s : TRUE

(* What makes g the function that sums f over the subsets of S.            *)
Adds(f, S, g) ==
  g = [s \in SUBSET S |->
         IF s = {} THEN 0 ELSE f[Least(s)] + g[s \ {Least(s)}]]

\* It is in the set.
LEMMA LeastIsMember == ASSUME NEW s, s # {} PROVE Least(s) \in s
BY DEF Least

\* The library's sum is the value of such a function, if there is one.
LEMMA SumIsChosen ==
  ASSUME NEW f, NEW S
  PROVE  SumFunctionOnSet(f, S) = (CHOOSE g : Adds(f, S, g))[S]
BY DEF SumFunctionOnSet, FoldFunctionOnSet, MapThenFoldSet, Adds, Least

(* Two such functions agree where both are defined. *)
LEMMA AddsOneWay ==
  ASSUME NEW f, NEW S, IsFiniteSet(S), NEW T \in SUBSET S,
         NEW g, Adds(f, S, g), NEW h, Adds(f, T, h)
  PROVE  \A s \in SUBSET T : g[s] = h[s]
<1> DEFINE Bad == {s \in SUBSET T : g[s] # h[s]}
<1> SUFFICES ASSUME Bad # {} PROVE FALSE
  OBVIOUS
<1>1. IsFiniteSet(T)
  BY FS_Subset
<1>2. PICK s \in Bad : \A V \in SUBSET s : V # s => V \notin Bad
  <2>1. Bad \subseteq SUBSET T
    OBVIOUS
  <2> HIDE DEF Bad
  <2> QED BY <1>1, <2>1, LeastSubset
<1>3. s # {} => Least(s) \in s
  BY LeastIsMember
<1>4. s # {} => g[s \ {Least(s)}] = h[s \ {Least(s)}]
  BY <1>2, <1>3
<1>5. s \in SUBSET T /\ s \in SUBSET S
  OBVIOUS
<1>6. g[s] = IF s = {} THEN 0 ELSE f[Least(s)] + g[s \ {Least(s)}]
  BY <1>5 DEF Adds
<1>7. h[s] = IF s = {} THEN 0 ELSE f[Least(s)] + h[s \ {Least(s)}]
  BY <1>5 DEF Adds
<1> QED BY <1>4, <1>6, <1>7

\* There is one for every finite set.
LEMMA AddsExists ==
  ASSUME NEW f, NEW S, IsFiniteSet(S)
  PROVE  \E g : Adds(f, S, g)
<1> DEFINE Bad == {s \in SUBSET S : ~ \E g : Adds(f, s, g)}
           Of(s) == CHOOSE g : Adds(f, s, g)
<1> SUFFICES ASSUME Bad # {} PROVE FALSE
  OBVIOUS
<1>1. PICK T \in Bad : \A V \in SUBSET T : V # T => V \notin Bad
  <2>1. Bad \subseteq SUBSET S
    OBVIOUS
  <2> HIDE DEF Bad
  <2> QED BY <2>1, LeastSubset
<1>2. \A s \in SUBSET T : s # T => Adds(f, s, Of(s))
  BY <1>1
<1>3. IsFiniteSet(T)
  BY FS_Subset
<1> DEFINE v == [s \in SUBSET T |-> Of(s)[s]]
           w == [s \in SUBSET T |->
                   IF s = {} THEN 0
                   ELSE f[Least(s)] + v[s \ {Least(s)}]]
<1> HIDE DEF Of
<1>4. ASSUME NEW s \in SUBSET T, s # T PROVE w[s] = v[s]
  <2>1. Adds(f, s, Of(s)) /\ IsFiniteSet(s)
    BY <1>2, <1>3, <1>4, FS_Subset
  <2>2. Of(s)[s] = IF s = {} THEN 0 ELSE f[Least(s)] + Of(s)[s \ {Least(s)}]
    BY <2>1 DEF Adds
  <2>3. CASE s # {}
    <3> DEFINE u == s \ {Least(s)}
    <3>1. u \in SUBSET s /\ u \in SUBSET T /\ u # T
      BY <2>3, LeastIsMember
    <3>2. Adds(f, u, Of(u))
      BY <3>1, <1>2
    <3>3. Of(s)[u] = Of(u)[u]
      BY <2>1, <3>1, <3>2, AddsOneWay
    <3> QED BY <2>2, <2>3, <3>1, <3>3
  <2>4. CASE s = {}
    BY <2>2, <2>4
  <2> QED BY <2>3, <2>4
<1>5. \A s \in SUBSET T : s # {} => s \ {Least(s)} \in SUBSET T /\ s \ {Least(s)} # T
  BY LeastIsMember
<1>6. Adds(f, T, w)
  <2> SUFFICES \A s \in SUBSET T :
        w[s] = IF s = {} THEN 0 ELSE f[Least(s)] + w[s \ {Least(s)}]
    BY DEF Adds
  <2> QED BY <1>4, <1>5
<1> QED BY <1>6, <1>1

(* The equation by which a sum is computed.                                *)
LEMMA SumUnfolds ==
  ASSUME NEW f, NEW S, IsFiniteSet(S)
  PROVE  SumFunctionOnSet(f, S) =
           IF S = {} THEN 0
           ELSE f[Least(S)] + SumFunctionOnSet(f, S \ {Least(S)})
<1> DEFINE Of(s) == CHOOSE g : Adds(f, s, g)
<1>1. Adds(f, S, Of(S))
  BY AddsExists
<1>2. Of(S)[S] = IF S = {} THEN 0 ELSE f[Least(S)] + Of(S)[S \ {Least(S)}]
  BY <1>1 DEF Adds
<1>3. IsFiniteSet(S \ {Least(S)}) /\ S \ {Least(S)} \in SUBSET S
  BY FS_RemoveElement
<1>4. Adds(f, S \ {Least(S)}, Of(S \ {Least(S)}))
  BY <1>3, AddsExists
<1>5. Of(S)[S \ {Least(S)}] = Of(S \ {Least(S)})[S \ {Least(S)}]
  BY <1>1, <1>3, <1>4, AddsOneWay
<1>6. SumFunctionOnSet(f, S) = Of(S)[S]
  BY SumIsChosen
<1>7. SumFunctionOnSet(f, S \ {Least(S)}) = Of(S \ {Least(S)})[S \ {Least(S)}]
  BY SumIsChosen
<1> QED BY <1>2, <1>5, <1>6, <1>7

(* A sum of integers is an integer, and one of naturals a natural number.  *)
LEMMA SumType ==
  ASSUME NEW S, IsFiniteSet(S), NEW f, NEW N \in {Nat, Int},
         \A x \in S : f[x] \in N
  PROVE  SumFunctionOnSet(f, S) \in N
<1> DEFINE Bad == {s \in SUBSET S : SumFunctionOnSet(f, s) \notin N}
<1> SUFFICES ASSUME Bad # {} PROVE FALSE
  OBVIOUS
<1>1. PICK T \in Bad : \A V \in SUBSET T : V # T => V \notin Bad
  <2>1. Bad \subseteq SUBSET S
    OBVIOUS
  <2> HIDE DEF Bad
  <2> QED BY <2>1, LeastSubset
<1>2. IsFiniteSet(T)
  BY FS_Subset
<1>3. SumFunctionOnSet(f, T) =
        IF T = {} THEN 0
        ELSE f[Least(T)] + SumFunctionOnSet(f, T \ {Least(T)})
  BY <1>2, SumUnfolds
<1>4. T # {} => /\ f[Least(T)] \in N
                /\ SumFunctionOnSet(f, T \ {Least(T)}) \in N
  BY <1>1, LeastIsMember
<1>5. SumFunctionOnSet(f, T) \in N
  BY <1>3, <1>4
<1> QED BY <1>5

(* What a sum over S is, seen from any member of S.                        *)
LEMMA SumPick ==
  ASSUME NEW S, IsFiniteSet(S), NEW f, \A x \in S : f[x] \in Int,
         NEW y \in S
  PROVE  SumFunctionOnSet(f, S) = f[y] + SumFunctionOnSet(f, S \ {y})
<1> DEFINE Pick(s, x) ==
             SumFunctionOnSet(f, s) = f[x] + SumFunctionOnSet(f, s \ {x})
           Bad == {s \in SUBSET S : \E x \in s : ~Pick(s, x)}
<1> SUFFICES ASSUME Bad # {} PROVE FALSE
  OBVIOUS
<1>1. PICK T \in Bad : \A V \in SUBSET T : V # T => V \notin Bad
  <2>1. Bad \subseteq SUBSET S
    OBVIOUS
  <2> HIDE DEF Bad
  <2> QED BY <2>1, LeastSubset
<1>2. PICK x \in T : ~Pick(T, x)
  OBVIOUS
<1>3. Least(T) \in T /\ Pick(T, Least(T))
  <2>1. IsFiniteSet(T)
    BY FS_Subset
  <2> QED BY <2>1, SumUnfolds, LeastIsMember
<1> DEFINE z == Least(T)
           u == T \ {z}
           v == T \ {x}
<1> HIDE DEF Pick
<1>4. x # z
  BY <1>2, <1>3
<1>5. Pick(u, x) /\ Pick(v, z)
  BY <1>1, <1>3, <1>4
<1>6. u \ {x} = v \ {z}
  OBVIOUS
<1>7. /\ SumFunctionOnSet(f, v \ {z}) \in Int
      /\ f[x] \in Int /\ f[z] \in Int
  <2>1. IsFiniteSet(v \ {z}) /\ \A y1 \in v \ {z} : f[y1] \in Int
    BY FS_Subset
  <2> QED BY <2>1, <1>3, SumType
<1> HIDE DEF z
<1>8. Pick(T, x)
  BY <1>3, <1>5, <1>6, <1>7 DEF Pick, z
<1> QED BY <1>2, <1>8

\* Nothing sums to 0.
LEMMA SumEmpty == ASSUME NEW f PROVE SumFunctionOnSet(f, {}) = 0
BY SumUnfolds, FS_EmptySet

\* A sum grows by a term that is added.
LEMMA SumAdd ==
  ASSUME NEW S, IsFiniteSet(S), NEW f, NEW y, y \notin S,
         \A x \in S \union {y} : f[x] \in Int
  PROVE  SumFunctionOnSet(f, S \union {y}) = SumFunctionOnSet(f, S) + f[y]
<1>1. IsFiniteSet(S \union {y}) /\ (S \union {y}) \ {y} = S
  BY FS_AddElement
<1>2. SumFunctionOnSet(f, S \union {y}) = f[y] + SumFunctionOnSet(f, S)
  BY <1>1, SumPick
<1>3. SumFunctionOnSet(f, S) \in Int
  BY SumType
<1> QED BY <1>2, <1>3

(* Functions that agree on S have the same sum over S.                     *)
LEMMA SumSame ==
  ASSUME NEW S, IsFiniteSet(S), NEW f, NEW g, \A x \in S : f[x] = g[x]
  PROVE  SumFunctionOnSet(f, S) = SumFunctionOnSet(g, S)
<1> DEFINE Bad == {s \in SUBSET S :
                     SumFunctionOnSet(f, s) # SumFunctionOnSet(g, s)}
<1> SUFFICES ASSUME Bad # {} PROVE FALSE
  OBVIOUS
<1>1. PICK T \in Bad : \A V \in SUBSET T : V # T => V \notin Bad
  <2>1. Bad \subseteq SUBSET S
    OBVIOUS
  <2> HIDE DEF Bad
  <2> QED BY <2>1, LeastSubset
<1>2. IsFiniteSet(T)
  BY FS_Subset
<1>3. /\ SumFunctionOnSet(f, T) =
           IF T = {} THEN 0
           ELSE f[Least(T)] + SumFunctionOnSet(f, T \ {Least(T)})
      /\ SumFunctionOnSet(g, T) =
           IF T = {} THEN 0
           ELSE g[Least(T)] + SumFunctionOnSet(g, T \ {Least(T)})
  BY <1>2, SumUnfolds
<1>4. T # {} => /\ f[Least(T)] = g[Least(T)]
                /\ SumFunctionOnSet(f, T \ {Least(T)})
                     = SumFunctionOnSet(g, T \ {Least(T)})
  BY <1>1, LeastIsMember
<1>5. SumFunctionOnSet(f, T) = SumFunctionOnSet(g, T)
  BY <1>3, <1>4
<1> QED BY <1>5

(* A sum changes as much as its one changed term does.                     *)
LEMMA SumUpdate ==
  ASSUME NEW S, IsFiniteSet(S), NEW f, NEW g, NEW y \in S,
         \A x \in S : f[x] \in Int /\ g[x] \in Int,
         \A x \in S \ {y} : f[x] = g[x]
  PROVE  SumFunctionOnSet(g, S) = SumFunctionOnSet(f, S) + g[y] - f[y]
<1> DEFINE rest == SumFunctionOnSet(f, S \ {y})
<1>1. IsFiniteSet(S \ {y})
  BY FS_RemoveElement
<1>2. rest \in Int
  BY <1>1, SumType
<1>3. rest = SumFunctionOnSet(g, S \ {y})
  BY <1>1, SumSame
<1>4. SumFunctionOnSet(f, S) = f[y] + rest
  BY SumPick
<1>5. SumFunctionOnSet(g, S) = g[y] + rest
  BY <1>3, SumPick
<1> HIDE DEF rest
<1> QED BY <1>2, <1>4, <1>5

(* One term is written: it is new, or replaces what it was.                *)
LEMMA SumWrite ==
  ASSUME NEW S, IsFiniteSet(S), NEW f, NEW g, NEW y,
         \A x \in S : f[x] \in Int, \A x \in S \union {y} : g[x] \in Int,
         \A x \in S \ {y} : f[x] = g[x]
  PROVE  /\ y \in S => SumFunctionOnSet(g, S \union {y}) =
                        SumFunctionOnSet(f, S) + g[y] - f[y]
         /\ y \notin S => SumFunctionOnSet(g, S \union {y}) =
                           SumFunctionOnSet(f, S) + g[y]
<1>1. CASE y \in S
  <2>1. S \union {y} = S
    BY <1>1
  <2>2. SumFunctionOnSet(g, S) = SumFunctionOnSet(f, S) + g[y] - f[y]
    BY <1>1, SumUpdate
  <2> QED BY <1>1, <2>1, <2>2
<1>2. CASE y \notin S
  <2>1. SumFunctionOnSet(g, S \union {y}) = SumFunctionOnSet(g, S) + g[y]
    BY <1>2, SumAdd
  <2>2. SumFunctionOnSet(f, S) = SumFunctionOnSet(g, S)
    BY <1>2, SumSame
  <2> QED BY <1>2, <2>1, <2>2
<1> QED BY <1>1, <1>2

(* Sums of functions that are ordered pointwise are ordered.               *)
LEMMA SumMonotone ==
  ASSUME NEW S, IsFiniteSet(S), NEW f, NEW g,
         \A x \in S : f[x] \in Int /\ g[x] \in Int /\ f[x] <= g[x]
  PROVE  SumFunctionOnSet(f, S) <= SumFunctionOnSet(g, S)
<1> DEFINE Bad == {s \in SUBSET S :
              ~(SumFunctionOnSet(f, s) <= SumFunctionOnSet(g, s))}
<1> SUFFICES ASSUME Bad # {} PROVE FALSE
  OBVIOUS
<1>1. PICK T \in Bad : \A V \in SUBSET T : V # T => V \notin Bad
  <2>1. Bad \subseteq SUBSET S
    OBVIOUS
  <2> HIDE DEF Bad
  <2> QED BY <2>1, LeastSubset
<1>2. IsFiniteSet(T)
  BY FS_Subset
<1>3. /\ SumFunctionOnSet(f, T) =
           IF T = {} THEN 0
           ELSE f[Least(T)] + SumFunctionOnSet(f, T \ {Least(T)})
      /\ SumFunctionOnSet(g, T) =
           IF T = {} THEN 0
           ELSE g[Least(T)] + SumFunctionOnSet(g, T \ {Least(T)})
  BY <1>2, SumUnfolds
<1>4. T # {} => /\ Least(T) \in T
                /\ SumFunctionOnSet(f, T \ {Least(T)})
                     <= SumFunctionOnSet(g, T \ {Least(T)})
  BY <1>1, LeastIsMember
<1>5. T # {} => /\ SumFunctionOnSet(f, T \ {Least(T)}) \in Int
                /\ SumFunctionOnSet(g, T \ {Least(T)}) \in Int
  <2>1. IsFiniteSet(T \ {Least(T)})
    BY <1>2, FS_RemoveElement
  <2> QED BY <2>1, SumType
<1>6. SumFunctionOnSet(f, T) <= SumFunctionOnSet(g, T)
  BY <1>3, <1>4, <1>5
<1> QED BY <1>6

(* The sum over a row of numbers: one is appended, or one is replaced.     *)
LEMMA SumAppend ==
  ASSUME NEW n \in Nat, NEW f \in [1..n -> Nat], NEW g \in [1..(n + 1) -> Nat],
         \A i \in 1..n : g[i] = f[i]
  PROVE  /\ SumFunctionOnSet(f, 1..n) \in Nat
         /\ SumFunctionOnSet(g, 1..(n + 1)) = SumFunctionOnSet(f, 1..n) + g[n + 1]
<1>1. IsFiniteSet(1..n) /\ n + 1 \notin 1..n /\ 1..(n + 1) = (1..n) \union {n + 1}
  <2>1. IsFiniteSet(1..n)
    BY FS_Interval
  <2>2. n + 1 \notin 1..n /\ 1..(n + 1) = (1..n) \union {n + 1}
    OBVIOUS
  <2> QED BY <2>1, <2>2
<1>2. /\ \A x \in 1..n : f[x] \in Int
      /\ \A x \in (1..n) \union {n + 1} : g[x] \in Int
      /\ \A x \in (1..n) \ {n + 1} : f[x] = g[x]
  BY <1>1
<1>3. SumFunctionOnSet(g, (1..n) \union {n + 1}) = SumFunctionOnSet(f, 1..n) + g[n + 1]
  BY <1>1, <1>2, SumWrite
<1>4. SumFunctionOnSet(f, 1..n) \in Nat
  BY <1>1, SumType
<1> QED BY <1>1, <1>3, <1>4

\* A number at one place is replaced, over any finite set.
LEMMA SumReplaceIn ==
  ASSUME NEW S, IsFiniteSet(S), NEW f \in [S -> Nat], NEW h \in S, NEW c \in Nat
  PROVE  /\ SumFunctionOnSet(f, S) \in Nat /\ SumFunctionOnSet([f EXCEPT ![h] = c], S) \in Nat
         /\ SumFunctionOnSet([f EXCEPT ![h] = c], S) = SumFunctionOnSet(f, S) + c - f[h]
<1> DEFINE g == [f EXCEPT ![h] = c]
<1>1. /\ \A x \in S : f[x] \in Nat /\ g[x] \in Nat
      /\ \A x \in S \ {h} : f[x] = g[x]
      /\ g[h] = c
  OBVIOUS
<1> HIDE DEF g
<1>2. SumFunctionOnSet(g, S) = SumFunctionOnSet(f, S) + g[h] - f[h]
  <2>1. \A x \in S : f[x] \in Int /\ g[x] \in Int
    BY <1>1
  <2> QED BY <1>1, <2>1, SumUpdate
<1>3. SumFunctionOnSet(f, S) \in Nat /\ SumFunctionOnSet(g, S) \in Nat
  BY <1>1, SumType
<1> QED BY <1>1, <1>2, <1>3 DEF g

\* The same, in a row of numbers.
LEMMA SumReplace ==
  ASSUME NEW n \in Nat, NEW f \in [1..n -> Nat], NEW h \in 1..n, NEW c \in Nat
  PROVE  /\ SumFunctionOnSet(f, 1..n) \in Nat /\ SumFunctionOnSet([f EXCEPT ![h] = c], 1..n) \in Nat
         /\ SumFunctionOnSet([f EXCEPT ![h] = c], 1..n) = SumFunctionOnSet(f, 1..n) + c - f[h]
<1>1. IsFiniteSet(1..n)
  BY FS_Interval
<1> QED BY <1>1, SumReplaceIn
====
