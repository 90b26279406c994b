------------------------------- MODULE SumLemmas -------------------------------
(***************************************************************************)
(* Sums over finite sets, SumFunctionOnSet of the module Functions, for    *)
(* the proofs about quantities and counts that add up.                     *)
(*                                                                         *)
(* The sum is a fold, that is a recursive function over the subsets of a   *)
(* set. That the function exists and what it computes are shown by taking  *)
(* a smallest subset for which it would fail: strict inclusion of finite   *)
(* sets is well-founded.                                                   *)
(***************************************************************************)
EXTENDS Functions, FiniteSetTheorems, WellFoundedInduction, TLAPS

\* The element the fold takes next.
Pick(s) == CHOOSE x \in s : TRUE

\* g is the recursive function that sums f over the subsets of T.
AddsUp(g, f, T) ==
    g = [s \in SUBSET T |-> IF s = {} THEN 0 ELSE f[Pick(s)] + g[s \ {Pick(s)}]]

-----------------------------------------------------------------------------
\* A set of subsets of a finite set has a smallest member.
LEMMA SmallestSubset ==
    ASSUME NEW T, IsFiniteSet(T), NEW B \in SUBSET (SUBSET T), B # {}
    PROVE  \E s \in B : \A u \in B : u \subseteq s => u = s
<1>1. B \subseteq FiniteSubsetsOf(T)
  BY FS_FiniteSubsetsOfFinite
<1>2. IsWellFoundedOn(StrictSubsetOrdering(T), FiniteSubsetsOf(T))
  BY FS_StrictSubsetOrderingWellFounded
<1>3. PICK s \in B : \A u \in B : <<u, s>> \notin StrictSubsetOrdering(T)
  BY <1>1, <1>2, WFMin
<1> QED BY <1>3 DEF StrictSubsetOrdering

LEMMA Picked ==
    ASSUME NEW s, s # {}
    PROVE  Pick(s) \in s
BY DEF Pick

\* Two such functions agree wherever both are defined.
LEMMA SumsAgree ==
    ASSUME NEW T, IsFiniteSet(T), NEW U, NEW f, NEW g, NEW h, AddsUp(g, f, T), AddsUp(h, f, U),
           NEW v \in SUBSET (T \cap U)
    PROVE  g[v] = h[v]
<1> DEFINE B == {s \in SUBSET (T \cap U) : g[s] # h[s]}
<1> SUFFICES ASSUME B # {} PROVE FALSE
  OBVIOUS
<1>0. B \in SUBSET (SUBSET (T \cap U)) /\ IsFiniteSet(T \cap U)
  BY FS_Subset
<1>1. PICK s \in B : \A u \in B : u \subseteq s => u = s
  <2> HIDE DEF B
  <2> QED BY <1>0, SmallestSubset
<1>2. /\ s \in SUBSET T /\ s \in SUBSET U
      /\ g[s] = IF s = {} THEN 0 ELSE f[Pick(s)] + g[s \ {Pick(s)}]
      /\ h[s] = IF s = {} THEN 0 ELSE f[Pick(s)] + h[s \ {Pick(s)}]
  BY DEF AddsUp
<1>3. s # {}
  BY <1>2
<1>4. s \ {Pick(s)} \notin B
  BY <1>1, <1>3, Picked
<1>5. g[s \ {Pick(s)}] = h[s \ {Pick(s)}]
  BY <1>4
<1> QED BY <1>2, <1>5

\* The restriction to the subsets of a subset is such a function again.
LEMMA SumsRestrict ==
    ASSUME NEW T, NEW f, NEW g, AddsUp(g, f, T), NEW U \in SUBSET T
    PROVE  AddsUp([s \in SUBSET U |-> g[s]], f, U)
<1>1. ASSUME NEW s \in SUBSET U
      PROVE  g[s] = IF s = {} THEN 0 ELSE f[Pick(s)] + g[s \ {Pick(s)}]
  BY DEF AddsUp
<1> QED BY <1>1 DEF AddsUp

\* The function exists.
LEMMA SumsExist ==
    ASSUME NEW T, IsFiniteSet(T), NEW f
    PROVE  \E g : AddsUp(g, f, T)
<1> DEFINE B == {s \in SUBSET T : ~\E g : AddsUp(g, f, s)}
<1> SUFFICES ASSUME B # {} PROVE FALSE
  OBVIOUS
<1>0. B \in SUBSET (SUBSET T)
  OBVIOUS
<1>1. PICK t \in B : \A u \in B : u \subseteq t => u = t
  <2> HIDE DEF B
  <2> QED BY <1>0, SmallestSubset
<1> DEFINE R(u) == CHOOSE g : AddsUp(g, f, u)
           sum == [s \in SUBSET t |-> IF s = {} THEN 0
                                      ELSE f[Pick(s)] + R(s \ {Pick(s)})[s \ {Pick(s)}]]
<1>2. ASSUME NEW u \in SUBSET t, u # t
      PROVE  AddsUp(R(u), f, u) /\ IsFiniteSet(u)
  <2>1. \E g : AddsUp(g, f, u)
    BY <1>1, <1>2
  <2> QED BY <2>1, FS_Subset
<1>3. ASSUME NEW s \in SUBSET t, s # {}
      PROVE  sum[s \ {Pick(s)}] = R(s \ {Pick(s)})[s \ {Pick(s)}]
  <2> DEFINE u == s \ {Pick(s)}
             w == u \ {Pick(u)}
  <2>1. u \in SUBSET t /\ u # t /\ w \in SUBSET u /\ w \in SUBSET t /\ w # t
    BY <1>3, Picked
  <2>2. AddsUp(R(u), f, u) /\ AddsUp(R(w), f, w) /\ IsFiniteSet(u)
    BY <1>2, <2>1
  <2>3. R(u)[u] = IF u = {} THEN 0 ELSE f[Pick(u)] + R(u)[w]
    BY <2>2 DEF AddsUp
  <2>4. R(u)[w] = R(w)[w]
    <3>1. w \in SUBSET (u \cap w)
      OBVIOUS
    <3> HIDE DEF R, u, w
    <3> QED BY <2>2, <3>1, SumsAgree
  <2>5. sum[u] = IF u = {} THEN 0 ELSE f[Pick(u)] + R(w)[w]
    BY <2>1
  <2> QED BY <2>3, <2>4, <2>5
<1>4. AddsUp(sum, f, t)
  <2> DEFINE next(s) == IF s = {} THEN 0 ELSE f[Pick(s)] + sum[s \ {Pick(s)}]
  <2>1. ASSUME NEW s \in SUBSET t PROVE sum[s] = next(s)
    <3>1. sum[s] = IF s = {} THEN 0 ELSE f[Pick(s)] + R(s \ {Pick(s)})[s \ {Pick(s)}]
      OBVIOUS
    <3> HIDE DEF sum, R
    <3> QED BY <1>3, <3>1
  <2>2. sum = [s \in SUBSET t |-> sum[s]]
    OBVIOUS
  <2>3. sum = [s \in SUBSET t |-> next(s)]
    <3> HIDE DEF sum, next
    <3> QED BY <2>1, <2>2
  <2> HIDE DEF sum
  <2> QED BY <2>3 DEF AddsUp
<1> QED BY <1>4

-----------------------------------------------------------------------------
\* The equation of the sum: it takes the elements one by one.
LEMMA SumIsFold ==
    ASSUME NEW T, NEW f
    PROVE  SumFunctionOnSet(f, T) = (CHOOSE g : AddsUp(g, f, T))[T]
BY DEF SumFunctionOnSet, FoldFunctionOnSet, MapThenFoldSet, AddsUp, Pick

LEMMA SumStep ==
    ASSUME NEW T, IsFiniteSet(T), NEW f
    PROVE  SumFunctionOnSet(f, T) =
              IF T = {} THEN 0 ELSE f[Pick(T)] + SumFunctionOnSet(f, T \ {Pick(T)})
<1> DEFINE F(u) == CHOOSE g : AddsUp(g, f, u)
           rest == T \ {Pick(T)}
<1>1. AddsUp(F(T), f, T)
  BY SumsExist
<1>2. IsFiniteSet(rest) /\ rest \in SUBSET T /\ rest \in SUBSET (T \cap rest)
  BY FS_Subset
<1>3. AddsUp(F(rest), f, rest)
  <2> HIDE DEF rest
  <2> QED BY <1>2, SumsExist
<1>4. F(T)[T] = IF T = {} THEN 0 ELSE f[Pick(T)] + F(T)[rest]
  <2> HIDE DEF F
  <2> QED BY <1>1 DEF AddsUp
<1>5. F(T)[rest] = F(rest)[rest]
  <2> HIDE DEF F, rest
  <2> QED BY <1>1, <1>2, <1>3, SumsAgree
<1>6. SumFunctionOnSet(f, T) = F(T)[T] /\ SumFunctionOnSet(f, rest) = F(rest)[rest]
  BY SumIsFold
<1> HIDE DEF F
<1> QED BY <1>4, <1>5, <1>6

\* A property that a subset of T has as soon as its proper subsets have it.
LEMMA SubsetInduction ==
    ASSUME NEW T, IsFiniteSet(T), NEW P \in SUBSET (SUBSET T),
           \A s \in SUBSET T : (\A u \in SUBSET s : u # s => u \in P) => s \in P
    PROVE  T \in P
<1> DEFINE B == {s \in SUBSET T : s \notin P}
<1> SUFFICES ASSUME B # {} PROVE FALSE
  OBVIOUS
<1>1. B \in SUBSET (SUBSET T)
  OBVIOUS
<1>2. PICK s \in B : \A u \in B : u \subseteq s => u = s
  <2> HIDE DEF B
  <2> QED BY <1>1, SmallestSubset
<1> QED BY <1>2

\* The sum of integers is an integer.
LEMMA SumType ==
    ASSUME NEW T, IsFiniteSet(T), NEW f, \A x \in T : f[x] \in Int
    PROVE  SumFunctionOnSet(f, T) \in Int
<1> DEFINE Sum(s) == SumFunctionOnSet(f, s)
           P == {s \in SUBSET T : Sum(s) \in Int}
<1>1. ASSUME NEW s \in SUBSET T, \A u \in SUBSET s : u # s => u \in P PROVE s \in P
  <2> DEFINE rest == s \ {Pick(s)}
  <2>1. Sum(s) = IF s = {} THEN 0 ELSE f[Pick(s)] + Sum(rest)
    BY SumStep, FS_Subset
  <2>2. s # {} => f[Pick(s)] \in Int /\ rest \in SUBSET s /\ rest # s
    BY Picked
  <2>3. s # {} => Sum(rest) \in Int
    BY <1>1, <2>2
  <2> HIDE DEF Sum, rest
  <2> QED BY <2>1, <2>2, <2>3
<1>2. P \in SUBSET (SUBSET T)
  OBVIOUS
<1>3. T \in P
  <2> HIDE DEF P
  <2> QED BY <1>1, <1>2, SubsetInduction
<1> QED BY <1>3

\* Any element may be taken out first.
LEMMA SumWithout ==
    ASSUME NEW T, IsFiniteSet(T), NEW f, \A x \in T : f[x] \in Int, NEW x \in T
    PROVE  SumFunctionOnSet(f, T) = f[x] + SumFunctionOnSet(f, T \ {x})
<1> DEFINE Sum(s) == SumFunctionOnSet(f, s)
           P == {s \in SUBSET T : \A y \in s : Sum(s) = f[y] + Sum(s \ {y})}
<1>1. ASSUME NEW s \in SUBSET T, \A u \in SUBSET s : u # s => u \in P, NEW y \in s
      PROVE  Sum(s) = f[y] + Sum(s \ {y})
  <2> DEFINE p == Pick(s)
             rest == (s \ {p}) \ {y}
  <2>1. /\ p \in s /\ f[p] \in Int /\ f[y] \in Int
        /\ IsFiniteSet(s) /\ IsFiniteSet(rest)
        /\ \A z \in rest : f[z] \in Int
    BY FS_Subset, Picked
  <2>2. Sum(s) = f[p] + Sum(s \ {p})
    BY <2>1, SumStep
  <2>3. Sum(rest) \in Int
    <3> HIDE DEF rest
    <3> QED BY <2>1, SumType
  <2>4. CASE y = p
    BY <2>2, <2>4
  <2>5. CASE y # p
    <3>1. s \ {p} \in P /\ s \ {y} \in P
      BY <1>1, <2>1
    <3>2. y \in s \ {p} /\ p \in s \ {y} /\ (s \ {y}) \ {p} = rest
      BY <2>1, <2>5
    <3>3. Sum(s \ {p}) = f[y] + Sum(rest)
      BY <3>1, <3>2
    <3>4. Sum(s \ {y}) = f[p] + Sum(rest)
      BY <3>1, <3>2
    <3> HIDE DEF Sum, rest, p
    <3> QED BY <2>1, <2>2, <2>3, <3>3, <3>4
  <2> QED BY <2>4, <2>5
<1>2. P \in SUBSET (SUBSET T)
  OBVIOUS
<1>3. T \in P
  <2>1. \A s \in SUBSET T : (\A u \in SUBSET s : u # s => u \in P) => s \in P
    BY <1>1
  <2> HIDE DEF P
  <2> QED BY <1>2, <2>1, SubsetInduction
<1> QED BY <1>3

-----------------------------------------------------------------------------
\* Functions that agree on the set have the same sum.
LEMMA SumSame ==
    ASSUME NEW T, IsFiniteSet(T), NEW f, NEW g, \A x \in T : f[x] = g[x]
    PROVE  SumFunctionOnSet(f, T) = SumFunctionOnSet(g, T)
<1> DEFINE F(s) == SumFunctionOnSet(f, s)
           G(s) == SumFunctionOnSet(g, s)
           P == {s \in SUBSET T : F(s) = G(s)}
<1>1. ASSUME NEW s \in SUBSET T, \A u \in SUBSET s : u # s => u \in P PROVE s \in P
  <2> DEFINE rest == s \ {Pick(s)}
  <2>1. /\ F(s) = IF s = {} THEN 0 ELSE f[Pick(s)] + F(rest)
        /\ G(s) = IF s = {} THEN 0 ELSE g[Pick(s)] + G(rest)
    BY SumStep, FS_Subset
  <2>2. s # {} => f[Pick(s)] = g[Pick(s)] /\ rest \in SUBSET s /\ rest # s
    BY Picked
  <2>3. s # {} => F(rest) = G(rest)
    BY <1>1, <2>2
  <2> HIDE DEF F, G, rest
  <2> QED BY <2>1, <2>2, <2>3
<1>2. P \in SUBSET (SUBSET T)
  OBVIOUS
<1>3. T \in P
  <2> HIDE DEF P
  <2> QED BY <1>1, <1>2, SubsetInduction
<1> QED BY <1>3

\* A change at one element changes the sum by as much.
LEMMA SumChange ==
    ASSUME NEW T, IsFiniteSet(T), NEW f, NEW g, NEW x \in T, NEW n \in Int,
           \A y \in T : f[y] \in Int,
           \A y \in T : g[y] = IF y = x THEN f[y] + n ELSE f[y]
    PROVE  SumFunctionOnSet(g, T) = SumFunctionOnSet(f, T) + n
<1> DEFINE rest == T \ {x}
<1>1. /\ IsFiniteSet(rest) /\ \A y \in rest : f[y] \in Int /\ g[y] = f[y]
      /\ \A y \in T : g[y] \in Int
      /\ f[x] \in Int /\ g[x] = f[x] + n
  BY FS_Subset
<1>2. /\ SumFunctionOnSet(f, T) = f[x] + SumFunctionOnSet(f, rest)
      /\ SumFunctionOnSet(g, T) = g[x] + SumFunctionOnSet(g, rest)
  BY <1>1, SumWithout
<1> HIDE DEF rest
<1>3. /\ SumFunctionOnSet(g, rest) = SumFunctionOnSet(f, rest)
      /\ SumFunctionOnSet(f, rest) \in Int
  BY <1>1, SumSame, SumType
<1> QED BY <1>1, <1>2, <1>3

\* Sums add up term by term.
LEMMA SumPlus ==
    ASSUME NEW T, IsFiniteSet(T), NEW f, NEW g, NEW h,
           \A x \in T : f[x] \in Int /\ g[x] \in Int /\ h[x] = f[x] + g[x]
    PROVE  SumFunctionOnSet(h, T) = SumFunctionOnSet(f, T) + SumFunctionOnSet(g, T)
<1> DEFINE F(s) == SumFunctionOnSet(f, s)
           G(s) == SumFunctionOnSet(g, s)
           H(s) == SumFunctionOnSet(h, s)
           P == {s \in SUBSET T : H(s) = F(s) + G(s)}
<1>1. ASSUME NEW s \in SUBSET T, \A u \in SUBSET s : u # s => u \in P PROVE s \in P
  <2> DEFINE rest == s \ {Pick(s)}
  <2>1. /\ F(s) = IF s = {} THEN 0 ELSE f[Pick(s)] + F(rest)
        /\ G(s) = IF s = {} THEN 0 ELSE g[Pick(s)] + G(rest)
        /\ H(s) = IF s = {} THEN 0 ELSE h[Pick(s)] + H(rest)
    BY SumStep, FS_Subset
  <2>2. IsFiniteSet(rest) /\ \A x \in rest : f[x] \in Int /\ g[x] \in Int
    BY FS_Subset
  <2>3. F(rest) \in Int /\ G(rest) \in Int
    <3> HIDE DEF rest
    <3> QED BY <2>2, SumType
  <2>4. s # {} => /\ rest \in SUBSET s /\ rest # s
                  /\ f[Pick(s)] \in Int /\ g[Pick(s)] \in Int
                  /\ h[Pick(s)] = f[Pick(s)] + g[Pick(s)]
    BY Picked
  <2>5. s # {} => H(rest) = F(rest) + G(rest)
    BY <1>1, <2>4
  <2> HIDE DEF F, G, H, rest
  <2> QED BY <2>1, <2>3, <2>4, <2>5
<1>2. P \in SUBSET (SUBSET T)
  OBVIOUS
<1>3. T \in P
  <2> HIDE DEF P
  <2> QED BY <1>1, <1>2, SubsetInduction
<1> QED BY <1>3

\* Nothing adds up to nothing.
LEMMA SumZero ==
    ASSUME NEW T, IsFiniteSet(T), NEW f, \A x \in T : f[x] = 0
    PROVE  SumFunctionOnSet(f, T) = 0
<1>1. SumFunctionOnSet(f, T) \in Int
  BY SumType
<1>2. SumFunctionOnSet(f, T) = SumFunctionOnSet(f, T) + SumFunctionOnSet(f, T)
  BY SumPlus
<1>3. \A z \in Int : z = z + z => z = 0
  OBVIOUS
<1> QED BY <1>1, <1>2, <1>3

-----------------------------------------------------------------------------
\* Sums over the first numbers 0..n.

\* A nonempty set of numbers has a least one.
LEMMA LeastExists ==
    ASSUME NEW S \in SUBSET Nat, S # {}
    PROVE  \E x \in S : \A y \in S : x <= y
<1>1. PICK x \in S : \A y \in S : <<y, x>> \notin OpToRel(<, Nat)
  BY NatLessThanWellFounded, WFMin
<1>2. \A y \in S : ~(y < x)
  BY <1>1 DEF OpToRel
<1> QED BY <1>2

\* The last summand.
LEMMA SumLast ==
    ASSUME NEW n \in Nat, NEW f, \A x \in 0..n : f[x] \in Int
    PROVE  SumFunctionOnSet(f, 0..n) = SumFunctionOnSet(f, 0..(n - 1)) + f[n]
<1>1. n \in 0..n /\ (0..n) \ {n} = 0..(n - 1)
  OBVIOUS
<1>2. IsFiniteSet(0..n) /\ IsFiniteSet(0..(n - 1))
  BY FS_Interval
<1>3. SumFunctionOnSet(f, 0..n) = f[n] + SumFunctionOnSet(f, (0..n) \ {n})
  BY <1>1, <1>2, SumWithout
<1>4. SumFunctionOnSet(f, 0..(n - 1)) \in Int
  BY <1>2, SumType
<1>5. f[n] \in Int
  BY <1>1
<1>6. SumFunctionOnSet(f, 0..n) = f[n] + SumFunctionOnSet(f, 0..(n - 1))
  BY <1>1, <1>3
<1> QED BY <1>4, <1>5, <1>6

\* The summands of f moved on by one place, up to place m.
Shifts(g, f, m) == \A x \in 0..m : f[x] \in Int /\ g[x] = IF x = 0 THEN 0 ELSE f[x - 1]

\* Shifting the summands by one place shifts the sums.
LEMMA SumShifted ==
    ASSUME NEW m \in Nat, NEW f, NEW g, Shifts(g, f, m), NEW n \in 0..m
    PROVE  SumFunctionOnSet(g, 0..n) = SumFunctionOnSet(f, 0..(n - 1))
<1> DEFINE Off == {x \in 0..m :
                      SumFunctionOnSet(g, 0..x) # SumFunctionOnSet(f, 0..(x - 1))}
<1> SUFFICES ASSUME Off # {} PROVE FALSE
  OBVIOUS
<1>1. Off \in SUBSET Nat
  OBVIOUS
<1>2. PICK x \in Off : \A y \in Off : x <= y
  <2> HIDE DEF Off
  <2> QED BY <1>1, LeastExists
<1>3. x \in 0..m /\ x \in Nat /\ \A y \in 0..x : y \in 0..m
  OBVIOUS
<1>4. \A y \in 0..m : /\ f[y] \in Int
                     /\ g[y] = IF y = 0 THEN 0 ELSE f[y - 1]
  BY DEF Shifts
<1>5. \A y \in 0..x : g[y] \in Int
  BY <1>3, <1>4
<1>6. SumFunctionOnSet(g, 0..x) = SumFunctionOnSet(g, 0..(x - 1)) + g[x]
  BY <1>3, <1>5, SumLast
<1>7. CASE x = 0
  <2>1. SumFunctionOnSet(g, {}) = 0 /\ SumFunctionOnSet(f, {}) = 0
    BY SumZero, FS_EmptySet
  <2>2. 0..(x - 1) = {} /\ g[x] = 0
    BY <1>3, <1>7, <1>4
  <2>3. SumFunctionOnSet(f, 0..(x - 1)) = 0 /\ SumFunctionOnSet(g, 0..(x - 1)) = 0
    BY <2>1, <2>2
  <2>4. SumFunctionOnSet(g, 0..x) = 0
    BY <1>6, <2>2, <2>3
  <2> QED BY <2>3, <2>4
<1>8. CASE x # 0
  <2>1. x - 1 \in 0..m /\ x - 1 \in Nat /\ x - 1 \notin Off
    BY <1>2, <1>3, <1>8
  <2>2. SumFunctionOnSet(g, 0..(x - 1)) = SumFunctionOnSet(f, 0..(x - 1 - 1))
    BY <2>1
  <2>3. /\ \A y \in 0..(x - 1) : f[y] \in Int
        /\ g[x] = f[x - 1]
    BY <1>3, <1>8, <1>4
  <2>4. SumFunctionOnSet(f, 0..(x - 1)) = SumFunctionOnSet(f, 0..(x - 1 - 1)) + f[x - 1]
    BY <2>1, <2>3, SumLast
  <2> QED BY <1>3, <1>6, <2>2, <2>3, <2>4
<1> QED BY <1>7, <1>8

\* Sums of natural numbers are natural numbers.
LEMMA SumNatural ==
    ASSUME NEW T, IsFiniteSet(T), NEW f, \A x \in T : f[x] \in Nat
    PROVE  SumFunctionOnSet(f, T) \in Nat
<1> DEFINE Sum(s) == SumFunctionOnSet(f, s)
           P == {s \in SUBSET T : Sum(s) \in Nat}
<1>1. ASSUME NEW s \in SUBSET T, \A u \in SUBSET s : u # s => u \in P PROVE s \in P
  <2> DEFINE rest == s \ {Pick(s)}
  <2>1. Sum(s) = IF s = {} THEN 0 ELSE f[Pick(s)] + Sum(rest)
    BY SumStep, FS_Subset
  <2>2. s # {} => f[Pick(s)] \in Nat /\ rest \in SUBSET s /\ rest # s
    BY Picked
  <2>3. s # {} => Sum(rest) \in Nat
    BY <1>1, <2>2
  <2> HIDE DEF Sum, rest
  <2> QED BY <2>1, <2>2, <2>3
<1>2. P \in SUBSET (SUBSET T)
  OBVIOUS
<1>3. T \in P
  <2> HIDE DEF P
  <2> QED BY <1>1, <1>2, SubsetInduction
<1> QED BY <1>3
=============================================================================
