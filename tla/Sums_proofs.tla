----------------------------- MODULE Sums_proofs -----------------------------
(***************************************************************************)
(* What the proofs of several modules need of sums over finite sets, of    *)
(* smallest elements, and of products and quotients.                       *)
(***************************************************************************)
EXTENDS Integers, FiniteSets, WellFoundedInduction, FiniteSetTheorems, TLAPS

-----------------------------------------------------------------------------
(* Sums over finite sets.  The fold of a set is a recursive function on    *)
(* its subsets: that there is one, that there is only one, and what it     *)
(* returns is shown on a smallest subset that would be an exception.       *)

Pick(s) == CHOOSE x \in s : TRUE
Rest(s) == s \ {Pick(s)}
IsSum(f, S, g) == g = [s \in SUBSET S |-> IF s = {} THEN 0 ELSE f[Pick(s)] + g[Rest(s)]]

LEMMA Smallest ==
  ASSUME NEW S, IsFiniteSet(S), NEW Odd \in SUBSET (SUBSET S), Odd # {}
  PROVE  \E s \in Odd : \A t \in SUBSET s : t # s => t \notin Odd
<1>1. Odd \subseteq FiniteSubsetsOf(S)
  BY FS_FiniteSubsetsOfFinite
<1>2. PICK s \in Odd : \A t \in Odd : <<t, s>> \notin StrictSubsetOrdering(S)
  BY <1>1, FS_StrictSubsetOrderingWellFounded, WFMin
<1>3. ASSUME NEW t \in SUBSET s, t # s, t \in Odd PROVE FALSE
  <2>1. s \in SUBSET S /\ t \in SUBSET S
    BY <1>2, <1>3
  <2>2. <<t, s>> \in StrictSubsetOrdering(S)
    BY <1>3, <2>1 DEF StrictSubsetOrdering
  <2> QED
    BY <1>2, <1>3, <2>2
<1> QED
  BY <1>2, <1>3

LEMMA RestSmaller ==
  ASSUME NEW s, s # {}
  PROVE  Pick(s) \in s /\ Rest(s) \in SUBSET s /\ Rest(s) # s
BY DEF Pick, Rest

LEMMA SumSteps ==
  ASSUME NEW f, NEW S, NEW g, IsSum(f, S, g), NEW s \in SUBSET S
  PROVE  g[s] = IF s = {} THEN 0 ELSE f[Pick(s)] + g[Rest(s)]
<1> DEFINE body(r) == IF r = {} THEN 0 ELSE f[Pick(r)] + g[Rest(r)]
<1>1. g = [r \in SUBSET S |-> body(r)]
  BY DEF IsSum
<1> HIDE DEF body
<1>2. g[s] = body(s)
  BY <1>1
<1> QED
  BY <1>2 DEF body

LEMMA SumsAgree ==
  ASSUME NEW f, NEW S, IsFiniteSet(S), NEW T, NEW g, NEW h, IsSum(f, S, g), IsSum(f, T, h),
         NEW R \in SUBSET (S \cap T)
  PROVE  g[R] = h[R]
<1> DEFINE Odd == {s \in SUBSET R : g[s] # h[s]}
<1> SUFFICES ASSUME Odd # {} PROVE FALSE
  OBVIOUS
<1>1. IsFiniteSet(R)
  BY FS_Subset
<1>2. PICK s \in Odd : \A t \in SUBSET s : t # s => t \notin Odd
  <2>1. Odd \in SUBSET (SUBSET R)
    OBVIOUS
  <2> HIDE DEF Odd
  <2> QED
    BY <1>1, <2>1, Smallest
<1>3. s \in SUBSET S /\ s \in SUBSET T /\ s \in SUBSET R
  OBVIOUS
<1>4. CASE s = {}
  BY <1>3, <1>4, SumSteps
<1>5. CASE s # {}
  <2>1. Rest(s) \in SUBSET R /\ g[Rest(s)] = h[Rest(s)]
    BY <1>2, <1>3, <1>5, RestSmaller
  <2>2. g[s] = f[Pick(s)] + g[Rest(s)] /\ h[s] = f[Pick(s)] + h[Rest(s)]
    BY <1>3, <1>5, SumSteps
  <2> QED
    BY <2>1, <2>2
<1> QED
  BY <1>4, <1>5

LEMMA SumExists ==
  ASSUME NEW f, NEW S, IsFiniteSet(S)
  PROVE  \E g : IsSum(f, S, g)
<1> DEFINE Odd == {s \in SUBSET S : ~ \E g : IsSum(f, s, g)}
<1> SUFFICES ASSUME Odd # {} PROVE FALSE
  OBVIOUS
<1>1. PICK S0 \in Odd : \A t \in SUBSET S0 : t # S0 => t \notin Odd
  <2>1. Odd \in SUBSET (SUBSET S)
    OBVIOUS
  <2> HIDE DEF Odd
  <2> QED
    BY <2>1, Smallest
<1>2. S0 \in SUBSET S /\ IsFiniteSet(S0)
  BY FS_Subset
<1> DEFINE of(r) == CHOOSE g : IsSum(f, r, g)
           value(s) == IF s = {} THEN 0 ELSE f[Pick(s)] + of(Rest(s))[Rest(s)]
           h == [s \in SUBSET S0 |-> value(s)]
<1>3. ASSUME NEW r \in SUBSET S0, r # S0 PROVE IsSum(f, r, of(r))
  <2>1. \E g : IsSum(f, r, g)
    BY <1>1, <1>2, <1>3
  <2> QED
    BY <2>1
<1> HIDE DEF of, Odd
<1>4. ASSUME NEW r \in SUBSET S0, r # S0 PROVE of(r)[r] = value(r)
  <2>1. CASE r = {}
    BY <1>3, <1>4, <2>1, SumSteps
  <2>2. CASE r # {}
    <3>1. Rest(r) \in SUBSET r /\ Rest(r) \in SUBSET S0 /\ Rest(r) # S0
      BY <2>2, RestSmaller
    <3>2. of(r)[r] = f[Pick(r)] + of(r)[Rest(r)]
      BY <1>3, <1>4, <2>2, SumSteps
    <3>3. of(r)[Rest(r)] = of(Rest(r))[Rest(r)]
      <4>1. IsSum(f, r, of(r)) /\ IsSum(f, Rest(r), of(Rest(r))) /\ IsFiniteSet(r)
        BY <1>2, <1>3, <1>4, <3>1, FS_Subset
      <4>2. Rest(r) \in SUBSET (r \cap Rest(r))
        BY <3>1
      <4> QED
        BY <4>1, <4>2, SumsAgree
    <3> QED
      BY <2>2, <3>2, <3>3
  <2> QED
    BY <2>1, <2>2
<1>5. ASSUME NEW s \in SUBSET S0
      PROVE  value(s) = IF s = {} THEN 0 ELSE f[Pick(s)] + h[Rest(s)]
  <2>1. CASE s # {}
    <3>1. Rest(s) \in SUBSET S0 /\ Rest(s) # S0
      BY <2>1, RestSmaller
    <3>2. h[Rest(s)] = value(Rest(s))
      BY <3>1
    <3> QED
      BY <1>4, <2>1, <3>1, <3>2
  <2> QED
    BY <2>1
<1> DEFINE body(s) == IF s = {} THEN 0 ELSE f[Pick(s)] + h[Rest(s)]
<1>6. h = [s \in SUBSET S0 |-> body(s)]
  <2>1. \A s \in SUBSET S0 : value(s) = body(s)
    BY <1>5
  <2> HIDE DEF value, body
  <2> QED
    BY <2>1
<1>7. IsSum(f, S0, h)
  BY <1>6 DEF IsSum
<1> HIDE DEF h
<1> QED
  BY <1>7 DEF Odd

LEMMA SumTyped ==
  ASSUME NEW f, NEW S, IsFiniteSet(S), NEW g, IsSum(f, S, g), \A x \in S : f[x] \in Nat
  PROVE  g[S] \in Nat
<1> DEFINE Odd == {s \in SUBSET S : g[s] \notin Nat}
<1> SUFFICES ASSUME Odd # {} PROVE FALSE
  OBVIOUS
<1>1. PICK s \in Odd : \A t \in SUBSET s : t # s => t \notin Odd
  <2>1. Odd \in SUBSET (SUBSET S)
    OBVIOUS
  <2> HIDE DEF Odd
  <2> QED
    BY <2>1, Smallest
<1>2. s # {}
  <2>1. g[s] # 0
    OBVIOUS
  <2>2. s = {} => g[s] = 0
    BY SumSteps
  <2> QED
    BY <2>1, <2>2
<1>3. Rest(s) \in SUBSET S /\ g[Rest(s)] \in Nat /\ f[Pick(s)] \in Nat
  BY <1>1, <1>2, RestSmaller
<1>4. g[s] = f[Pick(s)] + g[Rest(s)]
  BY <1>2, SumSteps
<1> QED
  BY <1>3, <1>4

-----------------------------------------------------------------------------
(* Numbers.                                                                *)

\* a set of naturals has a least element
LEMMA LeastNatural ==
  ASSUME NEW ids \in SUBSET Nat, ids # {}
  PROVE  \E id \in ids : \A other \in ids : id <= other
<1>1. IsWellFoundedOn({ss \in Nat \X Nat : ss[1] < ss[2]}, Nat)
  BY NatLessThanWellFounded DEF OpToRel
<1>2. PICK id \in ids : \A other \in ids : ~(<<other, id>> \in {ss \in Nat \X Nat : ss[1] < ss[2]})
  BY <1>1, WFMin
<1>3. ASSUME NEW other \in ids PROVE id <= other
  <2>1. <<other, id>> \in Nat \X Nat /\ ~(other < id)
    BY <1>2
  <2> QED
    BY <2>1
<1> QED
  BY <1>3

\* products and quotients, which the solver does not know of by itself
LEMMA ProductIsMonotone ==
  ASSUME NEW a \in Nat, NEW b \in Nat, NEW k \in Nat, a <= b
  PROVE  a * k \in Nat /\ b * k \in Nat /\ a * k <= b * k
<1>1. PICK d \in Nat : b = a + d
  <2>1. b - a \in Nat /\ b = a + (b - a)
    OBVIOUS
  <2> QED
    BY <2>1
<1>2. b * k = a * k + d * k
  BY <1>1
<1>3. d * k \in Nat /\ a * k \in Nat
  OBVIOUS
<1> QED
  BY <1>2, <1>3

LEMMA QuotientTyped ==
  ASSUME NEW a \in Nat, NEW d \in Nat, d > 0
  PROVE  a \div d \in Nat
<1>1. a \div d \in Int /\ a % d \in 0..(d - 1) /\ a = (d * (a \div d)) + (a % d)
  OBVIOUS
<1> QED
  BY <1>1

\* and so is what is left of a division
LEMMA QuotientIsMonotone ==
  ASSUME NEW a \in Nat, NEW b \in Nat, NEW d \in Nat, d > 0, a <= b
  PROVE  a \div d \in Nat /\ b \div d \in Nat /\ a \div d <= b \div d
<1>1. PICK p \in Nat : p = a \div d
  <2>1. a \div d \in Nat
    BY QuotientTyped
  <2> QED
    BY <2>1
<1>2. PICK q \in Nat : q = b \div d
  <2>1. b \div d \in Nat
    BY QuotientTyped
  <2> QED
    BY <2>1
<1>3. d * p <= a
  BY <1>1
<1>4. b < d * (q + 1)
  BY <1>2
<1>5. p <= q
  <2> SUFFICES ASSUME q + 1 <= p PROVE FALSE
    OBVIOUS
  <2>1. (q + 1) * d <= p * d /\ (q + 1) * d \in Nat /\ p * d \in Nat
    BY ProductIsMonotone
  <2>2. d * p = p * d /\ d * (q + 1) = (q + 1) * d
    OBVIOUS
  <2> QED
    BY <1>3, <1>4, <2>1, <2>2
<1> QED
  BY <1>1, <1>2, <1>5
=============================================================================
