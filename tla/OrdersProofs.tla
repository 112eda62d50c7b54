----------------------------- MODULE OrdersProofs -----------------------------
(***************************************************************************)
(* Orders and cash, for any capital, any last day, any stores, callers and *)
(* broker views.                                                           *)
(***************************************************************************)
EXTENDS RestartGate, BrokerEvents, FiniteSetTheorems, WellFoundedInduction, TLAPS

-----------------------------------------------------------------------------
(* Sums.  MapThenSumSet adds up a finite set in the order of its CHOOSE; the *)
(* lemmas say that the order does not matter, and how a sum splits.  They    *)
(* argue by a smallest counterexample among the subsets of a finite set.     *)

Chosen(T) == CHOOSE x \in T : TRUE

IsTotal(g, f, S) ==
  g = [T \in SUBSET S |->
         IF T = {} THEN 0 ELSE f[Chosen(T)] + g[T \ {Chosen(T)}]]

Sum(f, S) == MapThenSumSet(LAMBDA d : f[d], S)

LEMMA SumIsTotal ==
  ASSUME NEW f, NEW S
  PROVE  Sum(f, S) = (CHOOSE g : IsTotal(g, f, S))[S]
  BY DEF Sum, MapThenSumSet, MapThenFoldSet, IsTotal, Chosen

LEMMA LotsAreSum ==
  ASSUME NEW l, NEW S
  PROVE  LotsOf(l, S) = Sum(l.lots, S)
  BY DEF LotsOf, Sum, MapThenSumSet, MapThenFoldSet

\* A nonempty family of subsets of a finite set has a smallest member.
LEMMA Smallest ==
  ASSUME NEW S, IsFiniteSet(S), NEW F \in SUBSET (SUBSET S), F # {}
  PROVE  \E T \in F : \A U \in F : U \subseteq T => U = T
<1>1. F \subseteq FiniteSubsetsOf(S)
  BY FS_Subset DEF FiniteSubsetsOf
<1>2. IsWellFoundedOn(StrictSubsetOrdering(S), FiniteSubsetsOf(S))
  BY FS_StrictSubsetOrderingWellFounded
<1>3. PICK T \in F : \A U \in F : <<U, T>> \notin StrictSubsetOrdering(S)
  BY <1>1, <1>2, WFMin
<1>4. ASSUME NEW U \in F, U \subseteq T PROVE U = T
  BY <1>3, <1>4 DEF StrictSubsetOrdering
<1>5. QED
  BY <1>4

LEMMA ChosenIn ==
  ASSUME NEW T, T # {}
  PROVE  Chosen(T) \in T
  BY DEF Chosen

LEMMA TotalAt ==
  ASSUME NEW f, NEW S, NEW g, IsTotal(g, f, S), NEW T \in SUBSET S
  PROVE  g[T] = IF T = {} THEN 0 ELSE f[Chosen(T)] + g[T \ {Chosen(T)}]
  BY DEF IsTotal

\* Two ways to add up the same values agree.
LEMMA TotalsAgree ==
  ASSUME NEW f, NEW S, IsFiniteSet(S), NEW T \in SUBSET S,
         NEW g, IsTotal(g, f, S), NEW h, IsTotal(h, f, T)
  PROVE  \A U \in SUBSET T : g[U] = h[U]
<1> DEFINE F == {U \in SUBSET T : g[U] # h[U]}
<1> SUFFICES ASSUME F # {} PROVE FALSE
  OBVIOUS
<1>1. F \in SUBSET (SUBSET S)
  OBVIOUS
<1>2. PICK U \in F : \A W \in F : W \subseteq U => W = U
  <2> HIDE DEF F
  <2> QED
    BY <1>1, Smallest
<1>3. U \in SUBSET T /\ g[U] # h[U]
  OBVIOUS
<1> DEFINE W == U \ {Chosen(U)}
<1>4. CASE U = {}
  <2>1. {} \in SUBSET S /\ {} \in SUBSET T
    OBVIOUS
  <2>2. g[{}] = 0
    BY ONLY <2>1, TotalAt, IsTotal(g, f, S)
  <2>3. h[{}] = 0
    BY ONLY <2>1, TotalAt, IsTotal(h, f, T)
  <2>4. QED
    BY <1>3, <1>4, <2>2, <2>3
<1>5. CASE U # {}
  <2>1. Chosen(U) \in U
    BY <1>5, ChosenIn
  <2>2. W \subseteq U /\ W # U /\ W \in SUBSET T
    BY <1>3, <2>1
  <2>3. g[W] = h[W]
    BY <1>2, <2>2
  <2>4. g[U] = f[Chosen(U)] + g[W]
    <3>1. U \in SUBSET S /\ IsTotal(g, f, S)
      BY <1>3
    <3>2. g[U] = IF U = {} THEN 0 ELSE f[Chosen(U)] + g[U \ {Chosen(U)}]
      <4> HIDE DEF F, W
      <4> QED
        BY ONLY <3>1, TotalAt
    <3>3. QED
      BY <3>2, <1>5
  <2>5. h[U] = f[Chosen(U)] + h[W]
    <3>1. U \in SUBSET T /\ IsTotal(h, f, T)
      BY <1>3
    <3>2. h[U] = IF U = {} THEN 0 ELSE f[Chosen(U)] + h[U \ {Chosen(U)}]
      <4> HIDE DEF F, W
      <4> QED
        BY ONLY <3>1, TotalAt
    <3>3. QED
      BY <3>2, <1>5
  <2>6. QED
    BY <1>3, <2>3, <2>4, <2>5
<1>6. QED
  BY <1>4, <1>5

LEMMA TotalIsSum ==
  ASSUME NEW f, NEW S, IsFiniteSet(S), NEW g, IsTotal(g, f, S),
         NEW T \in SUBSET S, \E h : IsTotal(h, f, T)
  PROVE  g[T] = Sum(f, T)
<1> DEFINE h == CHOOSE h : IsTotal(h, f, T)
<1>1. IsTotal(h, f, T)
  OBVIOUS
<1>2. g[T] = h[T]
  <2> HIDE DEF h
  <2> QED
    BY <1>1, TotalsAgree
<1>3. QED
  BY <1>2, SumIsTotal

\* The recursive definition of the sum defines a function.
LEMMA TotalExists ==
  ASSUME NEW f, NEW S, IsFiniteSet(S)
  PROVE  \E g : IsTotal(g, f, S)
<1> DEFINE F == {T \in SUBSET S : ~ \E g : IsTotal(g, f, T)}
<1> SUFFICES ASSUME F # {} PROVE FALSE
  OBVIOUS
<1>1. F \in SUBSET (SUBSET S)
  OBVIOUS
<1>2. PICK T \in F : \A U \in F : U \subseteq T => U = T
  <2> HIDE DEF F
  <2> QED
    BY <1>1, Smallest
<1>3. T \in SUBSET S /\ ~ \E g : IsTotal(g, f, T)
  OBVIOUS
<1>4. ASSUME NEW U \in SUBSET T, U # T PROVE \E g : IsTotal(g, f, U)
  BY <1>2, <1>3, <1>4
<1> HIDE DEF F
<1>5. ASSUME NEW U \in SUBSET T, U # T, U # {}
      PROVE  Sum(f, U) = f[Chosen(U)] + Sum(f, U \ {Chosen(U)})
  <2>1. PICK g : IsTotal(g, f, U)
    BY <1>4, <1>5
  <2>2. IsFiniteSet(U)
    BY <1>3, FS_Subset
  <2>3. U \ {Chosen(U)} \in SUBSET U /\ U \ {Chosen(U)} \in SUBSET T /\ U \ {Chosen(U)} # T
    BY <1>5
  <2>4. g[U] = Sum(f, U)
    BY <2>1, <2>2, TotalIsSum
  <2>5. g[U \ {Chosen(U)}] = Sum(f, U \ {Chosen(U)})
    BY <1>4, <2>1, <2>2, <2>3, TotalIsSum
  <2>6. QED
    BY <1>5, <2>1, <2>4, <2>5, TotalAt
<1>6. T # {} => Sum(f, {}) = 0
  <2> SUFFICES ASSUME T # {} PROVE Sum(f, {}) = 0
    OBVIOUS
  <2>1. PICK g : IsTotal(g, f, {})
    BY <1>4
  <2>2. g[{}] = Sum(f, {})
    BY <2>1, FS_EmptySet, TotalIsSum
  <2>3. QED
    BY <2>1, <2>2, TotalAt
<1> DEFINE G == [U \in SUBSET T |->
                   IF U = {} THEN 0 ELSE f[Chosen(U)] + Sum(f, U \ {Chosen(U)})]
<1>7. ASSUME NEW U \in SUBSET T, U # {}
      PROVE  G[U \ {Chosen(U)}] = Sum(f, U \ {Chosen(U)})
  <2> DEFINE W == U \ {Chosen(U)}
  <2>1. Chosen(U) \in U
    BY <1>7, ChosenIn
  <2>2. W \in SUBSET T /\ W # T
    BY <2>1
  <2>3. G[W] = IF W = {} THEN 0 ELSE f[Chosen(W)] + Sum(f, W \ {Chosen(W)})
    BY <2>2
  <2>4. CASE W = {}
    BY <1>6, <1>7, <2>3, <2>4
  <2>5. CASE W # {}
    BY <1>5, <2>2, <2>3, <2>5
  <2>6. QED
    BY <2>4, <2>5
<1>8. IsTotal(G, f, T)
  BY <1>7 DEF IsTotal
<1>9. QED
  BY <1>3, <1>8

LEMMA SumEmpty ==
  ASSUME NEW f
  PROVE  Sum(f, {}) = 0
<1>1. PICK g : IsTotal(g, f, {})
  BY TotalExists, FS_EmptySet
<1>2. QED
  BY <1>1, FS_EmptySet, TotalIsSum, TotalAt

LEMMA SumChosen ==
  ASSUME NEW f, NEW S, IsFiniteSet(S), S # {}
  PROVE  Sum(f, S) = f[Chosen(S)] + Sum(f, S \ {Chosen(S)})
<1>1. PICK g : IsTotal(g, f, S)
  BY TotalExists
<1>2. IsFiniteSet(S \ {Chosen(S)})
  BY FS_RemoveElement
<1>3. \E h : IsTotal(h, f, S \ {Chosen(S)})
  BY <1>2, TotalExists
<1>4. g[S] = Sum(f, S) /\ g[S \ {Chosen(S)}] = Sum(f, S \ {Chosen(S)})
  BY <1>1, <1>3, TotalIsSum
<1>5. QED
  BY <1>1, <1>4, TotalAt

\* The values f gives the elements of S are natural numbers.
Counts(f, S) == \A x \in S : f[x] \in Nat

LEMMA SumIsNat ==
  ASSUME NEW f, NEW S, IsFiniteSet(S), Counts(f, S)
  PROVE  Sum(f, S) \in Nat
<1> DEFINE F == {T \in SUBSET S : Sum(f, T) \notin Nat}
<1> SUFFICES ASSUME F # {} PROVE FALSE
  BY SumEmpty
<1>1. F \in SUBSET (SUBSET S)
  OBVIOUS
<1>2. PICK T \in F : \A U \in F : U \subseteq T => U = T
  <2> HIDE DEF F
  <2> QED
    BY <1>1, Smallest
<1>3. T \in SUBSET S /\ Sum(f, T) \notin Nat
  OBVIOUS
<1>4. T # {}
  BY <1>3, SumEmpty
<1>5. Chosen(T) \in T
  BY <1>4, ChosenIn
<1>6. Sum(f, T \ {Chosen(T)}) \in Nat
  BY <1>2, <1>3, <1>5
<1>7. Sum(f, T) = f[Chosen(T)] + Sum(f, T \ {Chosen(T)})
  BY <1>3, <1>4, FS_Subset, SumChosen
<1>8. QED
  BY <1>3, <1>5, <1>6, <1>7 DEF Counts

\* Any element may be added last.
LEMMA SumAny ==
  ASSUME NEW f, NEW S, IsFiniteSet(S), Counts(f, S), NEW x \in S
  PROVE  Sum(f, S) = f[x] + Sum(f, S \ {x})
<1> DEFINE F == {T \in SUBSET S : \E y \in T : Sum(f, T) # f[y] + Sum(f, T \ {y})}
<1> SUFFICES ASSUME F # {} PROVE FALSE
  OBVIOUS
<1>1. F \in SUBSET (SUBSET S)
  OBVIOUS
<1>2. PICK T \in F : \A U \in F : U \subseteq T => U = T
  <2> HIDE DEF F
  <2> QED
    BY <1>1, Smallest
<1>3. PICK y \in T : Sum(f, T) # f[y] + Sum(f, T \ {y})
  OBVIOUS
<1> DEFINE c == Chosen(T)
<1>4. IsFiniteSet(T) /\ T \in SUBSET S /\ c \in T
  BY FS_Subset, ChosenIn
<1>5. ASSUME NEW U \in SUBSET T, U # T, NEW z \in U
      PROVE  Sum(f, U) = f[z] + Sum(f, U \ {z})
  BY <1>2, <1>4, <1>5
<1> HIDE DEF F
<1>6. Sum(f, T) = f[c] + Sum(f, T \ {c})
  BY <1>4, SumChosen
<1>7. c # y
  BY <1>3, <1>6
<1>8. Sum(f, T \ {c}) = f[y] + Sum(f, (T \ {c}) \ {y})
  <2>1. T \ {c} \in SUBSET T /\ T \ {c} # T /\ y \in T \ {c}
    BY <1>4, <1>7
  <2> HIDE DEF c
  <2>2. QED
    BY <2>1, <1>5
<1>9. Sum(f, T \ {y}) = f[c] + Sum(f, (T \ {y}) \ {c})
  <2>1. T \ {y} \in SUBSET T /\ T \ {y} # T /\ c \in T \ {y}
    BY <1>4, <1>7
  <2> HIDE DEF c
  <2>2. QED
    BY <2>1, <1>5
<1>10. (T \ {c}) \ {y} = (T \ {y}) \ {c}
  OBVIOUS
<1> DEFINE R == Sum(f, (T \ {y}) \ {c})
<1>11. R \in Nat /\ f[c] \in Nat /\ f[y] \in Nat
  <2>1. IsFiniteSet((T \ {y}) \ {c})
    BY <1>4, FS_RemoveElement
  <2>2. Counts(f, (T \ {y}) \ {c})
    BY <1>4 DEF Counts
  <2>3. QED
    BY <1>4, <2>1, <2>2, SumIsNat DEF Counts
<1>12. \A p, q, r \in Nat : p + (q + r) = q + (p + r)
  OBVIOUS
<1>13. f[c] + (f[y] + R) = f[y] + (f[c] + R)
  <2> HIDE DEF R, c
  <2> QED
    BY <1>11, <1>12
<1>14. QED
  BY <1>3, <1>6, <1>8, <1>9, <1>10, <1>13

\* The same values have the same sum.
LEMMA SumSame ==
  ASSUME NEW f, NEW h, NEW S, IsFiniteSet(S), \A x \in S : f[x] = h[x]
  PROVE  Sum(f, S) = Sum(h, S)
<1> DEFINE F == {T \in SUBSET S : Sum(f, T) # Sum(h, T)}
<1> SUFFICES ASSUME F # {} PROVE FALSE
  OBVIOUS
<1>1. F \in SUBSET (SUBSET S)
  OBVIOUS
<1>2. PICK T \in F : \A U \in F : U \subseteq T => U = T
  <2> HIDE DEF F
  <2> QED
    BY <1>1, Smallest
<1>3. T \in SUBSET S /\ Sum(f, T) # Sum(h, T)
  OBVIOUS
<1>4. T # {}
  BY <1>3, SumEmpty
<1>5. Chosen(T) \in T
  BY <1>4, ChosenIn
<1>6. Sum(f, T \ {Chosen(T)}) = Sum(h, T \ {Chosen(T)})
  BY <1>2, <1>3, <1>5
<1>7. Sum(f, T) = f[Chosen(T)] + Sum(f, T \ {Chosen(T)})
  BY <1>3, <1>4, FS_Subset, SumChosen
<1>8. Sum(h, T) = h[Chosen(T)] + Sum(h, T \ {Chosen(T)})
  BY <1>3, <1>4, FS_Subset, SumChosen
<1>9. QED
  BY <1>3, <1>5, <1>6, <1>7, <1>8

LEMMA SumOfZeros ==
  ASSUME NEW f, NEW S, IsFiniteSet(S), \A x \in S : f[x] = 0
  PROVE  Sum(f, S) = 0
<1> DEFINE F == {T \in SUBSET S : Sum(f, T) # 0}
<1> SUFFICES ASSUME F # {} PROVE FALSE
  OBVIOUS
<1>1. F \in SUBSET (SUBSET S)
  OBVIOUS
<1>2. PICK T \in F : \A U \in F : U \subseteq T => U = T
  <2> HIDE DEF F
  <2> QED
    BY <1>1, Smallest
<1>3. T \in SUBSET S /\ Sum(f, T) # 0
  OBVIOUS
<1>4. T # {}
  BY <1>3, SumEmpty
<1>5. Chosen(T) \in T
  BY <1>4, ChosenIn
<1>6. Sum(f, T \ {Chosen(T)}) = 0
  BY <1>2, <1>3, <1>5
<1>7. Sum(f, T) = f[Chosen(T)] + Sum(f, T \ {Chosen(T)})
  BY <1>3, <1>4, FS_Subset, SumChosen
<1>8. QED
  BY <1>3, <1>5, <1>6, <1>7

\* A sum splits along any set.
LEMMA SumSplits ==
  ASSUME NEW f, NEW S, IsFiniteSet(S), Counts(f, S), NEW M
  PROVE  Sum(f, S) = Sum(f, S \cap M) + Sum(f, S \ M)
<1> DEFINE F == {T \in SUBSET S : Sum(f, T) # Sum(f, T \cap M) + Sum(f, T \ M)}
<1> SUFFICES ASSUME F # {} PROVE FALSE
  OBVIOUS
<1>1. F \in SUBSET (SUBSET S)
  OBVIOUS
<1>2. PICK T \in F : \A U \in F : U \subseteq T => U = T
  <2> HIDE DEF F
  <2> QED
    BY <1>1, Smallest
<1>3. T \in SUBSET S /\ Sum(f, T) # Sum(f, T \cap M) + Sum(f, T \ M)
  OBVIOUS
<1>4. T # {}
  <2> SUFFICES ASSUME T = {} PROVE FALSE
    OBVIOUS
  <2>1. T \cap M = {} /\ T \ M = {}
    OBVIOUS
  <2>2. QED
    BY <1>3, <2>1, SumEmpty
<1>5. PICK c : c \in T
  BY <1>4
<1> DEFINE R == T \ {c}
<1>6. Sum(f, R) = Sum(f, R \cap M) + Sum(f, R \ M)
  BY <1>2, <1>3, <1>5
<1> HIDE DEF F
<1>7. /\ IsFiniteSet(T) /\ IsFiniteSet(T \cap M) /\ IsFiniteSet(T \ M)
      /\ IsFiniteSet(R \cap M) /\ IsFiniteSet(R \ M)
  <2>1. IsFiniteSet(T)
    BY <1>3, FS_Subset
  <2>2. IsFiniteSet(R)
    BY <2>1, FS_RemoveElement
  <2> HIDE DEF R
  <2>3. QED
    BY <2>1, <2>2, FS_Intersection, FS_Difference
<1>8. /\ Counts(f, T) /\ Counts(f, T \cap M) /\ Counts(f, T \ M)
      /\ Counts(f, R \cap M) /\ Counts(f, R \ M) /\ f[c] \in Nat
  BY <1>3, <1>5 DEF Counts
<1> DEFINE A == Sum(f, R \cap M)
           B == Sum(f, R \ M)
<1>9. A \in Nat /\ B \in Nat
  <2> HIDE DEF R
  <2> QED
    BY <1>7, <1>8, SumIsNat
<1>10. Sum(f, T) = f[c] + Sum(f, R)
  BY <1>5, <1>7, <1>8, SumAny
<1>11. CASE c \in M
  <2>1. Sum(f, T \cap M) = f[c] + Sum(f, (T \cap M) \ {c})
    BY <1>5, <1>7, <1>8, <1>11, SumAny
  <2>2. (T \cap M) \ {c} = R \cap M /\ T \ M = R \ M
    BY <1>11
  <2>3. f[c] + (A + B) = (f[c] + A) + B
    BY <1>8, <1>9
  <2>4. QED
    BY <1>3, <1>6, <1>10, <2>1, <2>2, <2>3
<1>12. CASE c \notin M
  <2>1. Sum(f, T \ M) = f[c] + Sum(f, (T \ M) \ {c})
    BY <1>5, <1>7, <1>8, <1>12, SumAny
  <2>2. (T \ M) \ {c} = R \ M /\ T \cap M = R \cap M
    BY <1>12
  <2>3. f[c] + (A + B) = A + (f[c] + B)
    BY <1>8, <1>9
  <2>4. QED
    BY <1>3, <1>6, <1>10, <2>1, <2>2, <2>3
<1>13. QED
  BY <1>11, <1>12

-----------------------------------------------------------------------------
(* The cash ledger.  CashCovered is inductive.                             *)

LEMMA DaysAreFinite == IsFiniteSet(Days)
  BY LastDayAssumption, FS_Interval DEF Days

LEMMA LotsCount ==
  ASSUME NEW l \in [Days -> 0..Capital]
  PROVE  \A S \in SUBSET Days : IsFiniteSet(S) /\ Counts(l, S) /\ Sum(l, S) \in Nat
<1> SUFFICES ASSUME NEW S \in SUBSET Days
             PROVE  IsFiniteSet(S) /\ Counts(l, S) /\ Sum(l, S) \in Nat
  OBVIOUS
<1>1. IsFiniteSet(S)
  BY DaysAreFinite, FS_Subset
<1>2. Counts(l, S)
  BY CapitalAssumption DEF Counts
<1>3. QED
  BY <1>1, <1>2, SumIsNat

\* A ledger whose only lot settles on day d.
LEMMA OneLot ==
  ASSUME NEW d \in Days, NEW amount \in 0..Capital
  PROVE  Sum([e \in Days |-> IF e = d THEN amount ELSE 0], Days) = amount
<1> DEFINE l == [e \in Days |-> IF e = d THEN amount ELSE 0]
<1>1. l \in [Days -> 0..Capital]
  BY CapitalAssumption
<1>2. l[d] = amount /\ \A e \in Days \ {d} : l[e] = 0
  OBVIOUS
<1> HIDE DEF l
<1>3. Sum(l, Days) = l[d] + Sum(l, Days \ {d})
  BY <1>1, LotsCount, SumAny
<1>4. Sum(l, Days \ {d}) = 0
  BY <1>1, <1>2, LotsCount, SumOfZeros
<1>5. QED
  <2>1. Sum(l, Days) = amount
    BY <1>2, <1>3, <1>4, CapitalAssumption
  <2>2. QED
    BY <2>1 DEF l

LEMMA InitCash == CashInit => CashCovered
<1> SUFFICES ASSUME CashInit PROVE CashCovered
  OBVIOUS
<1>1. PICK s \in 0..Capital, d \in Days :
        ledger = [settled |-> s, reserved |-> 0,
                  lots |-> [e \in Days |-> IF e = d THEN Capital - s ELSE 0]]
  BY DEF CashInit
<1>2. s \in Nat /\ s <= Capital /\ Capital - s \in 0..Capital
  BY CapitalAssumption
<1>3. Unsettled(ledger) = Capital - s
  BY <1>1, <1>2, OneLot, LotsAreSum DEF Unsettled
<1>4. ledger \in Ledgers
  BY <1>1, <1>2, CapitalAssumption DEF Ledgers
<1>5. today \in Days
  BY LastDayAssumption DEF CashInit, Days
<1>6. QED
  BY <1>1, <1>2, <1>3, <1>4, <1>5, CapitalAssumption DEF CashCovered

\* What a day settles leaves the lots and is added to the settled cash.
LEMMA SettlingMovesCash ==
  ASSUME CashCovered, NEW day, SettleThrough(day)
  PROVE  CashCovered'
<1> DEFINE matured == {d \in Days : d <= day}
           left == [d \in Days |-> IF d \in matured THEN 0 ELSE ledger.lots[d]]
           cash == Sum(ledger.lots, matured)
           rest == Sum(ledger.lots, Days \ matured)
<1>1. /\ ledger \in Ledgers /\ ledger.lots \in [Days -> 0..Capital]
      /\ ledger.settled \in Nat /\ ledger.reserved \in Nat
      /\ ledger.reserved <= ledger.settled
      /\ today \in Days
  BY CapitalAssumption DEF CashCovered, Ledgers
<1>2. cash \in Nat /\ rest \in Nat
  BY <1>1, LotsCount
<1>3. ledger.settled + (cash + rest) = Capital
  <2>1. Days \cap matured = matured
    OBVIOUS
  <2>2. Sum(ledger.lots, Days) = Sum(ledger.lots, Days \cap matured) + rest
    <3>1. IsFiniteSet(Days) /\ Counts(ledger.lots, Days)
      BY <1>1, LotsCount
    <3> HIDE DEF matured
    <3>2. QED
      BY <3>1, SumSplits
  <2>3. QED
    BY <2>1, <2>2, LotsAreSum DEF CashCovered, Unsettled
<1>4. ledger' = [ledger EXCEPT !.settled = @ + cash, !.lots = left]
  BY LotsAreSum DEF SettleThrough
<1>5. left \in [Days -> 0..Capital]
  BY <1>1, CapitalAssumption
<1>6. Sum(left, Days) = rest
  <2>1. Days \cap matured = matured
    OBVIOUS
  <2>2. (\A d \in matured : left[d] = 0) /\ \A d \in Days \ matured : left[d] = ledger.lots[d]
    OBVIOUS
  <2> HIDE DEF left
  <2>3. Sum(left, Days) = Sum(left, Days \cap matured) + Sum(left, Days \ matured)
    BY <1>5, LotsCount, SumSplits
  <2>4. Sum(left, matured) = 0
    BY <1>5, <2>2, LotsCount, SumOfZeros
  <2>5. Sum(left, Days \ matured) = rest
    BY <1>5, <2>2, LotsCount, SumSame
  <2>6. QED
    BY <1>2, <2>1, <2>3, <2>4, <2>5
<1> HIDE DEF left, cash, rest
<1>7. ledger' = [settled |-> ledger.settled + cash, reserved |-> ledger.reserved, lots |-> left]
  BY <1>1, <1>4 DEF Ledgers
<1>8. Unsettled(ledger') = rest
  BY <1>6, <1>7, LotsAreSum DEF Unsettled
<1>9. ledger.settled + cash \in 0..Capital /\ ledger.reserved \in 0..Capital
  BY <1>1, <1>2, <1>3, CapitalAssumption
<1>10. ledger' \in Ledgers
  BY <1>5, <1>7, <1>9 DEF Ledgers
<1>11. today' \in Days
  BY <1>1 DEF SettleThrough
<1>12. ledger'.reserved <= ledger'.settled /\ ledger'.settled + rest = Capital
  BY <1>1, <1>2, <1>3, <1>7, CapitalAssumption
<1>13. QED
  BY <1>8, <1>10, <1>11, <1>12 DEF CashCovered

LEMMA StepCash ==
  ASSUME CashCovered, [CashNext]_cashVars
  PROVE  CashCovered'
<1>1. /\ ledger \in Ledgers /\ ledger.lots \in [Days -> 0..Capital]
      /\ ledger.settled \in 0..Capital /\ ledger.reserved \in 0..Capital
      /\ ledger.reserved <= ledger.settled
      /\ ledger.settled + Unsettled(ledger) = Capital
      /\ today \in Days
  BY DEF CashCovered, Ledgers
<1>2. ASSUME NEW amount \in 1..Capital, Reserve(amount) \/ Release(amount)
      PROVE  CashCovered'
  <2>1. PICK r \in 0..Capital :
          r <= ledger.settled /\ ledger' = [ledger EXCEPT !.reserved = r]
    <3>1. CASE Reserve(amount)
      <4>1. /\ ledger.reserved + amount \in 0..Capital
            /\ ledger.reserved + amount <= ledger.settled
        BY <1>1, <3>1, CapitalAssumption DEF Reserve, Available
      <4>2. QED
        BY <3>1, <4>1 DEF Reserve
    <3>2. CASE Release(amount)
      <4>1. /\ ledger.reserved - amount \in 0..Capital
            /\ ledger.reserved - amount <= ledger.settled
        BY <1>1, <3>2, CapitalAssumption DEF Release
      <4>2. QED
        BY <3>2, <4>1 DEF Release
    <3>3. QED
      BY <1>2, <3>1, <3>2
  <2>2. ledger' = [settled |-> ledger.settled, reserved |-> r, lots |-> ledger.lots]
    BY <1>1, <2>1 DEF Ledgers
  <2>3. Unsettled(ledger') = Unsettled(ledger)
    BY <2>2, LotsAreSum DEF Unsettled
  <2>4. ledger' \in Ledgers
    BY <1>1, <2>2 DEF Ledgers
  <2>5. today' = today
    BY <1>2 DEF Reserve, Release
  <2>6. QED
    BY <1>1, <2>1, <2>2, <2>3, <2>4, <2>5 DEF CashCovered
<1>3. ASSUME Tomorrow PROVE CashCovered'
  <2>1. today' \in Days
    BY <1>1, <1>3, LastDayAssumption DEF Tomorrow, Days
  <2>2. ledger' = ledger
    BY <1>3 DEF Tomorrow
  <2>3. QED
    BY <1>1, <2>1, <2>2 DEF CashCovered
<1>4. ASSUME UNCHANGED cashVars PROVE CashCovered'
  BY <1>1, <1>4 DEF cashVars, CashCovered
<1>5. QED
  BY <1>2, <1>3, <1>4, SettlingMovesCash DEF CashNext

\* Whatever is reserved, released and settled, no money is made or lost and
\* what is promised to orders is settled cash (CashLedger).
THEOREM CashIsCovered == CashSpec => []CashCovered
  BY InitCash, StepCash, PTL DEF CashSpec

-----------------------------------------------------------------------------
(* The broker's events.                                                    *)

SimStatus == Working \cup {"SUBMITTING", "FILLED", "CANCELLED", "REJECTED", Halted}
SimType == [status : SimStatus, filled : 0..1, blocked : BOOLEAN,
            cancel : BOOLEAN, stopped : BOOLEAN]

LEMMA StepSim ==
  ASSUME sim \in SimType, FillWins, [SimNext]_simVars
  PROVE  sim' \in SimType /\ FillWins'
<1> USE DEF SimType, SimStatus, Working, Halted, FillWins
<1>1. ASSUME sim' = Stop PROVE sim' \in SimType /\ FillWins'
  BY <1>1 DEF Stop
<1>2. ASSUME Reject PROVE sim' \in SimType /\ FillWins'
  <2>1. CASE sim.filled = 0
    <3>1. sim' = [sim EXCEPT !.status = "REJECTED"]
      BY <1>2, <2>1 DEF Reject
    <3>2. sim' \in SimType
      BY <3>1
    <3>3. QED
      BY <2>1, <3>1, <3>2
  <2>2. CASE sim.filled = 1
    <3>1. sim' = [sim EXCEPT !.status = Halted, !.blocked = TRUE]
      BY <1>2, <2>2 DEF Reject
    <3>2. sim' \in SimType
      BY <3>1
    <3>3. QED
      BY <2>2, <3>1, <3>2
  <2>3. QED
    BY <2>1, <2>2
<1>3. ASSUME SubmitAck PROVE sim' \in SimType /\ FillWins'
  BY <1>1, <1>3 DEF SubmitAck
<1>4. ASSUME CancelRequested PROVE sim' \in SimType /\ FillWins'
  BY <1>1, <1>4 DEF CancelRequested
<1>5. ASSUME NEW full \in BOOLEAN, Fill(full) PROVE sim' \in SimType /\ FillWins'
  <2>1. CASE sim.status \notin Working
    BY <1>1, <1>5, <2>1 DEF Fill
  <2>2. CASE sim.status \in Working
    <3>1. PICK filled \in 0..1 :
            sim' = [sim EXCEPT !.filled = filled,
                      !.status = IF filled = 1 THEN "FILLED" ELSE "PARTIALLY_FILLED"]
      <4>1. (IF full THEN 1 ELSE sim.filled) \in 0..1
        OBVIOUS
      <4>2. QED
        BY <1>5, <2>2, <4>1 DEF Fill
    <3>2. sim' \in SimType
      BY <3>1
    <3>3. sim'.filled = filled /\ sim'.blocked = sim.blocked
      BY <3>1
    <3>4. sim'.status = IF filled = 1 THEN "FILLED" ELSE "PARTIALLY_FILLED"
      BY <3>1
    <3>5. QED
      BY <3>2, <3>3, <3>4
  <2>3. QED
    BY <2>1, <2>2
<1>6. ASSUME CancelAck PROVE sim' \in SimType /\ FillWins'
  BY <1>1, <1>6 DEF CancelAck
<1>7. ASSUME UNCHANGED simVars PROVE sim' \in SimType /\ FillWins'
  BY <1>7 DEF simVars
<1>8. QED
  BY <1>1, <1>2, <1>3, <1>4, <1>5, <1>6, <1>7 DEF SimNext, Disconnect

\* Whatever the broker says, in whatever order and however often, a filled
\* contract is never cancelled, rejected or open again (BrokerEvents).
THEOREM FillsWin == SimSpec => []FillWins
<1>1. SimInit => sim \in SimType /\ FillWins
  BY DEF SimInit, SimType, SimStatus, FillWins, Working, Halted
<1>2. (sim \in SimType /\ FillWins) /\ [SimNext]_simVars => (sim \in SimType /\ FillWins)'
  BY StepSim
<1>3. QED
  BY <1>1, <1>2, PTL DEF SimSpec

\* An order that blocked new entries blocks them for good: no later event of
\* the history lifts the halt's flag (lines 36-40).
THEOREM BlockIsFinal == SimSpec => [][sim.blocked => sim'.blocked]_simVars
<1>1. sim \in SimType /\ FillWins /\ [SimNext]_simVars
        => [sim.blocked => sim'.blocked]_simVars
  BY DEF SimType, SimNext, Disconnect, Reject, SubmitAck, CancelRequested,
         Fill, CancelAck, Stop
<1>2. SimInit => sim \in SimType /\ FillWins
  BY DEF SimInit, SimType, SimStatus, FillWins, Working, Halted
<1>3. (sim \in SimType /\ FillWins) /\ [SimNext]_simVars => (sim \in SimType /\ FillWins)'
  BY StepSim
<1>4. QED
  BY <1>1, <1>2, <1>3, PTL DEF SimSpec

-----------------------------------------------------------------------------
(* The order store, for a single caller that may die before its rename.    *)

LEMMA CreatedIsState == "INTENT_CREATED" \in States
  BY DEF States

\* A file is there exactly when an order is on disk for the intent.
LEMMA StoredOrder ==
  ASSUME StoreTypeOK, NEW i \in Intents
  PROVE  i \in Stored <=> order[i] \in Orders
  BY StoreAssumption DEF StoreTypeOK, Stored

LEMMA InitStore == StoreInit => StoreInv
  BY StoreAssumption
  DEF StoreInit, StoreInv, StoreTypeOK, DistinctKeys, FilledInFull, CallIsCurrent,
      Stored

\* A caller with a request that passed its checks keeps the files as they are.
LEMMA Requested ==
  ASSUME StoreInv, NEW c \in Callers, NEW new \in Calls,
         call' = [call EXCEPT ![c] = new], UNCHANGED order,
         new.order.state = "FILLED" => new.order.filled = Quantity,
         \A j \in Stored : j = new.intent <=> order[j].key = new.order.key
  PROVE  StoreInv'
<1>1. StoreTypeOK'
  BY DEF StoreInv, StoreTypeOK
<1>2. Stored' = Stored /\ DistinctKeys' /\ FilledInFull'
  BY DEF StoreInv, DistinctKeys, FilledInFull, Stored
<1>3. ASSUME NEW d \in Callers, call'[d] # NoCall
      PROVE  /\ call'[d].order.state = "FILLED" => call'[d].order.filled = Quantity
             /\ \A j \in Stored : j = call'[d].intent <=> order[j].key = call'[d].order.key
  <2>1. CASE d = c
    BY <2>1 DEF StoreInv, StoreTypeOK
  <2>2. CASE d # c
    BY <1>3, <2>2 DEF StoreInv, StoreTypeOK, CallIsCurrent
  <2>3. QED
    BY <2>1, <2>2
<1>4. CallIsCurrent'
  BY <1>2, <1>3 DEF CallIsCurrent
<1>5. QED
  BY <1>1, <1>2, <1>4 DEF StoreInv

\* The rename puts the checked request on disk: the keys stay distinct.
LEMMA Renamed ==
  ASSUME OneCaller, StoreInv, NEW c \in Callers, Replace(c)
  PROVE  /\ StoreInv'
         /\ \A i \in Stored : order'[i] \in Orders /\ order'[i].key = order[i].key
<1> DEFINE i == call[c].intent
           o == call[c].order
<1>1. /\ i \in Intents /\ o \in Orders
      /\ order' = [order EXCEPT ![i] = o]
      /\ call' = [call EXCEPT ![c] = NoCall]
      /\ o.state = "FILLED" => o.filled = Quantity
      /\ \A j \in Stored : j = i <=> order[j].key = o.key
  BY DEF Replace, StoreInv, StoreTypeOK, CallIsCurrent, Calls
<1> HIDE DEF i, o
<1>2. order \in [Intents -> {NoOrder} \cup Orders]
  BY DEF StoreInv, StoreTypeOK
<1>3. order'[i] = o /\ \A j \in Intents \ {i} : order'[j] = order[j]
  BY <1>1, <1>2
<1>4. StoreTypeOK'
  BY <1>1 DEF StoreInv, StoreTypeOK
<1>5. Stored' = Stored \cup {i}
  BY <1>1, <1>2, <1>3, StoreAssumption DEF Stored
<1>6. DistinctKeys'
  BY <1>1, <1>3, <1>5 DEF DistinctKeys, StoreInv, Stored
<1>7. FilledInFull'
  BY <1>1, <1>3, <1>5 DEF FilledInFull, StoreInv, Stored
<1>8. CallIsCurrent'
  BY <1>1 DEF CallIsCurrent, OneCaller, StoreInv, StoreTypeOK
<1>9. \A j \in Stored : order'[j] \in Orders /\ order'[j].key = order[j].key
  BY <1>1, <1>2, <1>3 DEF Stored
<1>10. QED
  BY <1>4, <1>6, <1>7, <1>8, <1>9 DEF StoreInv

LEMMA StepStore ==
  ASSUME OneCaller, StoreInv, [StoreNext]_storeVars
  PROVE  /\ StoreInv'
         /\ \A i \in Stored : order'[i] \in Orders /\ order'[i].key = order[i].key
<1> DEFINE Kept == \A i \in Stored : order'[i] \in Orders /\ order'[i].key = order[i].key
<1>1. UNCHANGED order => Kept
  BY StoredOrder DEF StoreInv, Stored
<1>2. ASSUME NEW c \in Callers, NEW i \in Intents, NEW k \in Keys, Create(c, i, k)
      PROVE  StoreInv' /\ Kept
  <2> DEFINE new == [intent |-> i,
                     order |-> [key |-> k, state |-> "INTENT_CREATED", filled |-> 0]]
  <2>1. new \in Calls
    BY CreatedIsState DEF Calls, Orders, Quantity
  <2>2. \A j \in Stored : j = new.intent <=> order[j].key = new.order.key
    BY <1>2 DEF Create
  <2>3. StoreInv'
    BY <1>2, <2>1, <2>2, Requested DEF Create
  <2>4. QED
    BY <1>1, <1>2, <2>3 DEF Create
<1>3. ASSUME NEW c \in Callers, NEW i \in Intents, NEW s \in States,
             NEW fill \in 0..Quantity, Transition(c, i, s, fill)
      PROVE  StoreInv' /\ Kept
  <2> DEFINE o == [order[i] EXCEPT !.state = s, !.filled = fill]
             new == [intent |-> i, order |-> o]
  <2>1. i \in Stored /\ order[i] \in Orders
    BY <1>3, StoredOrder DEF Transition, StoreInv
  <2>2. o \in Orders /\ o.key = order[i].key /\ o.state = s /\ o.filled = fill
    BY <2>1 DEF Orders
  <2>3. new \in Calls
    BY <2>2 DEF Calls
  <2>4. \A j \in Stored : j = new.intent <=> order[j].key = new.order.key
    BY <2>1, <2>2 DEF StoreInv, DistinctKeys
  <2>5. new.order.state = "FILLED" => new.order.filled = Quantity
    BY <1>3, <2>2 DEF Transition
  <2>6. call' = [call EXCEPT ![c] = new] /\ UNCHANGED order
    BY <1>3 DEF Transition
  <2> HIDE DEF new
  <2>7. StoreInv'
    BY <2>3, <2>4, <2>5, <2>6, Requested
  <2>8. QED
    BY <1>1, <2>6, <2>7
<1>4. ASSUME NEW c \in Callers, Replace(c) PROVE StoreInv' /\ Kept
  BY <1>4, Renamed
<1>5. ASSUME NEW c \in Callers, Die(c) PROVE StoreInv' /\ Kept
  <2>1. UNCHANGED order /\ call' = [call EXCEPT ![c] = NoCall]
    BY <1>5 DEF Die
  <2>2. StoreTypeOK' /\ DistinctKeys' /\ FilledInFull'
    BY <2>1 DEF StoreInv, StoreTypeOK, DistinctKeys, FilledInFull, Stored
  <2>3. CallIsCurrent'
    BY <2>1 DEF StoreInv, StoreTypeOK, CallIsCurrent, Stored
  <2>4. QED
    BY <1>1, <2>1, <2>2, <2>3 DEF StoreInv
<1>6. ASSUME UNCHANGED storeVars PROVE StoreInv' /\ Kept
  <2>1. UNCHANGED <<order, call>>
    BY <1>6 DEF storeVars
  <2>2. StoreInv'
    BY <2>1 DEF StoreInv, StoreTypeOK, DistinctKeys, FilledInFull, CallIsCurrent, Stored
  <2>3. QED
    BY <1>1, <2>1, <2>2
<1>7. QED
  BY <1>2, <1>3, <1>4, <1>5, <1>6 DEF StoreNext

\* What calls cut short at any point leave on disk: well-formed orders, no key
\* twice, and no order filled in part.  It is all a restart assumes.
THEOREM StoreStaysSound == ASSUME OneCaller PROVE StoreSpec => []StoreInv
<1>1. StoreInv /\ [StoreNext]_storeVars => StoreInv'
  BY StepStore
<1>2. QED
  BY <1>1, InitStore, PTL DEF StoreSpec

\* A key names one order for good, however many files and keys there are.
THEOREM KeysNameOneOrder == ASSUME OneCaller PROVE StoreSpec => KeyNamesOneOrder
<1> DEFINE Named == \A i \in Stored :
              /\ order'[i] # NoOrder
              /\ order'[i].key = order[i].key
              /\ \A j \in Intents \ {i} :
                    order'[j] # NoOrder => order'[j].key # order[i].key
<1>1. ASSUME StoreInv, [StoreNext]_storeVars PROVE Named
  <2> SUFFICES ASSUME NEW i \in Stored
               PROVE  /\ order'[i] # NoOrder
                      /\ order'[i].key = order[i].key
                      /\ \A j \in Intents \ {i} :
                            order'[j] # NoOrder => order'[j].key # order[i].key
    OBVIOUS
  <2>1. StoreInv' /\ order'[i] \in Orders /\ order'[i].key = order[i].key
    BY <1>1, StepStore
  <2>2. order'[i] # NoOrder /\ i \in Intents
    BY <2>1, StoreAssumption DEF Stored
  <2>3. QED
    BY <2>1, <2>2 DEF StoreInv, DistinctKeys, Stored
<1>2. StoreInv /\ [StoreNext]_storeVars => [Named]_storeVars
  BY <1>1
<1>3. StoreInv /\ [StoreNext]_storeVars => StoreInv'
  BY StepStore
<1>4. QED
  BY <1>2, <1>3, InitStore, PTL DEF StoreSpec, KeyNamesOneOrder

-----------------------------------------------------------------------------
(* The restart gate, for any store and any ledger.                         *)

\* What the broker holds: it names an order by its key, so no two of its open
\* orders carry the same one.
BrokerInv ==
    /\ brokerOrders \subseteq BrokerOrders /\ IsFiniteSet(brokerOrders)
    /\ \A o, p \in brokerOrders : o.key = p.key => o = p
    /\ brokerPositions \subseteq BrokerPositions /\ IsFiniteSet(brokerPositions)
    /\ armed \in BOOLEAN

LEMMA InitBroker == BrokerInit => BrokerInv
  BY FS_EmptySet DEF BrokerInit, BrokerInv

LEMMA StepBroker ==
  ASSUME BrokerInv, [BrokerNext]_brokerVars
  PROVE  BrokerInv'
<1>1. ASSUME NEW o \in BrokerOrders, BrokerOpens(o) PROVE BrokerInv'
  <2>1. IsFiniteSet(brokerOrders')
    BY <1>1, FS_AddElement DEF BrokerInv, BrokerOpens
  <2>2. QED
    BY <1>1, <2>1 DEF BrokerInv, BrokerOpens
<1>2. ASSUME NEW o \in brokerOrders, NEW p \in BrokerPositions, BrokerFills(o, p)
      PROVE  BrokerInv'
  <2>1. IsFiniteSet(brokerOrders') /\ IsFiniteSet(brokerPositions')
    BY <1>2, FS_AddElement, FS_RemoveElement DEF BrokerInv, BrokerFills
  <2>2. QED
    BY <1>2, <2>1 DEF BrokerInv, BrokerFills
<1>3. ASSUME NEW o \in brokerOrders, BrokerDropsOrder(o) PROVE BrokerInv'
  <2>1. IsFiniteSet(brokerOrders')
    BY <1>3, FS_RemoveElement DEF BrokerInv, BrokerDropsOrder
  <2>2. QED
    BY <1>3, <2>1 DEF BrokerInv, BrokerDropsOrder
<1>4. ASSUME NEW p \in brokerPositions, BrokerClosesPosition(p) PROVE BrokerInv'
  <2>1. IsFiniteSet(brokerPositions')
    BY <1>4, FS_RemoveElement DEF BrokerInv, BrokerClosesPosition
  <2>2. QED
    BY <1>4, <2>1 DEF BrokerInv, BrokerClosesPosition
<1>5. ASSUME Arm \/ EngageKillSwitch PROVE BrokerInv'
  BY <1>5 DEF BrokerInv, Arm, EngageKillSwitch
<1>6. ASSUME UNCHANGED brokerVars PROVE BrokerInv'
  BY <1>6 DEF BrokerInv, brokerVars
<1>7. QED
  BY <1>1, <1>2, <1>3, <1>4, <1>5, <1>6 DEF BrokerNext

\* The reconciliation gives no reason only when it could read both views and
\* what they show is what the store says.
LEMMA NoReasonMeansReconciled ==
  ASSUME BrokerInv, NEW orders \in Views(brokerOrders),
         NEW positions \in Views(brokerPositions),
         ReconcileOnStartup(orders, positions) = {}
  PROVE  /\ orders = brokerOrders /\ positions = brokerPositions
         /\ \A o \in brokerOrders : o.quantity = 1 /\ o.key \in Keys
         /\ \A p \in brokerPositions : p.quantity = 1
         /\ LocalActive = {o.key : o \in brokerOrders}
         /\ LocalPositions = Cardinality(brokerPositions)
         /\ LocalPositions <= 1
<1>1. Unknown \notin {orders, positions}
  BY DEF ReconcileOnStartup
<1>2. orders = brokerOrders /\ positions = brokerPositions
  BY <1>1 DEF Views
<1>3. /\ ~ \E o \in orders : Unknown \in {o.key, o.quantity}
      /\ ~ \E p \in positions : p.quantity = Unknown
      /\ ~ \E o \in orders : o.quantity \notin {1, Unknown}
      /\ ~ \E p \in positions : p.quantity \notin {1, Unknown}
      /\ ~ (Cardinality(positions) > 1)
      /\ LocalActive = {o.key : o \in orders} \ {Unknown}
      /\ LocalPositions = Cardinality(positions)
  BY <1>1 DEF ReconcileOnStartup
<1>4. \A o \in brokerOrders : o.key \in Keys /\ o.quantity = 1
  BY <1>2, <1>3 DEF BrokerInv, BrokerOrders
<1>5. \A p \in brokerPositions : p.quantity = 1
  BY <1>2, <1>3
<1>6. LocalActive = {o.key : o \in brokerOrders}
  BY <1>2, <1>3, <1>4, UnknownAssumption
<1>7. Cardinality(brokerPositions) \in Nat
  BY FS_CardinalityType DEF BrokerInv
<1>8. QED
  BY <1>2, <1>3, <1>4, <1>5, <1>6, <1>7

\* The broker's keys count its orders.
LEMMA KeysCountOrders ==
  ASSUME BrokerInv
  PROVE  Cardinality({o.key : o \in brokerOrders}) = Cardinality(brokerOrders)
<1> DEFINE K == {o.key : o \in brokerOrders}
           f == [o \in brokerOrders |-> o.key]
<1>1. f \in Surjection(brokerOrders, K)
  BY DEF Surjection
<1>2. f \in Injection(brokerOrders, K)
  BY DEF Injection, IsInjective, BrokerInv
<1> HIDE DEF f, K
<1>3. QED
  BY <1>1, <1>2, FS_Surjection DEF BrokerInv, K

LEMMA CashSafeMeansCovered ==
  ASSUME NEW cash \in CashViews, ReconcileCash(cash)
  PROVE  Available(ledger) <= cash.power + Tolerance
  BY DEF ReconcileCash

LEMMA GateSees == BrokerInv => GateSeesEveryExposure
<1> SUFFICES ASSUME BrokerInv,
                    NEW orders \in Views(brokerOrders),
                    NEW positions \in Views(brokerPositions),
                    NEW cashSafe \in BOOLEAN, NEW flags \in Flags
             PROVE  LET gate == StartupGate(ReconcileOnStartup(orders, positions),
                                            cashSafe, flags)
                    IN  /\ gate.observe => ExposureIsLocal /\ cashSafe
                        /\ gate.entry =>
                              /\ gate.observe /\ flags.live /\ ~flags.kill
                              /\ ExecutionBoundary({o.key : o \in brokerOrders},
                                                   Cardinality(brokerPositions)) <=> armed
  BY CashSafeMeansCovered DEF GateSeesEveryExposure
<1> DEFINE gate == StartupGate(ReconcileOnStartup(orders, positions), cashSafe, flags)
<1>1. gate.observe => ReconcileOnStartup(orders, positions) = {} /\ cashSafe
  BY DEF StartupGate
<1>2. gate.entry => gate.observe /\ flags.live /\ ~flags.kill
  BY DEF StartupGate
<1>3. ASSUME gate.observe PROVE ExposureIsLocal
  BY <1>1, <1>3, NoReasonMeansReconciled, KeysCountOrders DEF ExposureIsLocal
<1>4. gate.observe => cashSafe
  BY <1>1
<1>5. ASSUME gate.entry
      PROVE  ExecutionBoundary({o.key : o \in brokerOrders}, Cardinality(brokerPositions))
             <=> armed
  <2>1. /\ \A o \in brokerOrders : o.key \in Keys
        /\ LocalActive = {o.key : o \in brokerOrders}
        /\ LocalPositions = Cardinality(brokerPositions)
        /\ LocalPositions <= 1
    BY <1>1, <1>2, <1>5, NoReasonMeansReconciled
  <2>2. Unknown # {o.key : o \in brokerOrders}
    BY <2>1, UnknownAssumption
  <2>3. Unknown # Cardinality(brokerPositions)
    BY FS_CardinalityType, UnknownAssumption DEF BrokerInv
  <2>4. QED
    BY <1>2, <1>5, <2>1, <2>2, <2>3 DEF ExecutionBoundary, ReconcileOrderState
<1>6. QED
  BY <1>2, <1>3, <1>4, <1>5

\* Whatever the broker, the owner, the store and the ledger do, a gate that
\* lets the system run has seen every exposure (RestartGate).
THEOREM GateSeesExposure == BrokerSpec => []GateSeesEveryExposure
<1>1. BrokerInv /\ [BrokerNext]_brokerVars => BrokerInv'
  BY StepBroker
<1>2. QED
  BY <1>1, InitBroker, GateSees, PTL DEF BrokerSpec
=============================================================================
