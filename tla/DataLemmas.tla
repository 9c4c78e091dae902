-------------------------------- MODULE DataLemmas ---------------------------
(***************************************************************************)
(* Sums over finite sets, for the counters that must cover what is added   *)
(* up elsewhere, and lists, for the orders in which the code offers        *)
(* endpoints, accounts and messages.  FiniteSetsExt defines the sum by     *)
(* recursion on a chosen member: here it is shown that the recursion       *)
(* defines a function, that any member may be taken out first, and what    *)
(* that does to the sum.  Induction is over sets of numbers and sets of    *)
(* sets, by their least members.                                           *)
(***************************************************************************)
EXTENDS Lists, FiniteSetsExt, SequencesExt, FiniteSetTheorems, SequenceTheorems,
        WellFoundedInduction, TLAPS

Total(f, S) == MapThenSumSet(LAMBDA x : f[x], S)

\* The recursion of MapThenSumSet.
Pick(s) == CHOOSE x \in s : TRUE
SumStep(f, g, s) == IF s = {} THEN 0 ELSE f[Pick(s)] + g[s \ {Pick(s)}]
IsSum(f, g, S) == g = [s \in SUBSET S |-> SumStep(f, g, s)]
SumFcn(f, S) == CHOOSE g : IsSum(f, g, S)

LEMMA TotalDef ==
  ASSUME NEW f, NEW S
  PROVE  Total(f, S) = SumFcn(f, S)[S]
BY DEF Total, MapThenSumSet, MapThenFoldSet, SumFcn, IsSum, SumStep, Pick

-----------------------------------------------------------------------------
(* Induction. *)
LEMMA LeastNat ==
  ASSUME NEW T \in SUBSET Nat, T # {}
  PROVE  \E n \in T : \A m \in T : n <= m
<1>1. PICK n \in T : \A m \in T : ~(<<m, n>> \in OpToRel(<, Nat))
  BY WFMin, NatLessThanWellFounded
<1>2. \A m \in T : ~(m < n)
  BY <1>1 DEF OpToRel
<1> QED
  BY <1>2

LEMMA NatSteps ==
  ASSUME NEW T, 0 \in T, \A n \in Nat : n \in T => n + 1 \in T
  PROVE  Nat \subseteq T
<1> DEFINE U == {n \in Nat : n \notin T}
<1>1. SUFFICES ASSUME U # {} PROVE FALSE
  OBVIOUS
<1>2. PICK n \in U : \A m \in U : n <= m
  BY <1>1, LeastNat
<1>3. n # 0 /\ n - 1 \in Nat
  BY <1>2
<1>4. n - 1 \notin U
  BY <1>2, <1>3
<1> QED
  BY <1>2, <1>3, <1>4

Small(S, n) == {s \in SUBSET S : Cardinality(s) <= n}
IsSumUpTo(f, g, S, n) == g = [s \in Small(S, n) |-> SumStep(f, g, s)]

LEMMA Smaller ==
  ASSUME NEW S, IsFiniteSet(S), NEW s \in SUBSET S, s # {}
  PROVE  /\ Pick(s) \in s /\ s \ {Pick(s)} \in SUBSET S
         /\ \A x \in s : Cardinality(s \ {x}) = Cardinality(s) - 1
         /\ Cardinality(s) \in Nat \ {0} /\ IsFiniteSet(s)
<1>1. Pick(s) \in s
  BY DEF Pick
<1>2. IsFiniteSet(s) /\ Cardinality(s) \in Nat
  BY FS_Subset, FS_CardinalityType
<1>3. Cardinality(s) # 0
  BY <1>2, FS_EmptySet
<1>4. \A x \in s : Cardinality(s \ {x}) = Cardinality(s) - 1
  BY <1>2, FS_RemoveElement
<1> QED
  BY <1>1, <1>2, <1>3, <1>4

LEMMA FiniteSteps ==
  ASSUME NEW S, IsFiniteSet(S), NEW T, {} \in T,
         \A s \in SUBSET S : \A x \in S \ s : s \in T => s \cup {x} \in T
  PROVE  S \in T
<1> DEFINE U == {n \in Nat : \A s \in Small(S, n) : s \in T}
<1>1. 0 \in U
  <2>1. \A s \in Small(S, 0) : s = {}
    BY Smaller DEF Small
  <2> QED
    BY <2>1
<1>2. ASSUME NEW n \in Nat, n \in U PROVE n + 1 \in U
  <2>1. ASSUME NEW s \in Small(S, n + 1), s # {} PROVE s \in T
    <3>1. /\ Pick(s) \in s /\ s \ {Pick(s)} \in SUBSET S /\ s \ {Pick(s)} \in Small(S, n)
          /\ s \in SUBSET S
      BY <2>1, Smaller DEF Small
    <3>2. s \ {Pick(s)} \in T /\ Pick(s) \in S \ (s \ {Pick(s)})
      BY <1>2, <3>1
    <3>3. (s \ {Pick(s)}) \cup {Pick(s)} = s
      BY <3>1
    <3>4. (s \ {Pick(s)}) \cup {Pick(s)} \in T
      BY <3>1, <3>2
    <3> QED
      BY <3>3, <3>4
  <2> QED
    BY <2>1
<1>3. Nat \subseteq U
  <2> HIDE DEF U
  <2> QED
    BY <1>1, <1>2, NatSteps
<1>4. Cardinality(S) \in Nat /\ S \in Small(S, Cardinality(S))
  BY FS_CardinalityType DEF Small
<1> QED
  BY <1>3, <1>4

-----------------------------------------------------------------------------
(* The recursion. *)
LEMMA SumExists ==
  ASSUME NEW f, NEW S, IsFiniteSet(S)
  PROVE  IsSum(f, SumFcn(f, S), S)
<1> DEFINE T == {n \in Nat : \E g : IsSumUpTo(f, g, S, n)}
<1>1. 0 \in T
  <2> DEFINE g == [s \in Small(S, 0) |-> 0]
  <2>1. \A s \in Small(S, 0) : s = {}
    BY Smaller DEF Small
  <2>2. \A s \in Small(S, 0) : SumStep(f, g, s) = 0
    BY <2>1 DEF SumStep
  <2>3. g = [s \in Small(S, 0) |-> SumStep(f, g, s)]
    BY <2>2, Zenon
  <2> QED
    BY <2>3 DEF IsSumUpTo
<1>2. ASSUME NEW n \in Nat, n \in T PROVE n + 1 \in T
  <2>1. PICK g : IsSumUpTo(f, g, S, n)
    BY <1>2
  <2> DEFINE h == [s \in Small(S, n + 1) |-> SumStep(f, g, s)]
  <2>2. \A s \in Small(S, n) : h[s] = g[s] /\ s \in Small(S, n + 1)
    <3>1. \A s \in Small(S, n) : s \in Small(S, n + 1)
      BY FS_Subset, FS_CardinalityType DEF Small
    <3>2. \A s \in Small(S, n) : h[s] = SumStep(f, g, s)
      BY <3>1
    <3>3. \A s \in Small(S, n) : g[s] = SumStep(f, g, s)
      BY <2>1 DEF IsSumUpTo
    <3> QED
      BY <3>1, <3>2, <3>3
  <2>3. \A s \in Small(S, n + 1) : s # {} => s \ {Pick(s)} \in Small(S, n)
    BY Smaller DEF Small
  <2> HIDE DEF h
  <2>4. \A s \in Small(S, n + 1) : SumStep(f, g, s) = SumStep(f, h, s)
    BY <2>2, <2>3 DEF SumStep
  <2>5. h = [s \in Small(S, n + 1) |-> SumStep(f, h, s)]
    BY <2>4, Zenon DEF h
  <2> QED
    BY <2>5 DEF IsSumUpTo
<1>3. Cardinality(S) \in Nat /\ Small(S, Cardinality(S)) = SUBSET S
  BY FS_Subset, FS_CardinalityType DEF Small
<1>4. Nat \subseteq T
  <2> HIDE DEF T
  <2> QED
    BY <1>1, <1>2, NatSteps
<1>5. PICK g : IsSumUpTo(f, g, S, Cardinality(S))
  BY <1>3, <1>4
<1>6. IsSum(f, g, S)
  BY <1>3, <1>5 DEF IsSum, IsSumUpTo
<1> QED
  BY <1>6, Zenon DEF SumFcn

LEMMA SumUnfold ==
  ASSUME NEW f, NEW g, NEW S, IsSum(f, g, S), NEW s \in SUBSET S
  PROVE  g[s] = SumStep(f, g, s)
<1>1. g = [r \in SUBSET S |-> SumStep(f, g, r)]
  BY DEF IsSum
<1> QED
  BY <1>1

(* Every member may be taken out, not only the chosen one. *)
LEMMA SumAny ==
  ASSUME NEW f, NEW g, NEW S, IsFiniteSet(S), \A x \in S : f[x] \in Nat, IsSum(f, g, S)
  PROVE  \A s \in SUBSET S : g[s] \in Nat /\ \A x \in s : g[s] = f[x] + g[s \ {x}]
<1> DEFINE Ok(s) == g[s] \in Nat /\ \A x \in s : g[s] = f[x] + g[s \ {x}]
           T == {n \in Nat : \A s \in Small(S, n) : Ok(s)}
<1>1. 0 \in T
  <2>1. ASSUME NEW s \in Small(S, 0) PROVE Ok(s)
    <3>1. s = {} /\ s \in SUBSET S
      BY Smaller DEF Small
    <3>2. g[s] = SumStep(f, g, s)
      BY <3>1, SumUnfold
    <3> QED
      BY <3>1, <3>2 DEF SumStep
  <2> QED
    BY <2>1
<1>2. ASSUME NEW n \in Nat, n \in T PROVE n + 1 \in T
  <2>1. ASSUME NEW s \in Small(S, n + 1), s # {} PROVE Ok(s)
    <3> DEFINE y == Pick(s)
    <3>1. y \in s /\ s \in SUBSET S /\ IsFiniteSet(s)
      BY <2>1, Smaller DEF Small
    <3>2. \A x \in s : s \ {x} \in Small(S, n)
      BY <2>1, Smaller DEF Small
    <3>3. \A x \in s : Ok(s \ {x})
      BY <1>2, <3>2
    <3>4. g[s] = f[y] + g[s \ {y}]
      <4>1. g[s] = SumStep(f, g, s)
        BY <3>1, SumUnfold
      <4> QED
        BY <2>1, <4>1 DEF SumStep
    <3> HIDE DEF y
    <3>5. g[s] \in Nat
      BY <3>1, <3>3, <3>4
    <3>6. ASSUME NEW x \in s PROVE g[s] = f[x] + g[s \ {x}]
      <4>1. CASE x = y
        BY <3>4, <4>1
      <4>2. CASE x # y
        <5>1. g[s \ {y}] = f[x] + g[(s \ {y}) \ {x}] /\ g[s \ {x}] = f[y] + g[(s \ {x}) \ {y}]
          BY <3>1, <3>3, <4>2
        <5>2. (s \ {y}) \ {x} = (s \ {x}) \ {y}
          OBVIOUS
        <5>3. g[(s \ {x}) \ {y}] \in Nat /\ f[x] \in Nat /\ f[y] \in Nat
          <6>1. s \ {x} \in SUBSET S /\ s \ {x} # {} /\ (s \ {x}) \ {y} \in SUBSET S
            BY <3>1, <4>2
          <6>2. Cardinality((s \ {x}) \ {y}) = Cardinality(s \ {x}) - 1 /\ Cardinality(s \ {x}) <= n /\ Cardinality(s \ {x}) \in Nat
            BY <3>1, <3>2, <4>2, <6>1, Smaller DEF Small
          <6>3. (s \ {x}) \ {y} \in Small(S, n)
            BY <6>1, <6>2 DEF Small
          <6> QED
            BY <1>2, <3>1, <6>3
        <5> DEFINE rest == (s \ {x}) \ {y}
        <5>4. g[s \ {y}] = f[x] + g[rest] /\ g[s \ {x}] = f[y] + g[rest] /\ g[rest] \in Nat
          BY <5>1, <5>2, <5>3, Zenon
        <5> HIDE DEF rest
        <5> QED
          BY <3>4, <5>3, <5>4
      <4> QED
        BY <4>1, <4>2
    <3> QED
      BY <3>5, <3>6
  <2>2. ASSUME NEW s \in Small(S, n + 1), s = {} PROVE Ok(s)
    <3>1. g[s] = SumStep(f, g, s)
      BY SumUnfold DEF Small
    <3> QED
      BY <2>2, <3>1 DEF SumStep
  <2> HIDE DEF Ok
  <2> QED
    BY <2>1, <2>2
<1>3. Nat \subseteq T
  <2> HIDE DEF T
  <2> QED
    BY <1>1, <1>2, NatSteps
<1>4. ASSUME NEW s \in SUBSET S PROVE Ok(s)
  <2>1. Cardinality(s) \in Nat
    BY FS_Subset, FS_CardinalityType
  <2>2. s \in Small(S, Cardinality(s))
    BY <2>1 DEF Small
  <2> QED
    BY <1>3, <2>1, <2>2
<1> QED
  BY <1>4

LEMMA SumSame ==
  ASSUME NEW f, NEW g, NEW S, IsFiniteSet(S), IsSum(f, g, S),
         NEW e, NEW h, NEW R, IsSum(e, h, R), R \subseteq S, \A x \in R : f[x] = e[x]
  PROVE  \A s \in SUBSET R : g[s] = h[s]
<1> DEFINE T == {n \in Nat : \A s \in Small(R, n) : g[s] = h[s]}
<1>0. IsFiniteSet(R)
  BY FS_Subset
<1>1. 0 \in T
  <2>1. ASSUME NEW s \in Small(R, 0) PROVE g[s] = h[s]
    <3>1. s = {} /\ s \in SUBSET R /\ s \in SUBSET S
      BY <1>0, Smaller DEF Small
    <3> QED
      BY <3>1, SumUnfold DEF SumStep
  <2> QED
    BY <2>1
<1>2. ASSUME NEW n \in Nat, n \in T PROVE n + 1 \in T
  <2>1. ASSUME NEW s \in Small(R, n + 1) PROVE g[s] = h[s]
    <3>1. s \in SUBSET R /\ s \in SUBSET S
      BY DEF Small
    <3>2. g[s] = SumStep(f, g, s) /\ h[s] = SumStep(e, h, s)
      BY <3>1, SumUnfold
    <3>3. s # {} => Pick(s) \in R /\ s \ {Pick(s)} \in Small(R, n)
      BY <1>0, <2>1, Smaller DEF Small
    <3> QED
      BY <1>2, <3>2, <3>3 DEF SumStep
  <2> QED
    BY <2>1
<1>3. Nat \subseteq T
  <2> HIDE DEF T
  <2> QED
    BY <1>1, <1>2, NatSteps
<1>4. ASSUME NEW s \in SUBSET R PROVE g[s] = h[s]
  <2>1. Cardinality(s) \in Nat
    BY <1>0, FS_Subset, FS_CardinalityType
  <2>2. s \in Small(R, Cardinality(s))
    BY <2>1 DEF Small
  <2> QED
    BY <1>3, <2>1, <2>2
<1> QED
  BY <1>4

-----------------------------------------------------------------------------
(* What a component needs to know of a sum. *)
LEMMA TotalEmpty == ASSUME NEW f PROVE Total(f, {}) = 0
<1>1. IsFiniteSet({})
  BY FS_EmptySet
<1>2. IsSum(f, SumFcn(f, {}), {})
  BY <1>1, SumExists
<1> QED
  BY <1>2, SumUnfold, TotalDef DEF SumStep

LEMMA TotalSame ==
  ASSUME NEW f, NEW e, NEW S, IsFiniteSet(S), \A x \in S : f[x] = e[x]
  PROVE  Total(f, S) = Total(e, S)
<1>1. IsSum(f, SumFcn(f, S), S) /\ IsSum(e, SumFcn(e, S), S)
  BY SumExists
<1>2. SumFcn(f, S)[S] = SumFcn(e, S)[S]
  BY <1>1, SumSame
<1> QED
  BY <1>2, TotalDef

LEMMA TotalRemove ==
  ASSUME NEW f, NEW S, IsFiniteSet(S), \A x \in S : f[x] \in Nat
  PROVE  Total(f, S) \in Nat /\ \A x \in S : Total(f, S) = f[x] + Total(f, S \ {x})
<1>1. IsSum(f, SumFcn(f, S), S)
  BY SumExists
<1>2. /\ SumFcn(f, S)[S] \in Nat
      /\ \A x \in S : SumFcn(f, S)[S] = f[x] + SumFcn(f, S)[S \ {x}]
  BY <1>1, SumAny
<1>3. ASSUME NEW x \in S PROVE SumFcn(f, S)[S \ {x}] = SumFcn(f, S \ {x})[S \ {x}]
  <2>1. IsFiniteSet(S \ {x})
    BY FS_RemoveElement
  <2>2. IsSum(f, SumFcn(f, S \ {x}), S \ {x})
    BY <2>1, SumExists
  <2> QED
    BY <1>1, <2>2, SumSame
<1> QED
  BY <1>2, <1>3, TotalDef

LEMMA TotalAdd ==
  ASSUME NEW f, NEW S, IsFiniteSet(S), NEW x, x \notin S, \A y \in S \cup {x} : f[y] \in Nat
  PROVE  Total(f, S \cup {x}) = f[x] + Total(f, S)
<1>1. IsFiniteSet(S \cup {x}) /\ (S \cup {x}) \ {x} = S
  BY FS_AddElement
<1> QED
  BY <1>1, TotalRemove

LEMMA TotalMonotonic ==
  ASSUME NEW f, NEW e, NEW S, IsFiniteSet(S), NEW R, R \subseteq S,
         \A x \in S : f[x] \in Nat /\ e[x] \in Nat, \A x \in R : e[x] <= f[x]
  PROVE  Total(e, R) <= Total(f, S)
<1> DEFINE T == {s \in SUBSET S : Total(e, s \cap R) <= Total(f, s)}
<1>1. {} \in T
  BY TotalEmpty
<1>2. ASSUME NEW s \in SUBSET S, NEW x \in S \ s, s \in T PROVE s \cup {x} \in T
  <2>1. IsFiniteSet(s) /\ IsFiniteSet(s \cap R) /\ x \notin s \cap R
    BY FS_Subset
  <2>2. Total(f, s \cup {x}) = f[x] + Total(f, s) /\ Total(f, s) \in Nat /\ f[x] \in Nat
    BY <2>1, TotalAdd, TotalRemove
  <2>3. Total(e, s \cap R) \in Nat /\ Total(e, s \cap R) <= Total(f, s)
    BY <1>2, <2>1, TotalRemove
  <2>4. CASE x \in R
    <3>1. (s \cup {x}) \cap R = (s \cap R) \cup {x}
      BY <2>4
    <3>2. Total(e, (s \cap R) \cup {x}) = e[x] + Total(e, s \cap R)
      BY <2>1, TotalAdd
    <3>3. Total(e, (s \cup {x}) \cap R) = e[x] + Total(e, s \cap R)
      BY <3>1, <3>2
    <3>4. e[x] \in Nat /\ e[x] <= f[x]
      BY <2>4
    <3>5. e[x] + Total(e, s \cap R) <= f[x] + Total(f, s)
      BY <2>2, <2>3, <3>4
    <3> QED
      BY <2>2, <3>3, <3>5
  <2>5. CASE x \notin R
    <3>1. (s \cup {x}) \cap R = s \cap R
      BY <2>5
    <3>2. Total(e, s \cap R) <= f[x] + Total(f, s)
      BY <2>2, <2>3
    <3> QED
      BY <2>2, <3>1, <3>2
  <2> QED
    BY <2>4, <2>5
<1>3. S \in T
  <2> HIDE DEF T
  <2> QED
    BY <1>1, <1>2, FiniteSteps
<1>4. S \cap R = R
  OBVIOUS
<1> QED
  BY <1>3, <1>4

LEMMA TotalZero ==
  ASSUME NEW f, NEW S, IsFiniteSet(S), \A x \in S : f[x] = 0
  PROVE  Total(f, S) = 0
<1> DEFINE T == {s \in SUBSET S : Total(f, s) = 0}
<1>1. {} \in T
  BY TotalEmpty
<1>2. ASSUME NEW s \in SUBSET S, NEW x \in S \ s, s \in T PROVE s \cup {x} \in T
  <2>1. IsFiniteSet(s)
    BY FS_Subset
  <2>2. Total(f, s \cup {x}) = f[x] + Total(f, s)
    BY <2>1, TotalAdd
  <2> QED
    BY <1>2, <2>2
<1>3. S \in T
  <2> HIDE DEF T
  <2> QED
    BY <1>1, <1>2, FiniteSteps
<1> QED
  BY <1>3

-----------------------------------------------------------------------------
(* Lists. *)
SubStep(s, S, f, i) ==
  IF i = 0 THEN <<>> ELSE IF s[i] \in S THEN Append(f[i - 1], s[i]) ELSE f[i - 1]
IsSub(s, S, f) == f = [i \in 0 .. Len(s) |-> SubStep(s, S, f, i)]
SubFcn(s, S) == CHOOSE f : IsSub(s, S, f)

LEMMA SublistDef ==
  ASSUME NEW s, NEW S
  PROVE  Sublist(s, S) = SubFcn(s, S)[Len(s)]
BY DEF Sublist, SubFcn, IsSub, SubStep

LEMMA SubExists ==
  ASSUME NEW X, NEW s \in Seq(X), NEW S
  PROVE  \A i \in 0 .. Len(s) : SubFcn(s, S)[i] = SubStep(s, S, SubFcn(s, S), i)
<1> DEFINE T == {n \in Nat : \E f : f = [i \in 0 .. n |-> SubStep(s, S, f, i)]}
<1>1. 0 \in T
  <2> DEFINE f == [i \in 0 .. 0 |-> <<>>]
  <2>1. \A i \in 0 .. 0 : SubStep(s, S, f, i) = <<>>
    BY DEF SubStep
  <2>2. f = [i \in 0 .. 0 |-> SubStep(s, S, f, i)]
    BY <2>1, Zenon
  <2> QED
    BY <2>2
<1>2. ASSUME NEW n \in Nat, n \in T PROVE n + 1 \in T
  <2>1. PICK f : f = [i \in 0 .. n |-> SubStep(s, S, f, i)]
    BY <1>2
  <2> DEFINE g == [i \in 0 .. n + 1 |-> SubStep(s, S, f, i)]
  <2>2. \A i \in 0 .. n : g[i] = f[i]
    <3>1. \A i \in 0 .. n : i \in 0 .. n + 1
      OBVIOUS
    <3>2. \A i \in 0 .. n : g[i] = SubStep(s, S, f, i)
      BY <3>1
    <3>3. \A i \in 0 .. n : f[i] = SubStep(s, S, f, i)
      BY <2>1
    <3> QED
      BY <3>2, <3>3
  <2>3. \A i \in 0 .. n + 1 : i # 0 => i - 1 \in 0 .. n
    OBVIOUS
  <2> HIDE DEF g
  <2>4. \A i \in 0 .. n + 1 : SubStep(s, S, f, i) = SubStep(s, S, g, i)
    BY <2>2, <2>3 DEF SubStep
  <2>5. g = [i \in 0 .. n + 1 |-> SubStep(s, S, g, i)]
    BY <2>4, Zenon DEF g
  <2> QED
    BY <2>5
<1>3. Nat \subseteq T
  <2> HIDE DEF T
  <2> QED
    BY <1>1, <1>2, NatSteps
<1>4. Len(s) \in Nat
  BY LenProperties
<1>5. \E f : IsSub(s, S, f)
  BY <1>3, <1>4 DEF IsSub
<1>6. IsSub(s, S, SubFcn(s, S))
  BY <1>5, Zenon DEF SubFcn
<1> QED
  BY <1>6 DEF IsSub

Upto(s, i) == {s[j] : j \in 1 .. i}

(* A sublist has the members that belong to the set. *)
LEMMA SublistMembers ==
  ASSUME NEW X, NEW s \in Seq(X), NEW S
  PROVE  /\ Sublist(s, S) \in Seq(X)
         /\ ToSet(Sublist(s, S)) = ToSet(s) \cap S
         /\ Len(s) > 0 /\ s[1] \in S => Sublist(s, S) # <<>> /\ Sublist(s, S)[1] = s[1]
<1> DEFINE f == SubFcn(s, S)
           Ok(i) == /\ f[i] \in Seq(X)
                    /\ ToSet(f[i]) = Upto(s, i) \cap S
                    /\ i > 0 /\ s[1] \in S => f[i] # <<>> /\ f[i][1] = s[1]
           T == {n \in Nat : n <= Len(s) => Ok(n)}
<1>a. Len(s) \in Nat /\ DOMAIN s = 1 .. Len(s) /\ \A j \in 1 .. Len(s) : s[j] \in X
  BY LenProperties, ElementOfSeq
<1>b. \A i \in 0 .. Len(s) : f[i] = SubStep(s, S, f, i)
  BY SubExists
<1> HIDE DEF f
<1>1. 0 \in T
  <2>1. f[0] = <<>>
    BY <1>a, <1>b DEF SubStep
  <2>2. <<>> \in Seq(X) /\ DOMAIN <<>> = {} /\ ToSet(<<>>) = {}
    BY EmptySeq DEF ToSet
  <2>3. Upto(s, 0) = {}
    BY DEF Upto
  <2>4. Ok(0)
    BY <2>1, <2>2, <2>3
  <2> QED
    BY <2>4
<1>2. ASSUME NEW n \in Nat, n \in T PROVE n + 1 \in T
  <2> SUFFICES ASSUME n + 1 <= Len(s) PROVE Ok(n + 1)
    OBVIOUS
  <2>1. Ok(n) /\ n + 1 \in 1 .. Len(s) /\ n + 1 \in 0 .. Len(s) /\ n + 1 # 0 /\ (n + 1) - 1 = n
    BY <1>2, <1>a
  <2>2. f[n + 1] = IF s[n + 1] \in S THEN Append(f[n], s[n + 1]) ELSE f[n]
    BY <1>b, <2>1 DEF SubStep
  <2>3. Upto(s, n + 1) = Upto(s, n) \cup {s[n + 1]}
    <3>1. 1 .. n + 1 = (1 .. n) \cup {n + 1}
      OBVIOUS
    <3> QED
      BY <3>1 DEF Upto
  <2>4. CASE s[n + 1] \notin S
    <3>1. f[n + 1] = f[n]
      BY <2>2, <2>4
    <3>2. s[1] \in S => n > 0
      BY <2>4
    <3> QED
      BY <2>1, <2>3, <2>4, <3>1, <3>2
  <2>5. CASE s[n + 1] \in S
    <3>1. f[n + 1] = Append(f[n], s[n + 1]) /\ s[n + 1] \in X /\ f[n] \in Seq(X) /\ Len(f[n]) \in Nat
      BY <1>a, <2>1, <2>2, <2>5, LenProperties
    <3>2. /\ f[n + 1] \in Seq(X) /\ Len(f[n + 1]) = Len(f[n]) + 1
          /\ \A j \in 1 .. Len(f[n]) : f[n + 1][j] = f[n][j]
          /\ f[n + 1][Len(f[n]) + 1] = s[n + 1]
      BY <3>1, AppendProperties
    <3>3. DOMAIN f[n + 1] = 1 .. Len(f[n]) + 1 /\ DOMAIN f[n] = 1 .. Len(f[n])
      BY <3>1, <3>2, LenProperties
    <3>4. ToSet(f[n + 1]) = ToSet(f[n]) \cup {s[n + 1]}
      <4>1. ToSet(f[n + 1]) \subseteq ToSet(f[n]) \cup {s[n + 1]}
        BY <3>1, <3>2, <3>3 DEF ToSet
      <4>2. ToSet(f[n]) \subseteq ToSet(f[n + 1])
        BY <3>1, <3>2, <3>3 DEF ToSet
      <4>3. s[n + 1] \in ToSet(f[n + 1])
        <5>1. Len(f[n]) + 1 \in DOMAIN f[n + 1]
          BY <3>1, <3>3
        <5> QED
          BY <3>2, <5>1 DEF ToSet
      <4> QED
        BY <4>1, <4>2, <4>3
    <3>5. f[n + 1] # <<>>
      <4>1. Len(f[n + 1]) # 0
        BY <3>1, <3>2
      <4> QED
        BY <4>1
    <3>6. s[1] \in S => f[n + 1][1] = s[1]
      <4>1. CASE n = 0
        <5>1. Upto(s, n) = {}
          BY <4>1 DEF Upto
        <5>2. ToSet(f[n]) = {}
          BY <2>1, <5>1
        <5>3. Len(f[n]) = 0
          <6>1. \A j \in 1 .. Len(f[n]) : f[n][j] \in ToSet(f[n])
            BY <3>3 DEF ToSet
          <6> QED
            BY <3>1, <5>2, <6>1
        <5> QED
          BY <3>2, <4>1, <5>3
      <4>2. CASE n > 0
        <5>1. s[1] \in S => f[n] # <<>> /\ f[n][1] = s[1]
          BY <2>1, <4>2
        <5>2. f[n] # <<>> => Len(f[n]) > 0
          BY <3>1, EmptySeq
        <5> QED
          BY <3>1, <3>2, <5>1, <5>2
      <4> QED
        BY <4>1, <4>2
    <3> QED
      BY <2>1, <2>3, <2>5, <3>2, <3>4, <3>5, <3>6
  <2> QED
    BY <2>4, <2>5
<1>3. Nat \subseteq T
  <2> HIDE DEF T
  <2> QED
    BY <1>1, <1>2, NatSteps
<1>4. Ok(Len(s))
  BY <1>3, <1>a
<1>5. ToSet(s) = Upto(s, Len(s))
  BY <1>a DEF ToSet, Upto
<1>6. Sublist(s, S) = f[Len(s)]
  BY SublistDef DEF f
<1> QED
  BY <1>4, <1>5, <1>6

(* SetToSeq lists every member. *)
LEMMA ListOfSet ==
  ASSUME NEW S, IsFiniteSet(S)
  PROVE  /\ SetToSeq(S) \in Seq(S)
         /\ ToSet(SetToSeq(S)) = S
<1> DEFINE n == Cardinality(S)
           All == {f \in [1 .. n -> S] : IsInjective(f)}
           q == CHOOSE f \in [1 .. n -> S] : IsInjective(f)
<1>1. n \in Nat /\ \E f : f \in Bijection(1 .. n, S)
  BY FS_CardinalityType DEF ExistsBijection
<1>2. \E f \in [1 .. n -> S] : IsInjective(f)
  BY <1>1 DEF Bijection, Injection
<1>3. q \in [1 .. n -> S] /\ IsInjective(q)
  <2> HIDE DEF n
  <2> QED
    BY <1>2, Zenon
<1>4. SetToSeq(S) = q
  BY DEF SetToSeq
<1> HIDE DEF q, n
<1>5. q \in Injection(1 .. n, S)
  BY <1>3 DEF Injection
<1>6. IsFiniteSet(1 .. n) /\ Cardinality(1 .. n) = n
  BY <1>1, FS_Interval
<1>7. q \in Surjection(1 .. n, S)
  BY <1>5, <1>6, FS_Injection DEF n
<1>8. q \in Seq(S) /\ DOMAIN q = 1 .. n
  BY <1>1, <1>3, SeqDef
<1>9. ToSet(q) = S
  BY <1>3, <1>7, <1>8 DEF ToSet, Surjection
<1> QED
  BY <1>4, <1>8, <1>9

(* Concatenation, and lists of lists put together. *)
FlatStep(s, f, i) == IF i = 1 THEN s[i] ELSE f[i - 1] \o s[i]
IsFlat(s, f, n) == f = [i \in 1 .. n |-> FlatStep(s, f, i)]
FlatFcn(s) == CHOOSE f : IsFlat(s, f, Len(s))

LEMMA FlatDef ==
  ASSUME NEW s
  PROVE  FlattenSeq(s) = IF Len(s) = 0 THEN s ELSE FlatFcn(s)[Len(s)]
BY DEF FlattenSeq, FlatFcn, IsFlat, FlatStep

LEMMA FlatExists ==
  ASSUME NEW X, NEW s \in Seq(X)
  PROVE  \A i \in 1 .. Len(s) : FlatFcn(s)[i] = FlatStep(s, FlatFcn(s), i)
<1> DEFINE T == {n \in Nat : \E f : IsFlat(s, f, n)}
<1>1. 0 \in T
  <2> DEFINE f == [i \in 1 .. 0 |-> <<>>]
  <2>1. IsFlat(s, f, 0)
    BY DEF IsFlat
  <2> QED
    BY <2>1
<1>2. ASSUME NEW n \in Nat, n \in T PROVE n + 1 \in T
  <2>1. PICK f : f = [i \in 1 .. n |-> FlatStep(s, f, i)]
    BY <1>2 DEF IsFlat
  <2> DEFINE g == [i \in 1 .. n + 1 |-> FlatStep(s, f, i)]
  <2>2. \A i \in 1 .. n : g[i] = f[i]
    <3>1. \A i \in 1 .. n : i \in 1 .. n + 1
      OBVIOUS
    <3>2. \A i \in 1 .. n : g[i] = FlatStep(s, f, i)
      BY <3>1
    <3>3. \A i \in 1 .. n : f[i] = FlatStep(s, f, i)
      BY <2>1
    <3> QED
      BY <3>2, <3>3
  <2>3. \A i \in 1 .. n + 1 : i # 1 => i - 1 \in 1 .. n
    OBVIOUS
  <2> HIDE DEF g
  <2>4. \A i \in 1 .. n + 1 : FlatStep(s, f, i) = FlatStep(s, g, i)
    BY <2>2, <2>3 DEF FlatStep
  <2>5. g = [i \in 1 .. n + 1 |-> FlatStep(s, g, i)]
    BY <2>4, Zenon DEF g
  <2> QED
    BY <2>5 DEF IsFlat
<1>3. Nat \subseteq T
  <2> HIDE DEF T
  <2> QED
    BY <1>1, <1>2, NatSteps
<1>4. Len(s) \in Nat
  BY LenProperties
<1>5. \E f : IsFlat(s, f, Len(s))
  BY <1>3, <1>4
<1>6. IsFlat(s, FlatFcn(s), Len(s))
  BY <1>5, Zenon DEF FlatFcn
<1> QED
  BY <1>6 DEF IsFlat

LEMMA ConcatMembers ==
  ASSUME NEW X, NEW s \in Seq(X), NEW t \in Seq(X)
  PROVE  s \o t \in Seq(X) /\ ToSet(s \o t) = ToSet(s) \cup ToSet(t)
<1>1. /\ s \o t \in Seq(X) /\ Len(s \o t) = Len(s) + Len(t)
      /\ \A i \in 1 .. Len(s) + Len(t) : (s \o t)[i] = IF i <= Len(s) THEN s[i] ELSE t[i - Len(s)]
  BY ConcatProperties
<1>2. /\ Len(s) \in Nat /\ Len(t) \in Nat
      /\ DOMAIN s = 1 .. Len(s) /\ DOMAIN t = 1 .. Len(t) /\ DOMAIN (s \o t) = 1 .. Len(s) + Len(t)
  BY <1>1, LenProperties
<1>3. ToSet(s \o t) \subseteq ToSet(s) \cup ToSet(t)
  <2>1. ASSUME NEW i \in 1 .. Len(s) + Len(t) PROVE (s \o t)[i] \in ToSet(s) \cup ToSet(t)
    <3>1. CASE i <= Len(s)
      <4>1. i \in 1 .. Len(s) /\ (s \o t)[i] = s[i]
        BY <1>1, <1>2, <3>1
      <4> QED
        BY <1>2, <4>1 DEF ToSet
    <3>2. CASE ~(i <= Len(s))
      <4>1. i - Len(s) \in 1 .. Len(t) /\ (s \o t)[i] = t[i - Len(s)]
        BY <1>1, <1>2, <3>2
      <4> QED
        BY <1>2, <4>1 DEF ToSet
    <3> QED
      BY <3>1, <3>2
  <2> QED
    BY <1>2, <2>1 DEF ToSet
<1>4. ToSet(s) \subseteq ToSet(s \o t)
  <2>1. ASSUME NEW i \in 1 .. Len(s) PROVE i \in DOMAIN (s \o t) /\ (s \o t)[i] = s[i]
    BY <1>1, <1>2
  <2> QED
    BY <1>2, <2>1 DEF ToSet
<1>5. ToSet(t) \subseteq ToSet(s \o t)
  <2>1. ASSUME NEW i \in 1 .. Len(t)
        PROVE  i + Len(s) \in DOMAIN (s \o t) /\ (s \o t)[i + Len(s)] = t[i]
    <3>1. i + Len(s) \in 1 .. Len(s) + Len(t) /\ ~(i + Len(s) <= Len(s)) /\ (i + Len(s)) - Len(s) = i
      BY <1>2
    <3> QED
      BY <1>1, <1>2, <3>1
  <2> QED
    BY <1>2, <2>1 DEF ToSet
<1> QED
  BY <1>1, <1>3, <1>4, <1>5

(* A list of lists, each with members of a set, flattened. *)
LEMMA FlattenMembers ==
  ASSUME NEW X, NEW Y, NEW s \in Seq(Seq(X)), \A i \in 1 .. Len(s) : ToSet(s[i]) \subseteq Y
  PROVE  FlattenSeq(s) \in Seq(X) /\ ToSet(FlattenSeq(s)) \subseteq Y
<1> DEFINE f == FlatFcn(s)
           Ok(i) == f[i] \in Seq(X) /\ ToSet(f[i]) \subseteq Y
           T == {n \in Nat : n \in 1 .. Len(s) => Ok(n)}
<1>a. Len(s) \in Nat /\ DOMAIN s = 1 .. Len(s) /\ \A j \in 1 .. Len(s) : s[j] \in Seq(X)
  BY LenProperties, ElementOfSeq
<1>b. \A i \in 1 .. Len(s) : f[i] = FlatStep(s, f, i)
  BY FlatExists
<1> HIDE DEF f
<1>1. 0 \in T
  OBVIOUS
<1>2. ASSUME NEW n \in Nat, n \in T PROVE n + 1 \in T
  <2> SUFFICES ASSUME n + 1 \in 1 .. Len(s) PROVE Ok(n + 1)
    OBVIOUS
  <2>1. f[n + 1] = IF n + 1 = 1 THEN s[n + 1] ELSE f[n] \o s[n + 1]
    <3>1. (n + 1) - 1 = n
      OBVIOUS
    <3> QED
      BY <1>b, <3>1 DEF FlatStep
  <2>2. s[n + 1] \in Seq(X) /\ ToSet(s[n + 1]) \subseteq Y
    BY <1>a
  <2>3. CASE n + 1 = 1
    BY <2>1, <2>2, <2>3
  <2>4. CASE n + 1 # 1
    <3>1. n \in 1 .. Len(s)
      BY <1>a, <2>4
    <3>2. f[n] \in Seq(X) /\ ToSet(f[n]) \subseteq Y
      BY <1>2, <3>1
    <3>3. f[n + 1] = f[n] \o s[n + 1]
      BY <2>1, <2>4
    <3>4. f[n] \o s[n + 1] \in Seq(X) /\ ToSet(f[n] \o s[n + 1]) = ToSet(f[n]) \cup ToSet(s[n + 1])
      BY <2>2, <3>2, ConcatMembers
    <3> QED
      BY <2>2, <3>2, <3>3, <3>4
  <2> QED
    BY <2>3, <2>4
<1>3. Nat \subseteq T
  <2> HIDE DEF T
  <2> QED
    BY <1>1, <1>2, NatSteps
<1>4. CASE Len(s) = 0
  <2>1. FlattenSeq(s) = s /\ s = <<>>
    BY <1>4, FlatDef, EmptySeq
  <2>2. <<>> \in Seq(X) /\ ToSet(<<>>) = {}
    BY EmptySeq DEF ToSet
  <2> QED
    BY <2>1, <2>2
<1>5. CASE Len(s) # 0
  <2>1. Len(s) \in 1 .. Len(s) /\ FlattenSeq(s) = FlatFcn(s)[Len(s)]
    BY <1>5, <1>a, FlatDef
  <2>2. Ok(Len(s))
    BY <1>3, <1>a, <2>1
  <2> QED
    BY <2>1, <2>2 DEF f
<1> QED
  BY <1>4, <1>5

(* The members of a sublist stand in the order of the list. *)
Embeds(s, t, n) ==
  \E h \in [1 .. Len(t) -> 1 .. n] :
    /\ \A j \in 1 .. Len(t) : t[j] = s[h[j]]
    /\ \A i, j \in 1 .. Len(t) : i < j => h[i] < h[j]

LEMMA SublistEmbeds ==
  ASSUME NEW X, NEW s \in Seq(X), NEW S
  PROVE  Sublist(s, S) \in Seq(X) /\ Embeds(s, Sublist(s, S), Len(s))
<1> DEFINE f == SubFcn(s, S)
           T == {n \in Nat : n \in 0 .. Len(s) => f[n] \in Seq(X) /\ Embeds(s, f[n], n)}
<1>a. Len(s) \in Nat
  BY LenProperties
<1>b. \A i \in 0 .. Len(s) : f[i] = SubStep(s, S, f, i)
  BY SubExists
<1> HIDE DEF f
<1>1. 0 \in T
  <2>1. f[0] = <<>>
    <3>1. 0 \in 0 .. Len(s)
      BY <1>a
    <3> QED
      BY <1>b, <3>1 DEF SubStep
  <2>2. <<>> \in Seq(X) /\ Len(<<>>) = 0
    BY EmptySeq
  <2>3. Embeds(s, <<>>, 0)
    <3>1. [i \in {} |-> 0] \in [1 .. 0 -> 1 .. 0]
      OBVIOUS
    <3> QED
      BY <2>2, <3>1 DEF Embeds
  <2> QED
    BY <2>1, <2>2, <2>3
<1>2. ASSUME NEW n \in Nat, n \in T PROVE n + 1 \in T
  <2> SUFFICES ASSUME n + 1 \in 0 .. Len(s) PROVE f[n + 1] \in Seq(X) /\ Embeds(s, f[n + 1], n + 1)
    OBVIOUS
  <2>1. n \in 0 .. Len(s) /\ n + 1 \in 1 .. Len(s) /\ (n + 1) - 1 = n /\ n + 1 # 0
    BY <1>a
  <2>2. f[n + 1] = IF s[n + 1] \in S THEN Append(f[n], s[n + 1]) ELSE f[n]
    BY <1>b, <2>1 DEF SubStep
  <2>3. f[n] \in Seq(X) /\ Embeds(s, f[n], n)
    BY <1>2, <2>1
  <2> DEFINE m == Len(f[n])
  <2>4. m \in Nat
    BY <2>3, LenProperties
  <2>5. PICK h \in [1 .. m -> 1 .. n] :
          /\ \A j \in 1 .. m : f[n][j] = s[h[j]]
          /\ \A i, j \in 1 .. m : i < j => h[i] < h[j]
    BY <2>3 DEF Embeds
  <2>6. CASE s[n + 1] \in S
    <3> DEFINE t == Append(f[n], s[n + 1])
               g == [j \in 1 .. m + 1 |-> IF j = m + 1 THEN n + 1 ELSE h[j]]
    <3>1. s[n + 1] \in X
      BY <2>1, ElementOfSeq
    <3>2. /\ t \in Seq(X) /\ Len(t) = m + 1 /\ t[m + 1] = s[n + 1]
          /\ \A j \in 1 .. m : t[j] = f[n][j]
      BY <2>3, <3>1, AppendProperties
    <3> HIDE DEF m, t
    <3>3. \A j \in 1 .. m + 1 : j = m + 1 \/ (j \in 1 .. m /\ j # m + 1)
      BY <2>4
    <3>4. \A j \in 1 .. m : h[j] \in 1 .. n
      BY <2>5
    <3>5. g \in [1 .. m + 1 -> 1 .. n + 1]
      <4>1. \A j \in 1 .. m + 1 : (IF j = m + 1 THEN n + 1 ELSE h[j]) \in 1 .. n + 1
        BY <3>3, <3>4
      <4> QED
        BY <4>1
    <3>6. \A j \in 1 .. m + 1 : g[j] = IF j = m + 1 THEN n + 1 ELSE h[j]
      OBVIOUS
    <3> HIDE DEF g
    <3>7. \A j \in 1 .. m + 1 : t[j] = s[g[j]]
      BY <2>5, <3>2, <3>3, <3>6
    <3>8. ASSUME NEW i \in 1 .. m + 1, NEW j \in 1 .. m + 1, i < j PROVE g[i] < g[j]
      <4>1. i \in 1 .. m /\ i # m + 1
        BY <2>4, <3>8
      <4>2. g[i] = h[i] /\ h[i] \in 1 .. n
        BY <3>4, <3>6, <4>1
      <4>3. CASE j = m + 1
        <5>1. g[j] = n + 1
          BY <3>6, <4>3
        <5> QED
          BY <4>2, <5>1
      <4>4. CASE j # m + 1
        <5>1. j \in 1 .. m /\ g[j] = h[j]
          BY <3>3, <3>6, <4>4
        <5> QED
          BY <2>5, <3>8, <4>1, <4>2, <5>1
      <4> QED
        BY <4>3, <4>4
    <3>9. Embeds(s, t, n + 1)
      BY <3>2, <3>5, <3>7, <3>8 DEF Embeds
    <3> QED
      BY <2>2, <2>6, <3>2, <3>9 DEF t
  <2>7. CASE s[n + 1] \notin S
    <3>1. h \in [1 .. m -> 1 .. n + 1]
      <4>1. 1 .. n \subseteq 1 .. n + 1
        OBVIOUS
      <4> HIDE DEF m
      <4> QED
        BY <2>5, <4>1
    <3>2. Embeds(s, f[n], n + 1)
      BY <2>5, <3>1 DEF Embeds
    <3> QED
      BY <2>2, <2>3, <2>7, <3>2
  <2> QED
    BY <2>6, <2>7
<1>3. Nat \subseteq T
  <2> HIDE DEF T
  <2> QED
    BY <1>1, <1>2, NatSteps
<1>4. f[Len(s)] \in Seq(X) /\ Embeds(s, f[Len(s)], Len(s))
  <2>1. Len(s) \in 0 .. Len(s)
    BY <1>a
  <2> QED
    BY <1>3, <1>a, <2>1
<1>5. Sublist(s, S) = f[Len(s)]
  BY SublistDef DEF f
<1> QED
  BY <1>4, <1>5

(* A list of lists keeps the order R of its members when it is flattened:  *)
(* R holds within the lists and from a list to the later ones.             *)
OrderedBy(R, s) == \A i, j \in 1 .. Len(s) : i < j => <<s[i], s[j]>> \in R

LEMMA ConcatOrdered ==
  ASSUME NEW X, NEW s \in Seq(X), NEW t \in Seq(X), NEW R,
         OrderedBy(R, s), OrderedBy(R, t), \A x \in ToSet(s), y \in ToSet(t) : <<x, y>> \in R
  PROVE  OrderedBy(R, s \o t)
<1> DEFINE u == s \o t
<1>1. /\ Len(u) = Len(s) + Len(t)
      /\ \A i \in 1 .. Len(s) + Len(t) : u[i] = IF i <= Len(s) THEN s[i] ELSE t[i - Len(s)]
  BY ConcatProperties
<1>2. Len(s) \in Nat /\ Len(t) \in Nat /\ DOMAIN s = 1 .. Len(s) /\ DOMAIN t = 1 .. Len(t)
  BY LenProperties
<1> HIDE DEF u
<1>3. ASSUME NEW i \in 1 .. Len(u), NEW j \in 1 .. Len(u), i < j PROVE <<u[i], u[j]>> \in R
  <2>1. i \in 1 .. Len(s) + Len(t) /\ j \in 1 .. Len(s) + Len(t)
    BY <1>1
  <2>2. CASE j <= Len(s)
    <3>1. i \in 1 .. Len(s) /\ j \in 1 .. Len(s) /\ i <= Len(s)
      BY <1>2, <1>3, <2>1, <2>2
    <3>2. u[i] = s[i] /\ u[j] = s[j]
      BY <1>1, <2>1, <2>2, <3>1
    <3> QED
      BY <1>3, <3>1, <3>2 DEF OrderedBy
  <2>3. CASE i <= Len(s) /\ ~(j <= Len(s))
    <3>1. i \in 1 .. Len(s) /\ j - Len(s) \in 1 .. Len(t)
      BY <1>2, <2>1, <2>3
    <3>2. u[i] = s[i] /\ u[j] = t[j - Len(s)]
      BY <1>1, <2>1, <2>3
    <3>3. s[i] \in ToSet(s) /\ t[j - Len(s)] \in ToSet(t)
      BY <1>2, <3>1 DEF ToSet
    <3> QED
      BY <3>2, <3>3
  <2>4. CASE ~(i <= Len(s))
    <3>1. /\ i - Len(s) \in 1 .. Len(t) /\ j - Len(s) \in 1 .. Len(t)
          /\ i - Len(s) < j - Len(s) /\ ~(j <= Len(s))
      BY <1>2, <1>3, <2>1, <2>4
    <3>2. u[i] = t[i - Len(s)] /\ u[j] = t[j - Len(s)]
      BY <1>1, <2>1, <2>4, <3>1
    <3> QED
      BY <3>1, <3>2 DEF OrderedBy
  <2> QED
    BY <1>2, <2>1, <2>2, <2>3, <2>4
<1> QED
  BY <1>3 DEF OrderedBy, u

LEMMA FlattenOrdered ==
  ASSUME NEW X, NEW s \in Seq(Seq(X)), NEW R,
         \A a \in 1 .. Len(s) : OrderedBy(R, s[a]),
         \A a, b \in 1 .. Len(s) : a < b => \A x \in ToSet(s[a]), y \in ToSet(s[b]) : <<x, y>> \in R
  PROVE  OrderedBy(R, FlattenSeq(s))
<1> DEFINE f == FlatFcn(s)
           Below(n) == UNION {ToSet(s[a]) : a \in 1 .. n}
           Ok(n) == f[n] \in Seq(X) /\ ToSet(f[n]) \subseteq Below(n) /\ OrderedBy(R, f[n])
           T == {n \in Nat : n \in 1 .. Len(s) => Ok(n)}
<1>a. Len(s) \in Nat /\ DOMAIN s = 1 .. Len(s) /\ \A j \in 1 .. Len(s) : s[j] \in Seq(X)
  BY LenProperties, ElementOfSeq
<1>b. \A i \in 1 .. Len(s) : f[i] = FlatStep(s, f, i)
  BY FlatExists
<1> HIDE DEF f
<1>1. 0 \in T
  OBVIOUS
<1>2. ASSUME NEW n \in Nat, n \in T PROVE n + 1 \in T
  <2> SUFFICES ASSUME n + 1 \in 1 .. Len(s) PROVE Ok(n + 1)
    OBVIOUS
  <2>1. f[n + 1] = IF n + 1 = 1 THEN s[n + 1] ELSE f[n] \o s[n + 1]
    <3>1. (n + 1) - 1 = n
      OBVIOUS
    <3> QED
      BY <1>b, <3>1 DEF FlatStep
  <2>2. s[n + 1] \in Seq(X) /\ OrderedBy(R, s[n + 1])
    BY <1>a
  <2>3. ToSet(s[n + 1]) \subseteq Below(n + 1)
    <3>1. n + 1 \in 1 .. n + 1
      OBVIOUS
    <3> QED
      BY <3>1
  <2>4. CASE n + 1 = 1
    <3>1. f[n + 1] = s[n + 1]
      BY <2>1, <2>4
    <3> HIDE DEF Below
    <3> QED
      BY <2>2, <2>3, <3>1
  <2>5. CASE n + 1 # 1
    <3>1. n \in 1 .. Len(s)
      BY <1>a, <2>5
    <3>2. Ok(n)
      BY <1>2, <3>1
    <3>3. f[n + 1] = f[n] \o s[n + 1]
      BY <2>1, <2>5
    <3>4. Below(n) \subseteq Below(n + 1)
      <4>1. \A a \in 1 .. n : a \in 1 .. n + 1
        OBVIOUS
      <4> QED
        BY <4>1
    <3>5. \A x \in Below(n), y \in ToSet(s[n + 1]) : <<x, y>> \in R
      <4>1. ASSUME NEW x \in Below(n), NEW y \in ToSet(s[n + 1]) PROVE <<x, y>> \in R
        <5>1. PICK a \in 1 .. n : x \in ToSet(s[a])
          OBVIOUS
        <5>2. a \in 1 .. Len(s) /\ a < n + 1
          BY <1>a
        <5> QED
          BY <5>1, <5>2
      <4> QED
        BY <4>1
    <3> HIDE DEF Below
    <3>6. \A x \in ToSet(f[n]), y \in ToSet(s[n + 1]) : <<x, y>> \in R
      BY <3>2, <3>5
    <3>7. OrderedBy(R, f[n] \o s[n + 1])
      BY <2>2, <3>2, <3>6, ConcatOrdered
    <3>8. f[n] \o s[n + 1] \in Seq(X) /\ ToSet(f[n] \o s[n + 1]) = ToSet(f[n]) \cup ToSet(s[n + 1])
      BY <2>2, <3>2, ConcatMembers
    <3> QED
      BY <2>3, <3>2, <3>3, <3>4, <3>7, <3>8
  <2> QED
    BY <2>4, <2>5
<1>3. Nat \subseteq T
  <2> HIDE DEF T
  <2> QED
    BY <1>1, <1>2, NatSteps
<1>4. CASE Len(s) = 0
  <2>1. Len(FlattenSeq(s)) = 0
    BY <1>4, FlatDef
  <2> QED
    BY <2>1 DEF OrderedBy
<1>5. CASE Len(s) # 0
  <2>1. Len(s) \in 1 .. Len(s) /\ FlattenSeq(s) = FlatFcn(s)[Len(s)]
    BY <1>5, <1>a, FlatDef
  <2>2. Ok(Len(s))
    BY <1>3, <1>a, <2>1
  <2> QED
    BY <2>1, <2>2 DEF f
<1> QED
  BY <1>4, <1>5

(* Sums over two sets without common members; greatest numbers. *)
LEMMA TotalUnion ==
  ASSUME NEW f, NEW S, NEW R, IsFiniteSet(S), IsFiniteSet(R), S \cap R = {}, \A x \in S \cup R : f[x] \in Nat
  PROVE  Total(f, S \cup R) = Total(f, S) + Total(f, R)
<1> DEFINE T == {s \in SUBSET R : Total(f, S \cup s) = Total(f, S) + Total(f, s)}
<1>0. Total(f, S) \in Nat
  BY TotalRemove
<1>1. {} \in T
  <2>1. S \cup {} = S
    OBVIOUS
  <2> QED
    BY <1>0, <2>1, TotalEmpty
<1>2. ASSUME NEW s \in SUBSET R, NEW x \in R \ s, s \in T PROVE s \cup {x} \in T
  <2>1. IsFiniteSet(s) /\ IsFiniteSet(S \cup s)
    BY FS_Subset, FS_Union
  <2>2. x \notin S \cup s /\ (\A y \in (S \cup s) \cup {x} : f[y] \in Nat) /\ (\A y \in s \cup {x} : f[y] \in Nat)
    OBVIOUS
  <2>3. Total(f, (S \cup s) \cup {x}) = f[x] + Total(f, S \cup s)
    BY <2>1, <2>2, TotalAdd
  <2>4. Total(f, s \cup {x}) = f[x] + Total(f, s)
    BY <2>1, <2>2, TotalAdd
  <2>5. Total(f, s) \in Nat /\ f[x] \in Nat
    BY <2>1, <2>2, TotalRemove
  <2>6. S \cup (s \cup {x}) = (S \cup s) \cup {x}
    OBVIOUS
  <2>7. Total(f, S \cup s) = Total(f, S) + Total(f, s)
    BY <1>2
  <2>8. Total(f, S \cup (s \cup {x})) = Total(f, S) + Total(f, s \cup {x})
    <3>1. Total(f, S \cup (s \cup {x})) = f[x] + (Total(f, S) + Total(f, s))
      BY <2>3, <2>6, <2>7
    <3> QED
      BY <1>0, <2>4, <2>5, <3>1
  <2> QED
    BY <2>8
<1>3. R \in T
  <2> HIDE DEF T
  <2> QED
    BY <1>1, <1>2, FiniteSteps
<1> QED
  BY <1>3

LEMMA GreatestNat ==
  ASSUME NEW n \in Nat, NEW T \in SUBSET (0 .. n), T # {}
  PROVE  \E m \in T : \A k \in T : k <= m
<1> DEFINE U == {x \in Nat : n - x \in T}
<1>1. PICK k \in T : TRUE
  OBVIOUS
<1>2. k \in 0 .. n /\ n - k \in Nat /\ n - (n - k) = k
  OBVIOUS
<1>3. n - k \in U
  BY <1>1, <1>2
<1>4. PICK x \in U : \A y \in U : x <= y
  BY <1>3, LeastNat
<1>5. n - x \in T
  BY <1>4
<1>6. ASSUME NEW l \in T PROVE l <= n - x
  <2>1. n - l \in Nat /\ n - (n - l) = l /\ l \in 0 .. n
    OBVIOUS
  <2>2. n - l \in U
    BY <2>1
  <2>3. x <= n - l /\ x \in Nat
    BY <1>4, <2>2
  <2> QED
    BY <2>1, <2>3
<1> QED
  BY <1>5, <1>6

=============================================================================
