-------------------------- MODULE CalibrationProofs --------------------------
(***************************************************************************)
(* Proofs about Calibration, for every table of settled bets, every unit,  *)
(* bucket width and minimal sample, and any number of requests.  They rest *)
(* on what sums over finite sets do, which is proved first.                *)
(***************************************************************************)
EXTENDS Calibration, UnitOfWorkProofs, FiniteSetTheorems, WellFoundedInduction

-----------------------------------------------------------------------------
(* Induction over finite sets, on sets of sets rather than on predicates. *)

LEMMA MinimalSubset ==
  ASSUME NEW S, IsFiniteSet(S), NEW X, X \subseteq SUBSET S, X # {}
  PROVE  \E m \in X : \A t \in X : t \subseteq m => t = m
<1>1. IsWellFoundedOn(StrictSubsetOrdering(S), SUBSET S)
  BY FS_StrictSubsetOrderingWellFounded, FS_FiniteSubsetsOfFinite
<1>2. PICK m \in X : \A t \in X : <<t, m>> \notin StrictSubsetOrdering(S)
  BY <1>1, WFMin
<1>3. \A t \in X : t \subseteq m => t = m
  BY <1>2 DEF StrictSubsetOrdering
<1> QED
  BY <1>3

LEMMA SubsetInduction ==
  ASSUME NEW S, IsFiniteSet(S), NEW X, {} \in X,
         \A T \in SUBSET S : \A x \in S \ T : T \in X => T \union {x} \in X
  PROVE  S \in X
<1> SUFFICES ASSUME S \notin X PROVE FALSE
  OBVIOUS
<1> DEFINE bad == {T \in SUBSET S : T \notin X}
<1>1. bad \subseteq SUBSET S /\ bad # {}
  OBVIOUS
<1>2. PICK m \in bad : \A t \in bad : t \subseteq m => t = m
  <2> HIDE DEF bad
  <2> QED
    BY <1>1, MinimalSubset
<1>3. PICK x \in m : TRUE
  BY <1>2
<1>4. m \ {x} \notin bad
  BY <1>2, <1>3
<1>5. m \ {x} \in X /\ x \in S \ (m \ {x})
  BY <1>2, <1>3, <1>4
<1>6. (m \ {x}) \union {x} = m
  BY <1>3
<1>7. m \ {x} \in SUBSET S
  BY <1>2
<1>8. (m \ {x}) \union {x} \in X
  BY <1>5, <1>7
<1> QED
  BY <1>2, <1>6, <1>8

-----------------------------------------------------------------------------
(* Sums: SumFunctionOnSet without the order in which it takes the elements. *)

Pick(s) == CHOOSE x \in s : TRUE
TakingOne(f, S, g) == [s \in SUBSET S |-> IF s = {} THEN 0 ELSE f[Pick(s)] + g[s \ {Pick(s)}]]
Summed(f, S) == CHOOSE g : g = TakingOne(f, S, g)

LEMMA SumIsSummed ==
  ASSUME NEW f, NEW S
  PROVE  SumFunctionOnSet(f, S) = Summed(f, S)[S]
  BY DEF SumFunctionOnSet, FoldFunctionOnSet, MapThenFoldSet, Summed, TakingOne, Pick

LEMMA SummedExists ==
  ASSUME NEW f, NEW S, IsFiniteSet(S)
  PROVE  \E g : g = TakingOne(f, S, g)
<1> DEFINE Step(g) == [s \in SUBSET S |-> IF s = {} THEN 0 ELSE f[Pick(s)] + g[s \ {Pick(s)}]]
           upTo == {U \in SUBSET S : \E g : \A s \in SUBSET S :
                      Cardinality(s) <= Cardinality(U) => g[s] = Step(g)[s]}
<1>1. \A s \in SUBSET S : IsFiniteSet(s) /\ Cardinality(s) \in Nat /\ Cardinality(s) <= Cardinality(S)
  BY FS_Subset, FS_CardinalityType
<1>2. {} \in upTo
  <2>1. Cardinality({}) = 0
    BY FS_EmptySet
  <2> DEFINE g == [s \in SUBSET S |-> 0]
  <2>2. ASSUME NEW s \in SUBSET S, Cardinality(s) <= 0
        PROVE  g[s] = Step(g)[s]
    BY <1>1, <2>2, FS_EmptySet
  <2> QED
    BY <2>1, <2>2
<1>3. ASSUME NEW T \in SUBSET S, NEW x \in S \ T, T \in upTo
      PROVE  T \union {x} \in upTo
  <2>1. PICK g : \A s \in SUBSET S : Cardinality(s) <= Cardinality(T) => g[s] = Step(g)[s]
    BY <1>3
  <2>2. Cardinality(T \union {x}) = Cardinality(T) + 1
    BY <1>1, FS_AddElement
  <2> DEFINE h == Step(g)
  <2>3. ASSUME NEW s \in SUBSET S, Cardinality(s) <= Cardinality(T) + 1
        PROVE  h[s] = Step(h)[s]
    <3>1. CASE s = {}
      BY <3>1
    <3>2. CASE s # {}
      <4> DEFINE r == s \ {Pick(s)}
      <4>1. Pick(s) \in s
        BY <3>2 DEF Pick
      <4>2. r \in SUBSET S /\ Cardinality(r) = Cardinality(s) - 1
        BY <1>1, <4>1, FS_RemoveElement
      <4>3. Cardinality(r) <= Cardinality(T)
        BY <1>1, <2>3, <4>2
      <4>4. g[r] = h[r]
        BY <2>1, <4>2, <4>3
      <4>5. h[s] = f[Pick(s)] + g[r] /\ Step(h)[s] = f[Pick(s)] + h[r]
        BY <3>2
      <4> QED
        BY <4>4, <4>5
    <3> QED
      BY <3>1, <3>2
  <2> HIDE DEF h
  <2>4. \E e : \A s \in SUBSET S : Cardinality(s) <= Cardinality(T) + 1 => e[s] = Step(e)[s]
    BY <2>3
  <2>5. T \union {x} \in SUBSET S
    OBVIOUS
  <2> QED
    BY <2>2, <2>4, <2>5
<1>4. S \in upTo
  <2> HIDE DEF upTo
  <2> QED
    BY <1>2, <1>3, SubsetInduction
<1>5. PICK g : \A s \in SUBSET S : g[s] = Step(g)[s]
  BY <1>1, <1>4
<1>6. \A s \in SUBSET S : s \ {Pick(s)} \in SUBSET S
  OBVIOUS
<1>7. Step(g) = Step(Step(g))
  <2>1. ASSUME NEW s \in SUBSET S PROVE Step(g)[s] = Step(Step(g))[s]
    BY <1>5, <1>6
  <2> QED
    BY <2>1
<1> QED
  BY <1>7 DEF TakingOne

(* The sums of two sets agree where both are defined. *)
LEMMA SummedStep ==
  ASSUME NEW f, NEW S, IsFiniteSet(S), NEW s \in SUBSET S
  PROVE  Summed(f, S)[s] = IF s = {} THEN 0 ELSE f[Pick(s)] + Summed(f, S)[s \ {Pick(s)}]
<1> DEFINE g == Summed(f, S)
<1>1. g = TakingOne(f, S, g)
  BY SummedExists DEF Summed
<1> HIDE DEF g
<1>2. TakingOne(f, S, g)[s] = IF s = {} THEN 0 ELSE f[Pick(s)] + g[s \ {Pick(s)}]
  BY DEF TakingOne
<1>3. g[s] = IF s = {} THEN 0 ELSE f[Pick(s)] + g[s \ {Pick(s)}]
  BY <1>1, <1>2
<1> QED
  BY <1>3 DEF g

LEMMA SummedAgree ==
  ASSUME NEW f, NEW S, IsFiniteSet(S), NEW T \in SUBSET S
  PROVE  Summed(f, S)[T] = SumFunctionOnSet(f, T)
<1> DEFINE off == {s \in SUBSET T : Summed(f, S)[s] # Summed(f, T)[s]}
<1>1. IsFiniteSet(T)
  BY FS_Subset
<1> SUFFICES ASSUME off # {} PROVE FALSE
  BY SumIsSummed
<1>2. PICK m \in off : \A t \in off : t \subseteq m => t = m
  <2>1. off \subseteq SUBSET T
    OBVIOUS
  <2> HIDE DEF off
  <2> QED
    BY <1>1, <2>1, MinimalSubset
<1>3. m \in SUBSET T /\ m \in SUBSET S
  BY <1>2
<1>4. m # {}
  BY <1>1, <1>2, <1>3, SummedStep
<1>5. Pick(m) \in m
  BY <1>4 DEF Pick
<1>6. m \ {Pick(m)} \notin off
  BY <1>2, <1>5
<1>7. Summed(f, S)[m \ {Pick(m)}] = Summed(f, T)[m \ {Pick(m)}]
  BY <1>3, <1>6
<1>8. Summed(f, S)[m] = f[Pick(m)] + Summed(f, S)[m \ {Pick(m)}]
  BY <1>3, <1>4, SummedStep
<1>9. Summed(f, T)[m] = f[Pick(m)] + Summed(f, T)[m \ {Pick(m)}]
  BY <1>1, <1>3, <1>4, SummedStep
<1> QED
  BY <1>2, <1>7, <1>8, <1>9

LEMMA SumEmpty ==
  ASSUME NEW f
  PROVE  SumFunctionOnSet(f, {}) = 0
<1>1. IsFiniteSet({})
  BY FS_EmptySet
<1>2. Summed(f, {})[{}] = 0
  BY <1>1, SummedStep
<1> QED
  BY <1>2, SumIsSummed

LEMMA SumPick ==
  ASSUME NEW f, NEW S, IsFiniteSet(S), S # {}
  PROVE  Pick(S) \in S /\ SumFunctionOnSet(f, S) = f[Pick(S)] + SumFunctionOnSet(f, S \ {Pick(S)})
<1>1. Pick(S) \in S
  BY DEF Pick
<1>2. Summed(f, S)[S] = f[Pick(S)] + Summed(f, S)[S \ {Pick(S)}]
  BY SummedStep
<1>3. Summed(f, S)[S \ {Pick(S)}] = SumFunctionOnSet(f, S \ {Pick(S)})
  BY SummedAgree
<1> QED
  BY <1>1, <1>2, <1>3, SumIsSummed

LEMMA SumType ==
  ASSUME NEW f, NEW S, IsFiniteSet(S), \A x \in S : f[x] \in Int
  PROVE  SumFunctionOnSet(f, S) \in Int
<1> DEFINE off == {s \in SUBSET S : SumFunctionOnSet(f, s) \notin Int}
<1> SUFFICES ASSUME off # {} PROVE FALSE
  OBVIOUS
<1>1. PICK m \in off : \A t \in off : t \subseteq m => t = m
  <2>1. off \subseteq SUBSET S
    OBVIOUS
  <2> HIDE DEF off
  <2> QED
    BY <2>1, MinimalSubset
<1>2. IsFiniteSet(m)
  BY <1>1, FS_Subset
<1>3. m # {}
  <2>1. SumFunctionOnSet(f, m) \notin Int
    BY <1>1
  <2>2. SumFunctionOnSet(f, {}) \in Int
    BY SumEmpty
  <2> QED
    BY <2>1, <2>2
<1>4. Pick(m) \in m /\ SumFunctionOnSet(f, m) = f[Pick(m)] + SumFunctionOnSet(f, m \ {Pick(m)})
  BY <1>2, <1>3, SumPick
<1>5. SumFunctionOnSet(f, m \ {Pick(m)}) \in Int
  BY <1>1, <1>4
<1>6. f[Pick(m)] \in Int
  BY <1>1, <1>4
<1>7. SumFunctionOnSet(f, m) \in Int
  BY <1>4, <1>5, <1>6
<1> QED
  BY <1>1, <1>7

(* Any element may be the one that is taken. *)
LEMMA SumRemove ==
  ASSUME NEW f, NEW S, IsFiniteSet(S), \A x \in S : f[x] \in Int, NEW a \in S
  PROVE  SumFunctionOnSet(f, S) = f[a] + SumFunctionOnSet(f, S \ {a})
<1> DEFINE off == {s \in SUBSET S : \E x \in s : SumFunctionOnSet(f, s) # f[x] + SumFunctionOnSet(f, s \ {x})}
<1> SUFFICES ASSUME off # {} PROVE FALSE
  OBVIOUS
<1>1. PICK m \in off : \A t \in off : t \subseteq m => t = m
  <2>1. off \subseteq SUBSET S
    OBVIOUS
  <2> HIDE DEF off
  <2> QED
    BY <2>1, MinimalSubset
<1>2. PICK x \in m : SumFunctionOnSet(f, m) # f[x] + SumFunctionOnSet(f, m \ {x})
  BY <1>1
<1>3. IsFiniteSet(m) /\ m # {} /\ m \in SUBSET S
  BY <1>1, <1>2, FS_Subset
<1> DEFINE c == Pick(m)
           rest == m \ {c, x}
<1>4. c \in m /\ SumFunctionOnSet(f, m) = f[c] + SumFunctionOnSet(f, m \ {c})
  BY <1>3, SumPick
<1>5. x # c
  BY <1>2, <1>4
<1> HIDE DEF c
<1>6. m \ {c} \notin off /\ m \ {x} \notin off
  BY <1>1, <1>2, <1>4
<1>7. (m \ {c}) \ {x} = rest /\ (m \ {x}) \ {c} = rest
  OBVIOUS
<1>8. m \ {c} \in SUBSET S /\ m \ {x} \in SUBSET S /\ x \in m \ {c} /\ c \in m \ {x}
  BY <1>2, <1>3, <1>4, <1>5
<1>9. SumFunctionOnSet(f, m \ {c}) = f[x] + SumFunctionOnSet(f, rest)
  BY <1>6, <1>7, <1>8
<1>10. SumFunctionOnSet(f, m \ {x}) = f[c] + SumFunctionOnSet(f, rest)
  BY <1>6, <1>7, <1>8
<1>11. IsFiniteSet(rest)
  BY <1>3, FS_Subset
<1>12. SumFunctionOnSet(f, rest) \in Int
  BY <1>3, <1>11, SumType
<1>13. f[x] \in Int /\ f[c] \in Int
  BY <1>2, <1>3, <1>4
<1> HIDE DEF rest
<1> QED
  BY <1>2, <1>4, <1>9, <1>10, <1>12, <1>13
LEMMA SumAdd ==
  ASSUME NEW f, NEW S, IsFiniteSet(S), \A x \in S : f[x] \in Int, NEW a, a \notin S, f[a] \in Int
  PROVE  SumFunctionOnSet(f, S \union {a}) = f[a] + SumFunctionOnSet(f, S)
<1>1. IsFiniteSet(S \union {a})
  BY FS_AddElement
<1>2. (S \union {a}) \ {a} = S
  OBVIOUS
<1>3. \A x \in S \union {a} : f[x] \in Int
  OBVIOUS
<1> QED
  BY <1>1, <1>2, <1>3, SumRemove

LEMMA SumSame ==
  ASSUME NEW f, NEW g, NEW S, IsFiniteSet(S), \A x \in S : f[x] \in Int /\ g[x] = f[x]
  PROVE  SumFunctionOnSet(g, S) = SumFunctionOnSet(f, S)
<1> DEFINE good == {T \in SUBSET S : SumFunctionOnSet(g, T) = SumFunctionOnSet(f, T)}
<1>1. {} \in good
  BY SumEmpty
<1>2. ASSUME NEW T \in SUBSET S, NEW x \in S \ T, T \in good
      PROVE  T \union {x} \in good
  <2>1. IsFiniteSet(T) /\ T \union {x} \in SUBSET S /\ (\A y \in T : f[y] \in Int /\ g[y] \in Int)
    BY FS_Subset
  <2>2. SumFunctionOnSet(f, T \union {x}) = f[x] + SumFunctionOnSet(f, T)
    BY <2>1, SumAdd
  <2>3. SumFunctionOnSet(g, T \union {x}) = g[x] + SumFunctionOnSet(g, T)
    BY <2>1, SumAdd
  <2> QED
    BY <1>2, <2>1, <2>2, <2>3
<1>3. S \in good
  <2> HIDE DEF good
  <2> QED
    BY <1>1, <1>2, SubsetInduction
<1> QED
  BY <1>3

LEMMA SumTimes ==
  ASSUME NEW f, NEW g, NEW S, IsFiniteSet(S), NEW k \in Int,
         \A x \in S : f[x] \in Int /\ g[x] = k * f[x]
  PROVE  SumFunctionOnSet(g, S) = k * SumFunctionOnSet(f, S)
<1> DEFINE good == {T \in SUBSET S : SumFunctionOnSet(g, T) = k * SumFunctionOnSet(f, T)}
<1>1. {} \in good
  BY SumEmpty
<1>2. ASSUME NEW T \in SUBSET S, NEW x \in S \ T, T \in good
      PROVE  T \union {x} \in good
  <2>1. IsFiniteSet(T) /\ T \union {x} \in SUBSET S /\ (\A y \in T : f[y] \in Int /\ g[y] \in Int)
    BY FS_Subset
  <2>2. SumFunctionOnSet(f, T \union {x}) = f[x] + SumFunctionOnSet(f, T)
    BY <2>1, SumAdd
  <2>3. g[x] \in Int /\ g[x] = k * f[x] /\ f[x] \in Int
    OBVIOUS
  <2>4. SumFunctionOnSet(g, T \union {x}) = g[x] + SumFunctionOnSet(g, T)
    BY <2>1, <2>3, SumAdd
  <2>5. SumFunctionOnSet(f, T) \in Int
    BY <2>1, SumType
  <2>6. SumFunctionOnSet(g, T) = k * SumFunctionOnSet(f, T)
    BY <1>2
  <2>7. k * (f[x] + SumFunctionOnSet(f, T)) = k * f[x] + k * SumFunctionOnSet(f, T)
    BY <2>3, <2>5
  <2> QED
    BY <2>1, <2>2, <2>3, <2>4, <2>6, <2>7
<1>3. S \in good
  <2> HIDE DEF good
  <2> QED
    BY <1>1, <1>2, SubsetInduction
<1> QED
  BY <1>3

LEMMA SumLeq ==
  ASSUME NEW f, NEW g, NEW S, IsFiniteSet(S),
         \A x \in S : f[x] \in Int /\ g[x] \in Int /\ f[x] <= g[x]
  PROVE  /\ SumFunctionOnSet(f, S) <= SumFunctionOnSet(g, S)
         /\ (\E x \in S : f[x] < g[x]) => SumFunctionOnSet(f, S) < SumFunctionOnSet(g, S)
<1> DEFINE good == {T \in SUBSET S :
              /\ SumFunctionOnSet(f, T) <= SumFunctionOnSet(g, T)
              /\ (\E x \in T : f[x] < g[x]) => SumFunctionOnSet(f, T) < SumFunctionOnSet(g, T)}
<1>1. {} \in good
  BY SumEmpty
<1>2. ASSUME NEW T \in SUBSET S, NEW x \in S \ T, T \in good
      PROVE  T \union {x} \in good
  <2>1. IsFiniteSet(T) /\ T \union {x} \in SUBSET S /\ (\A y \in T : f[y] \in Int /\ g[y] \in Int)
    BY FS_Subset
  <2>2. SumFunctionOnSet(f, T \union {x}) = f[x] + SumFunctionOnSet(f, T)
    BY <2>1, SumAdd
  <2>3. SumFunctionOnSet(g, T \union {x}) = g[x] + SumFunctionOnSet(g, T)
    BY <2>1, SumAdd
  <2>4. SumFunctionOnSet(f, T) \in Int /\ SumFunctionOnSet(g, T) \in Int
    BY <2>1, SumType
  <2>5. /\ SumFunctionOnSet(f, T) <= SumFunctionOnSet(g, T)
        /\ (\E y \in T : f[y] < g[y]) => SumFunctionOnSet(f, T) < SumFunctionOnSet(g, T)
    BY <1>2
  <2>6. f[x] \in Int /\ g[x] \in Int /\ f[x] <= g[x]
    OBVIOUS
  <2>7. SumFunctionOnSet(f, T \union {x}) <= SumFunctionOnSet(g, T \union {x})
    BY <2>2, <2>3, <2>4, <2>5, <2>6
  <2>8. ASSUME NEW y \in T \union {x}, f[y] < g[y]
        PROVE  SumFunctionOnSet(f, T \union {x}) < SumFunctionOnSet(g, T \union {x})
    <3>1. CASE y = x
      BY <2>2, <2>3, <2>4, <2>5, <2>6, <2>8, <3>1
    <3>2. CASE y \in T
      <4>1. SumFunctionOnSet(f, T) < SumFunctionOnSet(g, T)
        BY <2>5, <2>8, <3>2
      <4> QED
        BY <2>2, <2>3, <2>4, <2>6, <4>1
    <3> QED
      BY <3>1, <3>2
  <2> QED
    BY <2>1, <2>7, <2>8
<1>3. S \in good
  <2> HIDE DEF good
  <2> QED
    BY <1>1, <1>2, SubsetInduction
<1> QED
  BY <1>3

LEMMA SumOfOnes ==
  ASSUME NEW f, NEW S, IsFiniteSet(S), \A x \in S : f[x] = 1
  PROVE  SumFunctionOnSet(f, S) = Cardinality(S)
<1> DEFINE good == {T \in SUBSET S : SumFunctionOnSet(f, T) = Cardinality(T)}
<1>1. {} \in good
  BY SumEmpty, FS_EmptySet
<1>2. ASSUME NEW T \in SUBSET S, NEW x \in S \ T, T \in good
      PROVE  T \union {x} \in good
  <2>1. IsFiniteSet(T) /\ T \union {x} \in SUBSET S /\ (\A y \in T : f[y] \in Int)
    BY FS_Subset
  <2>2. SumFunctionOnSet(f, T \union {x}) = 1 + SumFunctionOnSet(f, T)
    BY <2>1, SumAdd
  <2>3. Cardinality(T \union {x}) = Cardinality(T) + 1 /\ Cardinality(T) \in Nat
    BY <2>1, FS_AddElement, FS_CardinalityType
  <2> QED
    BY <1>2, <2>1, <2>2, <2>3
<1>3. S \in good
  <2> HIDE DEF good
  <2> QED
    BY <1>1, <1>2, SubsetInduction
<1> QED
  BY <1>3

PartOf(S, part, i) == {x \in S : part[x] = i}

(* A sum may be taken part by part. *)
LEMMA SumOfParts ==
  ASSUME NEW f, NEW S, IsFiniteSet(S), \A x \in S : f[x] \in Int,
         NEW I, IsFiniteSet(I), NEW part, \A x \in S : part[x] \in I,
         NEW g, \A i \in I : g[i] = SumFunctionOnSet(f, PartOf(S, part, i))
  PROVE  SumFunctionOnSet(g, I) = SumFunctionOnSet(f, S)
<1> DEFINE Split(T) == [i \in I |-> SumFunctionOnSet(f, {x \in T : part[x] = i})]
           good == {T \in SUBSET S : SumFunctionOnSet(Split(T), I) = SumFunctionOnSet(f, T)}
<1>0. ASSUME NEW T \in SUBSET S
      PROVE  /\ IsFiniteSet(T) /\ (\A x \in T : f[x] \in Int) /\ SumFunctionOnSet(f, T) \in Int
             /\ \A i \in I : Split(T)[i] \in Int
  <2>1. IsFiniteSet(T) /\ (\A x \in T : f[x] \in Int)
    BY FS_Subset
  <2>2. ASSUME NEW i \in I PROVE Split(T)[i] \in Int
    <3>1. IsFiniteSet({x \in T : part[x] = i}) /\ \A x \in {y \in T : part[y] = i} : f[x] \in Int
      BY <2>1, FS_Subset
    <3> QED
      BY <3>1, SumType
  <2>3. SumFunctionOnSet(f, T) \in Int
    BY <2>1, SumType
  <2> QED
    BY <2>1, <2>2, <2>3
<1>1. {} \in good
  <2>1. \A i \in I : Split({})[i] = 0 * 0
    <3>1. ASSUME NEW i \in I PROVE Split({})[i] = 0
      <4>1. {x \in {} : part[x] = i} = {}
        OBVIOUS
      <4> QED
        BY <4>1, SumEmpty
    <3> QED
      BY <3>1
  <2> DEFINE zero == [i \in I |-> 0]
  <2>2. SumFunctionOnSet(zero, I) \in Int
    BY SumType
  <2>3. SumFunctionOnSet(Split({}), I) = 0 * SumFunctionOnSet(zero, I)
    <3>1. \A i \in I : zero[i] \in Int /\ Split({})[i] = 0 * zero[i]
      BY <2>1
    <3> HIDE DEF zero, Split
    <3> QED
      BY <3>1, SumTimes
  <2>4. SumFunctionOnSet(Split({}), I) = 0
    <3> HIDE DEF zero, Split
    <3> QED
      BY <2>2, <2>3
  <2>5. SumFunctionOnSet(f, {}) = 0
    BY SumEmpty
  <2> HIDE DEF Split
  <2> QED
    BY <2>4, <2>5
<1>2. ASSUME NEW T \in SUBSET S, NEW y \in S \ T, T \in good
      PROVE  T \union {y} \in good
  <2> DEFINE U == T \union {y}
             j == part[y]
  <2>1. U \in SUBSET S /\ j \in I /\ f[y] \in Int
    OBVIOUS
  <2>2. SumFunctionOnSet(f, U) = f[y] + SumFunctionOnSet(f, T)
    BY <1>0, SumAdd
  <2>3. \A i \in I \ {j} : Split(U)[i] = Split(T)[i]
    <3>1. ASSUME NEW i \in I \ {j}
          PROVE  {x \in U : part[x] = i} = {x \in T : part[x] = i}
      OBVIOUS
    <3> QED
      BY <3>1
  <2>4. Split(U)[j] = f[y] + Split(T)[j]
    <3> DEFINE P == {x \in T : part[x] = j}
    <3>1. {x \in U : part[x] = j} = P \union {y}
      OBVIOUS
    <3>2. IsFiniteSet(P) /\ (\A x \in P : f[x] \in Int) /\ y \notin P
      BY <1>0, FS_Subset
    <3>3. SumFunctionOnSet(f, P \union {y}) = f[y] + SumFunctionOnSet(f, P)
      <4> HIDE DEF P
      <4> QED
        BY <2>1, <3>2, SumAdd
    <3> QED
      BY <2>1, <3>1, <3>3
  <2>5. (\A i \in I : Split(U)[i] \in Int) /\ (\A i \in I : Split(T)[i] \in Int) /\ IsFiniteSet(I \ {j})
    BY <1>0, <2>1, FS_RemoveElement
  <2>6. SumFunctionOnSet(Split(T), I) = SumFunctionOnSet(f, T) /\ SumFunctionOnSet(f, T) \in Int
    BY <1>0, <1>2
  <2> HIDE DEF Split, U, j
  <2>7. SumFunctionOnSet(Split(U), I) = Split(U)[j] + SumFunctionOnSet(Split(U), I \ {j})
    BY <2>1, <2>5, SumRemove
  <2>8. SumFunctionOnSet(Split(T), I) = Split(T)[j] + SumFunctionOnSet(Split(T), I \ {j})
    BY <2>1, <2>5, SumRemove
  <2>9. SumFunctionOnSet(Split(U), I \ {j}) = SumFunctionOnSet(Split(T), I \ {j})
    BY <2>3, <2>5, SumSame
  <2>10. SumFunctionOnSet(Split(T), I \ {j}) \in Int /\ Split(T)[j] \in Int
    BY <2>1, <2>5, SumType
  <2>11. SumFunctionOnSet(Split(U), I) = SumFunctionOnSet(f, U)
    BY <2>1, <2>2, <2>4, <2>6, <2>7, <2>8, <2>9, <2>10
  <2> QED
    BY <2>1, <2>11 DEF U
<1>3. S \in good
  <2> HIDE DEF good
  <2> QED
    BY <1>1, <1>2, SubsetInduction
<1>4. \A i \in I : Split(S)[i] \in Int /\ g[i] = Split(S)[i]
  BY <1>0 DEF PartOf
<1>5. SumFunctionOnSet(g, I) = SumFunctionOnSet(Split(S), I)
  <2> HIDE DEF Split
  <2> QED
    BY <1>4, SumSame
<1> QED
  BY <1>3, <1>5

LEMMA CardinalityOfParts ==
  ASSUME NEW S, IsFiniteSet(S), NEW I, IsFiniteSet(I), NEW part, \A x \in S : part[x] \in I,
         NEW g, \A i \in I : g[i] = Cardinality(PartOf(S, part, i))
  PROVE  SumFunctionOnSet(g, I) = Cardinality(S)
<1> DEFINE ones == [x \in S |-> 1]
<1>1. \A x \in S : ones[x] \in Int /\ ones[x] = 1
  OBVIOUS
<1> HIDE DEF ones
<1>2. ASSUME NEW i \in I
      PROVE  g[i] = SumFunctionOnSet(ones, PartOf(S, part, i))
  <2>1. IsFiniteSet(PartOf(S, part, i)) /\ \A x \in PartOf(S, part, i) : x \in S
    BY FS_Subset DEF PartOf
  <2>2. SumFunctionOnSet(ones, PartOf(S, part, i)) = Cardinality(PartOf(S, part, i))
    BY <1>1, <2>1, SumOfOnes
  <2> QED
    BY <2>2
<1>3. SumFunctionOnSet(g, I) = SumFunctionOnSet(ones, S)
  BY <1>1, <1>2, SumOfParts
<1>4. SumFunctionOnSet(ones, S) = Cardinality(S)
  BY <1>1, SumOfOnes
<1> QED
  BY <1>3, <1>4

-----------------------------------------------------------------------------
(* Finite tables *)

LEMMA ImageIsFinite ==
  ASSUME NEW S, IsFiniteSet(S), NEW f
  PROVE  IsFiniteSet({f[x] : x \in S})
<1> DEFINE g == [x \in S |-> f[x]]
           T == {f[x] : x \in S}
<1>1. g \in Surjection(S, T)
  BY DEF Surjection
<1> HIDE DEF g, T
<1>2. IsFiniteSet(T)
  BY <1>1, FS_Surjection
<1> QED
  BY <1>2 DEF T

LEMMA TableIsFinite ==
  ASSUME disk \in Archives
  PROVE  /\ IsFiniteSet(Table)
         /\ \A row \in Table : row.bet \in SettledBets /\ row.bet.p \in 0..Unit /\ row.bet.result \in Results
         /\ Factors(Table) \subseteq Entries
<1>1. IsFiniteSet(disk) /\ (\A row \in SettledIn(disk) : row.bet \in SettledBets) /\ Factors(SettledIn(disk)) \subseteq Entries
  BY ArchivesAssumption
<1>2. SettledIn(disk) \subseteq disk
  BY DEF SettledIn
<1> QED
  BY <1>1, <1>2, FS_Subset, CalibrationAssumption DEF Table

LEMMA SegmentsAreFinite ==
  ASSUME NEW rows, IsFiniteSet(rows)
  PROVE  IsFiniteSet(Segments(rows))
<1>1. ASSUME NEW bet PROVE IsFiniteSet(SegmentsOf(bet))
  <2>1. IsFiniteSet({Overall, <<"market_type", bet.market>>, <<"model_source", bet.source>>})
    <3>1. /\ IsFiniteSet({Overall}) /\ IsFiniteSet({<<"market_type", bet.market>>})
          /\ IsFiniteSet({<<"model_source", bet.source>>})
      BY FS_Singleton
    <3>2. IsFiniteSet(({Overall} \union {<<"market_type", bet.market>>}) \union {<<"model_source", bet.source>>})
      BY <3>1, FS_Union
    <3>3. {Overall, <<"market_type", bet.market>>, <<"model_source", bet.source>>}
            = ({Overall} \union {<<"market_type", bet.market>>}) \union {<<"model_source", bet.source>>}
      OBVIOUS
    <3> QED
      BY <3>2, <3>3
  <2>2. IsFiniteSet(IF bet.book # NoBook THEN {<<"bookmaker", bet.book>>} ELSE {})
    BY FS_EmptySet, FS_Singleton
  <2>3. IsFiniteSet(IF bet.market = PlayerProp /\ bet.prop # NoProp THEN {<<"prop_type", bet.prop>>} ELSE {})
    BY FS_EmptySet, FS_Singleton
  <2> QED
    BY <2>1, <2>2, <2>3, FS_Union DEF SegmentsOf
<1> DEFINE f == [row \in rows |-> SegmentsOf(row.bet)]
           sets == {f[row] : row \in rows}
<1>2. IsFiniteSet(sets)
  <2> HIDE DEF f
  <2> QED
    BY ImageIsFinite
<1>3. \A T \in sets : IsFiniteSet(T)
  BY <1>1
<1>4. IsFiniteSet(UNION sets)
  <2> HIDE DEF sets
  <2> QED
    BY <1>2, <1>3, FS_UNION
<1>5. sets = {SegmentsOf(row.bet) : row \in rows}
  OBVIOUS
<1>6. IsFiniteSet({Overall} \union UNION sets)
  <2>1. IsFiniteSet({Overall})
    BY FS_Singleton
  <2> HIDE DEF sets
  <2> QED
    BY <1>4, <2>1, FS_Union
<1> QED
  BY <1>5, <1>6 DEF Segments

LEMMA FactorsAreFinite ==
  ASSUME NEW rows, IsFiniteSet(rows)
  PROVE  IsFiniteSet(Factors(rows))
<1> DEFINE trusted == {g \in Segments(rows) : Trusted(rows, g)}
           f == [segment \in trusted |-> FactorFor(rows, segment)]
<1>1. IsFiniteSet(trusted)
  <2>1. trusted \subseteq Segments(rows)
    OBVIOUS
  <2> HIDE DEF trusted
  <2> QED
    BY <2>1, SegmentsAreFinite, FS_Subset
<1>2. Factors(rows) = {f[segment] : segment \in trusted}
  BY DEF Factors
<1> HIDE DEF trusted, f
<1> QED
  BY <1>1, <1>2, ImageIsFinite

LEMMA SequenceOfSet ==
  ASSUME NEW S, IsFiniteSet(S)
  PROVE  /\ SetToSeq(S) \in [1..Cardinality(S) -> S]
         /\ Len(SetToSeq(S)) = Cardinality(S) /\ Cardinality(S) \in Nat
<1>1. Cardinality(S) \in Nat /\ ExistsBijection(1..Cardinality(S), S)
  BY FS_CardinalityType
<1>2. PICK f \in [1..Cardinality(S) -> S] : IsInjective(f)
  BY <1>1 DEF ExistsBijection, Bijection, Injection, IsInjective
<1>3. SetToSeq(S) \in [1..Cardinality(S) -> S]
  BY <1>2 DEF SetToSeq
<1> QED
  BY <1>1, <1>3

-----------------------------------------------------------------------------
(* The invariant: no request changes the table it works on, what a session  *)
(* inserts are factors of that table, and what it was answered is a report  *)
(* on it.                                                                    *)

Bucketings(rows) ==
  {f \in [{row.bet.p : row \in rows} -> 0..LastBucket] :
     \A p \in {row.bet.p : row \in rows} : f[p] \in BucketsFor(p)}

ReportOn(source, market, bucketOf) ==
  [source |-> source, market |-> market,
   by |-> CalculateSegmented(Selected(Table, source, market), bucketOf)]

CalTypes ==
  /\ disk \in Archives
  /\ pc \in [Sessions -> {"idle", "recompute", "saving", "report", "answered"}]
  /\ reply \in [Sessions -> {"none", "200", "400", "500"}]
  /\ DOMAIN report = Sessions /\ report = [s \in Sessions |-> report[s]]

FactorsOnly ==
  \A s \in Sessions :
    /\ \A i \in DOMAIN ledger[s] : ledger[s][i] \in Factors(Table)
    /\ \A i \in DOMAIN writes[s] : writes[s][i] \in {Insert(factor) : factor \in Factors(Table)}

Reported ==
  \A s \in Sessions :
    \/ report[s] = NoReport
    \/ \E source \in Sources, market \in Markets :
         \E bucketOf \in Bucketings(Selected(Table, source, market)) :
           report[s] = ReportOn(source, market, bucketOf)

CalInv == UowInv /\ CalTypes /\ FactorsOnly /\ Reported

LEMMA InitIsCalibrated ==
  ASSUME Init
  PROVE  CalInv
<1>1. UowInv
  BY UowInitHolds DEF Init
<1>2. CalTypes
  BY DEF Init, CalTypes, UowInit
<1>3. FactorsOnly
  BY DEF Init, FactorsOnly, UowInit
<1>4. Reported
  BY DEF Init, Reported
<1> QED
  BY <1>1, <1>2, <1>3, <1>4 DEF CalInv

(* No step of a request commits. *)
LEMMA DiskIsLeftAlone ==
  ASSUME [Next]_vars
  PROVE  disk' = disk /\ Table' = Table
<1>1. disk' = disk
  <2>1. CASE UNCHANGED vars
    BY <2>1 DEF vars, uowVars
  <2>2. ASSUME NEW s \in Sessions,
               \/ Begin(s) \/ Recompute(s) \/ RecomputeRaises(s) \/ RecomputeDone(s)
               \/ \E source \in Sources, market \in Markets : GetReport(s, source, market)
               \/ DatabaseError(s) \/ FlushNext(s) \/ End(s)
        PROVE  disk' = disk
    BY <2>2 DEF Begin, Recompute, RecomputeRaises, RecomputeDone, GetReport, DatabaseError,
       FlushNext, End, Open, Issue, Flush, Run, Refuse, Fail, Close, uowVars
  <2> QED
    BY <2>1, <2>2 DEF Next
<1> QED
  BY <1>1 DEF Table

(* Recomputing issues an insert of each factor of the table. *)
LEMMA RecomputeIssuesFactors ==
  ASSUME CalInv, NEW s \in Sessions, Recompute(s)
  PROVE  \E batch \in Seq(Requests) :
           /\ Issue(s, batch)
           /\ \A i \in DOMAIN batch : batch[i] \in {Insert(factor) : factor \in Factors(Table)}
<1> DEFINE factors == SetToSeq(Factors(Table))
           batch == [i \in 1..Len(factors) |-> Insert(factors[i])]
<1>1. IsFiniteSet(Factors(Table)) /\ Factors(Table) \subseteq Entries
  BY TableIsFinite, FactorsAreFinite DEF CalInv, CalTypes
<1>2. factors \in [1..Cardinality(Factors(Table)) -> Factors(Table)]
      /\ Len(factors) = Cardinality(Factors(Table)) /\ Len(factors) \in Nat
  BY <1>1, SequenceOfSet
<1>3. Issue(s, batch)
  BY DEF Recompute
<1> HIDE DEF factors
<1>4. \A i \in 1..Len(factors) : factors[i] \in Factors(Table)
  BY <1>2
<1>5. \A i \in 1..Len(factors) : Insert(factors[i]) \in Requests
  BY <1>1, <1>4 DEF Insert, Requests
<1>6. batch \in Seq(Requests)
  BY <1>2, <1>5
<1>7. \A i \in DOMAIN batch : batch[i] \in {Insert(factor) : factor \in Factors(Table)}
  BY <1>4
<1> QED
  BY <1>3, <1>6, <1>7

(* Seen from the database, a step of a request is a step of the session layer. *)
LEMMA CalibrationUsesLayer ==
  ASSUME CalInv, [Next]_vars
  PROVE  [UowNext]_uowVars
<1>1. CASE UNCHANGED vars
  BY <1>1 DEF vars
<1>2. ASSUME NEW s \in Sessions, Begin(s) \/ FlushNext(s) \/ DatabaseError(s) \/ End(s)
      PROVE  UowNext
  BY <1>2 DEF Begin, FlushNext, DatabaseError, End, UowNext
<1>3. ASSUME NEW s \in Sessions, Recompute(s)
      PROVE  UowNext
  BY <1>3, RecomputeIssuesFactors DEF UowNext, IssueSome
<1>4. ASSUME NEW s \in Sessions,
             \/ RecomputeRaises(s) \/ RecomputeDone(s)
             \/ \E source \in Sources, market \in Markets : GetReport(s, source, market)
      PROVE  UNCHANGED uowVars
  BY <1>4 DEF RecomputeRaises, RecomputeDone, GetReport
<1> QED
  BY <1>1, <1>2, <1>3, <1>4 DEF Next

LEMMA TypesHold ==
  ASSUME CalInv, [Next]_vars
  PROVE  CalTypes'
<1>1. disk' \in Archives
  BY DiskIsLeftAlone DEF CalInv, CalTypes
<1>t. /\ pc \in [Sessions -> {"idle", "recompute", "saving", "report", "answered"}]
      /\ reply \in [Sessions -> {"none", "200", "400", "500"}]
      /\ DOMAIN report = Sessions /\ report = [s \in Sessions |-> report[s]]
  BY DEF CalInv, CalTypes
<1>2. /\ pc' \in [Sessions -> {"idle", "recompute", "saving", "report", "answered"}]
      /\ reply' \in [Sessions -> {"none", "200", "400", "500"}]
  <2>1. CASE UNCHANGED vars
    BY <1>t, <2>1 DEF vars, calVars
  <2>2. ASSUME NEW s \in Sessions,
               \/ Begin(s) \/ Recompute(s) \/ RecomputeRaises(s) \/ RecomputeDone(s)
               \/ \E source \in Sources, market \in Markets : GetReport(s, source, market)
               \/ DatabaseError(s) \/ FlushNext(s) \/ End(s)
        PROVE  /\ pc' \in [Sessions -> {"idle", "recompute", "saving", "report", "answered"}]
               /\ reply' \in [Sessions -> {"none", "200", "400", "500"}]
    BY <1>t, <2>2 DEF Begin, Recompute, RecomputeRaises, RecomputeDone, GetReport, DatabaseError,
       FlushNext, End, Answer, Goto, calVars
  <2> QED
    BY <2>1, <2>2 DEF Next
<1>3. DOMAIN report' = Sessions /\ report' = [s \in Sessions |-> report'[s]]
  <2>1. CASE UNCHANGED report
    BY <1>t, <2>1
  <2>2. ASSUME NEW s \in Sessions, NEW r, report' = [report EXCEPT ![s] = r]
        PROVE  DOMAIN report' = Sessions /\ report' = [t \in Sessions |-> report'[t]]
    BY <1>t, <2>2
  <2>3. ASSUME NEW s \in Sessions, NEW source \in Sources, NEW market \in Markets, GetReport(s, source, market)
        PROVE  \E r : report' = [report EXCEPT ![s] = r]
    BY <2>3 DEF GetReport
  <2>4. ASSUME NEW s \in Sessions, End(s)
        PROVE  \E r : report' = [report EXCEPT ![s] = r]
    BY <2>4 DEF End
  <2>5. ASSUME NEW s \in Sessions,
               \/ Begin(s) \/ Recompute(s) \/ RecomputeRaises(s) \/ RecomputeDone(s)
               \/ DatabaseError(s) \/ FlushNext(s)
        PROVE  UNCHANGED report
    BY <2>5 DEF Begin, Recompute, RecomputeRaises, RecomputeDone, DatabaseError, FlushNext, calVars
  <2>6. CASE UNCHANGED vars
    BY <2>1, <2>6 DEF vars, calVars
  <2> QED
    BY <2>1, <2>2, <2>3, <2>4, <2>5, <2>6 DEF Next
<1> QED
  BY <1>1, <1>2, <1>3 DEF CalTypes

LEMMA FactorsHold ==
  ASSUME CalInv, [Next]_vars
  PROVE  FactorsOnly'
<1> DEFINE F == Factors(Table)
           Fine(rows, batch) ==
             /\ \A i \in DOMAIN rows : rows[i] \in F
             /\ \A i \in DOMAIN batch : batch[i] \in {Insert(factor) : factor \in F}
<1>1. Factors(Table)' = F
  BY DiskIsLeftAlone DEF Table, Factors, Segments, Trusted, FactorFor, Scoreable, InSegment, Of, Predicted
<1>2. /\ ledger \in [Sessions -> Seq(Entries)] /\ writes \in [Sessions -> Seq(Statements)]
      /\ \A s \in Sessions : Fine(ledger[s], writes[s])
  BY DEF CalInv, UowInv, UowTypeOK, FactorsOnly
<1> HIDE DEF F
<1>3. ASSUME UNCHANGED <<ledger, writes>>
      PROVE  \A t \in Sessions : Fine(ledger'[t], writes'[t])
  BY <1>2, <1>3
<1>4. ASSUME NEW s \in Sessions, Recompute(s)
      PROVE  \A t \in Sessions : Fine(ledger'[t], writes'[t])
  <2>1. PICK batch \in Seq(Requests) :
          /\ Issue(s, batch)
          /\ \A i \in DOMAIN batch : batch[i] \in {Insert(factor) : factor \in F}
    BY <1>4, RecomputeIssuesFactors DEF F
  <2>2. writes' = [writes EXCEPT ![s] = batch] /\ ledger' = ledger
    BY <2>1 DEF Issue
  <2> QED
    BY <1>2, <2>1, <2>2
<1>5. ASSUME NEW s \in Sessions, FlushNext(s)
      PROVE  \A t \in Sessions : Fine(ledger'[t], writes'[t])
  <2> DEFINE w == Head(writes[s])
  <2>1. Flush(s) /\ writes[s] # <<>> /\ writes[s] \in Seq(Statements) /\ ledger[s] \in Seq(Entries)
    BY <1>2, <1>5 DEF FlushNext, Flush
  <2>2. w \in {Insert(factor) : factor \in F}
    BY <1>2, <2>1
  <2>3. PICK factor \in F : w = Insert(factor)
    BY <2>2
  <2>4. w.op = "insert" /\ w.entry = factor
    BY <2>3 DEF Insert
  <2>5. ledger' = [ledger EXCEPT ![s] = Append(@, factor)] /\ writes' = [writes EXCEPT ![s] = Tail(@)]
    BY <2>1, <2>4, FlushRuns DEF Run, CalInv
  <2>6. ledger'[s] = Append(ledger[s], factor) /\ writes'[s] = Tail(writes[s])
    BY <1>2, <2>5
  <2>7. \A i \in DOMAIN Append(ledger[s], factor) : Append(ledger[s], factor)[i] \in F
    BY <1>2, <2>1, <2>3
  <2>8. \A i \in DOMAIN Tail(writes[s]) : Tail(writes[s])[i] \in {Insert(g) : g \in F}
    BY <1>2, <2>1
  <2>9. \A t \in Sessions \ {s} : ledger'[t] = ledger[t] /\ writes'[t] = writes[t]
    BY <1>2, <2>5
  <2> QED
    BY <1>2, <2>6, <2>7, <2>8, <2>9
<1>6. ASSUME NEW s \in Sessions, DatabaseError(s)
      PROVE  \A t \in Sessions : Fine(ledger'[t], writes'[t])
  <2>1. writes' = [writes EXCEPT ![s] = <<>>] /\ ledger' = ledger
    BY <1>6 DEF DatabaseError, Refuse, Fail
  <2> QED
    BY <1>2, <2>1
<1>7. ASSUME NEW s \in Sessions, End(s)
      PROVE  \A t \in Sessions : Fine(ledger'[t], writes'[t])
  <2>1. writes' = [writes EXCEPT ![s] = <<>>] /\ ledger' = [ledger EXCEPT ![s] = <<>>]
    BY <1>7 DEF End, Close
  <2> QED
    BY <1>2, <2>1
<1>8. ASSUME NEW s \in Sessions,
             \/ Begin(s) \/ RecomputeRaises(s) \/ RecomputeDone(s)
             \/ \E source \in Sources, market \in Markets : GetReport(s, source, market)
      PROVE  UNCHANGED <<ledger, writes>>
  BY <1>8 DEF Begin, RecomputeRaises, RecomputeDone, GetReport, Open, uowVars
<1>9. UNCHANGED vars => UNCHANGED <<ledger, writes>>
  BY DEF vars, uowVars
<1>10. \A t \in Sessions : Fine(ledger'[t], writes'[t])
  <2> HIDE DEF Fine
  <2>1. CASE UNCHANGED vars
    BY <1>3, <1>9, <2>1
  <2>2. CASE Next
    <3>1. PICK s \in Sessions :
            \/ Begin(s) \/ Recompute(s) \/ RecomputeRaises(s) \/ RecomputeDone(s)
            \/ \E source \in Sources, market \in Markets : GetReport(s, source, market)
            \/ DatabaseError(s) \/ FlushNext(s) \/ End(s)
      BY <2>2 DEF Next
    <3>2. CASE \/ Begin(s) \/ RecomputeRaises(s) \/ RecomputeDone(s)
               \/ \E source \in Sources, market \in Markets : GetReport(s, source, market)
      BY <1>3, <1>8, <3>2
    <3> QED
      BY <1>4, <1>5, <1>6, <1>7, <3>1, <3>2
  <2> QED
    BY <2>1, <2>2
<1> QED
  BY <1>1, <1>10 DEF FactorsOnly, Insert

LEMMA ReportsHold ==
  ASSUME CalInv, [Next]_vars
  PROVE  Reported'
<1> DEFINE Made(r) ==
             \/ r = NoReport
             \/ \E source \in Sources, market \in Markets :
                  \E bucketOf \in Bucketings(Selected(Table, source, market)) :
                    r = ReportOn(source, market, bucketOf)
<1>1. \A s \in Sessions : Made(report[s])
  BY DEF CalInv, Reported
<1>2. report = [s \in Sessions |-> report[s]]
  BY DEF CalInv, CalTypes
<1>3. ASSUME NEW s \in Sessions, NEW source \in Sources, NEW market \in Markets, GetReport(s, source, market)
      PROVE  \A t \in Sessions : Made(report'[t])
  <2>1. PICK bucketOf \in Bucketings(Selected(Table, source, market)) :
          report' = [report EXCEPT ![s] = ReportOn(source, market, bucketOf)]
    BY <1>3 DEF GetReport, Bucketings, ReportOn
  <2>2. Made(ReportOn(source, market, bucketOf))
    OBVIOUS
  <2> HIDE DEF Made
  <2> QED
    BY <1>1, <1>2, <2>1, <2>2
<1>4. ASSUME NEW s \in Sessions, End(s)
      PROVE  \A t \in Sessions : Made(report'[t])
  <2>1. report' = [report EXCEPT ![s] = NoReport]
    BY <1>4 DEF End
  <2>2. Made(NoReport)
    OBVIOUS
  <2> HIDE DEF Made
  <2> QED
    BY <1>1, <1>2, <2>1, <2>2
<1>5. ASSUME NEW s \in Sessions,
             \/ Begin(s) \/ Recompute(s) \/ RecomputeRaises(s) \/ RecomputeDone(s)
             \/ DatabaseError(s) \/ FlushNext(s)
      PROVE  UNCHANGED report
  BY <1>5 DEF Begin, Recompute, RecomputeRaises, RecomputeDone, DatabaseError, FlushNext, calVars
<1>6. UNCHANGED vars => UNCHANGED report
  BY DEF vars, calVars
<1>7. \A t \in Sessions : Made(report'[t])
  <2> HIDE DEF Made
  <2>1. UNCHANGED report => \A t \in Sessions : Made(report'[t])
    BY <1>1
  <2>2. CASE Next
    <3>1. PICK s \in Sessions :
            \/ Begin(s) \/ Recompute(s) \/ RecomputeRaises(s) \/ RecomputeDone(s)
            \/ \E source \in Sources, market \in Markets : GetReport(s, source, market)
            \/ DatabaseError(s) \/ FlushNext(s) \/ End(s)
      BY <2>2 DEF Next
    <3>2. CASE \/ Begin(s) \/ Recompute(s) \/ RecomputeRaises(s) \/ RecomputeDone(s)
               \/ DatabaseError(s) \/ FlushNext(s)
      BY <1>5, <2>1, <3>2
    <3> QED
      BY <1>3, <1>4, <3>1, <3>2
  <2> QED
    BY <1>6, <2>1, <2>2
<1>8. Table' = Table
  BY DiskIsLeftAlone
<1> SUFFICES ASSUME NEW s \in Sessions
             PROVE  \/ report'[s] = NoReport
                    \/ \E source \in Sources, market \in Markets :
                         \E bucketOf \in Bucketings(Selected(Table', source, market)) :
                           report'[s] = [source |-> source, market |-> market,
                                         by |-> CalculateSegmented(Selected(Table', source, market), bucketOf)]
  BY DEF Reported, ReportOn
<1> QED
  BY <1>7, <1>8 DEF ReportOn

LEMMA NextIsCalibrated ==
  ASSUME CalInv, [Next]_vars
  PROVE  CalInv'
<1>1. UowInv'
  BY CalibrationUsesLayer, UowStepHolds DEF CalInv
<1> QED
  BY <1>1, TypesHold, FactorsHold, ReportsHold DEF CalInv

THEOREM CalibrationIsSound == Spec => []CalInv
<1>1. Init => CalInv
  BY InitIsCalibrated
<1>2. CalInv /\ [Next]_vars => CalInv'
  BY NextIsCalibrated
<1> QED
  BY <1>1, <1>2, PTL DEF Spec

-----------------------------------------------------------------------------
(* What the two services compute of a part of the table *)

LEMMA ReportsAreTyped ==
  ASSUME CalInv
  PROVE  TypeOK
<1>1. ASSUME NEW s \in Sessions, report[s] # NoReport
      PROVE  /\ report[s].source \in Sources /\ report[s].market \in Markets
             /\ Overall \in DOMAIN report[s].by
  <2>1. PICK source \in Sources, market \in Markets :
          \E bucketOf \in Bucketings(Selected(Table, source, market)) :
            report[s] = ReportOn(source, market, bucketOf)
    BY <1>1 DEF CalInv, Reported
  <2>a. PICK bucketOf \in Bucketings(Selected(Table, source, market)) :
          report[s] = ReportOn(source, market, bucketOf)
    BY <2>1
  <2>2. Overall \in DOMAIN CalculateSegmented(Selected(Table, source, market), bucketOf)
    BY DEF CalculateSegmented
  <2> QED
    BY <2>a, <2>2 DEF ReportOn
<1> QED
  BY <1>1 DEF CalInv, CalTypes, UowInv, TypeOK

Prediction == [row \in Table |-> row.bet.p]

LEMMA PredictedIsASum ==
  ASSUME disk \in Archives, NEW rows, rows \subseteq Table
  PROVE  /\ IsFiniteSet(rows) /\ Cardinality(rows) \in Nat
         /\ \A row \in rows : Prediction[row] = row.bet.p /\ row.bet.p \in 0..Unit
         /\ Predicted(rows) = SumFunctionOnSet(Prediction, rows)
         /\ Predicted(rows) \in Int
<1>1. IsFiniteSet(rows) /\ Cardinality(rows) \in Nat
  BY TableIsFinite, FS_Subset, FS_CardinalityType
<1>2. \A row \in rows : Prediction[row] = row.bet.p /\ row.bet.p \in 0..Unit
  BY TableIsFinite DEF Prediction
<1>3. \A row \in rows : Prediction[row] \in Int
  BY <1>2, CalibrationAssumption
<1> DEFINE f == [row \in rows |-> row.bet.p]
<1>4. \A row \in rows : Prediction[row] \in Int /\ f[row] = Prediction[row]
  BY <1>2, <1>3
<1>5. DOMAIN f = rows
  OBVIOUS
<1>6. Predicted(rows) = SumFunctionOnSet(f, rows)
  BY DEF Predicted, SumFunction
<1>7. SumFunctionOnSet(f, rows) = SumFunctionOnSet(Prediction, rows)
  <2> HIDE DEF f
  <2> QED
    BY <1>1, <1>4, SumSame
<1>8. SumFunctionOnSet(Prediction, rows) \in Int
  BY <1>1, <1>3, SumType
<1> QED
  BY <1>1, <1>2, <1>6, <1>7, <1>8

(* A factor of the table speaks of the scored bets of its segment. *)
LEMMA FactorSpeaksOf ==
  ASSUME disk \in Archives, NEW factor \in Factors(Table)
  PROVE  LET used == Scoreable(InSegment(Table, factor.segment)) IN
           /\ factor.segment \in Segments(Table)
           /\ used \subseteq Table /\ Of(used, "won") \subseteq Table
           /\ factor.predicted = Predicted(used) /\ factor.predicted \in Int /\ factor.predicted > 0
           /\ factor.won = Cardinality(Of(used, "won")) /\ factor.won \in Nat
           /\ factor.size = Cardinality(used)
<1>1. PICK segment \in Segments(Table) : Trusted(Table, segment) /\ factor = FactorFor(Table, segment)
  BY DEF Factors
<1>2. factor.segment = segment
  BY <1>1 DEF FactorFor
<1> DEFINE used == Scoreable(InSegment(Table, segment))
<1>3. /\ factor.predicted = Predicted(used) /\ factor.won = Cardinality(Of(used, "won"))
      /\ factor.size = Cardinality(used)
  BY <1>1 DEF FactorFor
<1>4. Predicted(used) > 0
  BY <1>1 DEF Trusted
<1>5. used \subseteq Table /\ Of(used, "won") \subseteq Table
  BY DEF Scoreable, InSegment, Of
<1>6. Predicted(used) \in Int /\ Cardinality(Of(used, "won")) \in Nat
  BY <1>5, PredictedIsASum
<1> QED
  BY <1>1, <1>2, <1>3, <1>4, <1>5, <1>6

LEMMA ScaledOrder ==
  ASSUME NEW k \in Nat, NEW a \in Int, NEW b \in Int, a <= b
  PROVE  k * a <= k * b
  OBVIOUS

LEMMA MinOfTwo ==
  ASSUME NEW a \in Int, NEW b \in Int
  PROVE  /\ Min({a, b}) \in {a, b} /\ Min({a, b}) \in Int
         /\ Min({a, b}) <= a /\ Min({a, b}) <= b
         /\ a <= b => Min({a, b}) = a
<1>1. \E x \in {a, b} : \A y \in {a, b} : x <= y
  <2>1. CASE a <= b
    BY <2>1
  <2>2. CASE b <= a
    BY <2>2
  <2> QED
    BY <2>1, <2>2
<1>2. Min({a, b}) \in {a, b} /\ \A y \in {a, b} : Min({a, b}) <= y
  BY <1>1 DEF Min
<1> QED
  BY <1>2

LEMMA FactorsCalibrate ==
  ASSUME CalInv
  PROVE  CorrectionIsCalibrated
<1> SUFFICES ASSUME NEW s \in Sessions, NEW factor \in Saved(s)
             PROVE
    LET scored == {row \in InSegment(Table, factor.segment) : row.bet.result # "push"}
        corrected == SumFunction([row \in scored |-> Corrected(row.bet.p, factor)])
        won == Unit * factor.predicted * Cardinality(Of(scored, "won"))
    IN  /\ corrected <= won
        /\ (\A row \in scored : row.bet.p * factor.won <= factor.predicted) => corrected = won
  BY DEF CorrectionIsCalibrated
<1> DEFINE scored == {row \in InSegment(Table, factor.segment) : row.bet.result # "push"}
           f == [row \in scored |-> Corrected(row.bet.p, factor)]
           g == [row \in scored |-> (Unit * factor.won) * row.bet.p]
           k == Unit * factor.won
           won == Unit * factor.predicted * Cardinality(Of(scored, "won"))
<1>0. disk \in Archives
  BY DEF CalInv, CalTypes
<1>1. factor \in Factors(Table)
  BY DEF CalInv, FactorsOnly, Saved
<1>2. scored = Scoreable(InSegment(Table, factor.segment))
  BY DEF Scoreable, Of
<1>3. /\ scored \subseteq Table
      /\ factor.predicted = Predicted(scored) /\ factor.predicted \in Int
      /\ factor.won = Cardinality(Of(scored, "won")) /\ factor.won \in Nat
  BY <1>0, <1>1, <1>2, FactorSpeaksOf
<1> HIDE DEF scored
<1>4. /\ IsFiniteSet(scored)
      /\ \A row \in scored : Prediction[row] = row.bet.p /\ row.bet.p \in 0..Unit
      /\ factor.predicted = SumFunctionOnSet(Prediction, scored)
  BY <1>0, <1>3, PredictedIsASum
<1>5. Unit \in Nat
  BY CalibrationAssumption
<1>6. k \in Int
  BY <1>3, <1>5
<1>7. \A row \in scored : Prediction[row] \in Int /\ g[row] = k * Prediction[row]
  BY <1>4, <1>5
<1>8. SumFunctionOnSet(g, scored) = k * factor.predicted
  <2> HIDE DEF g, k
  <2> QED
    BY <1>4, <1>6, <1>7, SumTimes
<1>9. k * factor.predicted = won
  BY <1>3, <1>5
<1>10. ASSUME NEW row \in scored
       PROVE  /\ f[row] \in Int /\ g[row] \in Int /\ f[row] <= g[row]
              /\ row.bet.p * factor.won <= factor.predicted => f[row] = g[row]
  <2> DEFINE p == row.bet.p
             a == p * Unit * factor.won
             b == Unit * factor.predicted
  <2>1. p \in Int
    BY <1>4, <1>5
  <2>2. a \in Int /\ b \in Int /\ a = Unit * (p * factor.won) /\ g[row] = a
    BY <1>3, <1>5, <2>1
  <2>3. f[row] = Min({a, b})
    BY DEF Corrected
  <2>4. p * factor.won <= factor.predicted => a <= b
    <3>1. p * factor.won \in Int
      BY <1>3, <2>1
    <3> QED
      BY <1>3, <1>5, <2>2, <3>1, ScaledOrder
  <2> HIDE DEF a, b, f, g
  <2>5. Min({a, b}) \in Int /\ Min({a, b}) <= a /\ (a <= b => Min({a, b}) = a)
    BY <2>2, MinOfTwo
  <2> QED
    BY <2>2, <2>3, <2>4, <2>5
<1>11. SumFunctionOnSet(f, scored) <= SumFunctionOnSet(g, scored)
  <2> HIDE DEF f, g
  <2> QED
    BY <1>4, <1>10, SumLeq
<1>12. ASSUME \A row \in scored : row.bet.p * factor.won <= factor.predicted
       PROVE  SumFunctionOnSet(f, scored) = SumFunctionOnSet(g, scored)
  <2> HIDE DEF f, g
  <2> QED
    BY <1>4, <1>10, <1>12, SumSame
<1>13. SumFunction(f) = SumFunctionOnSet(f, scored)
  BY DEF SumFunction
<1> HIDE DEF f, g, k, won
<1>14. /\ SumFunction(f) <= won
       /\ (\A row \in scored : row.bet.p * factor.won <= factor.predicted) => SumFunction(f) = won
  BY <1>8, <1>9, <1>11, <1>12, <1>13
<1> QED
  BY <1>14 DEF f, won, scored

(* Whatever bucket each prediction falls in, the curve adds up to the part   *)
(* of the table it was drawn from.                                           *)
LEMMA BucketsAreFinite == NumBuckets \in Int /\ LastBucket \in Int /\ IsFiniteSet(0..LastBucket)
<1>1. Unit \div BucketWidth \in Int /\ Unit % BucketWidth \in Int
  BY CalibrationAssumption
<1>2. NumBuckets \in Int
  BY <1>1, CalibrationAssumption DEF NumBuckets
<1>3. LastBucket \in Int
  BY <1>2 DEF LastBucket
<1> QED
  BY <1>2, <1>3, FS_Interval

LEMMA CurveTotals ==
  ASSUME disk \in Archives, NEW rows, rows \subseteq Table, NEW bucketOf,
         \A row \in rows : bucketOf[row.bet.p] \in 0..LastBucket
  PROVE  LET metrics == Metrics(rows, bucketOf)
             used == Scoreable(rows)
         IN  /\ metrics.size = Cardinality(used)
             /\ Total(metrics.curve, "size") = Cardinality(used)
             /\ Total(metrics.curve, "won") = Cardinality(Of(used, "won"))
             /\ Total(metrics.curve, "predicted") = Predicted(used)
<1> DEFINE I == 0..LastBucket
           used == Scoreable(rows)
           In(index) == {row \in used : bucketOf[row.bet.p] = index}
           curve == Metrics(rows, bucketOf).curve
           part == [row \in used |-> bucketOf[row.bet.p]]
           size == [index \in I |-> Cardinality(In(index))]
           won == [index \in I |-> Cardinality(Of(In(index), "won"))]
           predicted == [index \in I |-> Predicted(In(index))]
<1>1. used \subseteq Table /\ Of(used, "won") \subseteq used
  BY DEF Scoreable, Of
<1>2. /\ IsFiniteSet(used) /\ IsFiniteSet(Of(used, "won")) /\ IsFiniteSet(I)
      /\ \A row \in used : Prediction[row] \in Int
      /\ Predicted(used) = SumFunctionOnSet(Prediction, used)
  <2> HIDE DEF used
  <2>1. /\ IsFiniteSet(used) /\ Predicted(used) = SumFunctionOnSet(Prediction, used)
        /\ \A row \in used : Prediction[row] = row.bet.p /\ row.bet.p \in 0..Unit
    BY <1>1, PredictedIsASum
  <2>2. IsFiniteSet(Of(used, "won"))
    BY <1>1, <2>1, FS_Subset
  <2> QED
    BY <2>1, <2>2, BucketsAreFinite, CalibrationAssumption
<1>3. Metrics(rows, bucketOf).size = Cardinality(used)
  BY DEF Metrics, Scoreable
<1>4. curve = [index \in I |->
                 [size |-> size[index], won |-> won[index], predicted |-> predicted[index]]]
  BY DEF Metrics, Scoreable
<1>5. \A row \in used : part[row] \in I /\ part[row] = bucketOf[row.bet.p]
  BY DEF Scoreable
<1>6. \A index \in I : In(index) = PartOf(used, part, index)
  BY DEF PartOf
<1>7. SumFunctionOnSet(size, I) = Cardinality(used)
  <2>1. \A index \in I : size[index] = Cardinality(PartOf(used, part, index))
    BY <1>6
  <2> HIDE DEF size, part, used, I
  <2> QED
    BY <1>2, <1>5, <2>1, CardinalityOfParts
<1>8. SumFunctionOnSet(won, I) = Cardinality(Of(used, "won"))
  <2>1. \A index \in I : Of(In(index), "won") = PartOf(Of(used, "won"), part, index)
    BY <1>6 DEF Of, PartOf
  <2>2. \A index \in I : won[index] = Cardinality(PartOf(Of(used, "won"), part, index))
    BY <2>1
  <2>3. \A row \in Of(used, "won") : part[row] \in I
    BY <1>1, <1>5
  <2> HIDE DEF won, part, used, I
  <2> QED
    BY <1>2, <2>2, <2>3, CardinalityOfParts
<1>9. SumFunctionOnSet(predicted, I) = Predicted(used)
  <2>1. \A index \in I : In(index) \subseteq Table
    BY <1>1
  <2>2. \A index \in I : Predicted(In(index)) = SumFunctionOnSet(Prediction, In(index))
    <3> HIDE DEF In
    <3> QED
      BY <2>1, PredictedIsASum
  <2>3. \A index \in I :
          predicted[index] = SumFunctionOnSet(Prediction, PartOf(used, part, index))
    BY <1>6, <2>2
  <2> HIDE DEF predicted, part, used, I
  <2> QED
    BY <1>2, <1>5, <2>3, SumOfParts
<1> HIDE DEF size, won, predicted
<1>10. /\ Total(curve, "size") = SumFunction([index \in I |-> size[index]])
       /\ Total(curve, "won") = SumFunction([index \in I |-> won[index]])
       /\ Total(curve, "predicted") = SumFunction([index \in I |-> predicted[index]])
  <2> HIDE DEF curve
  <2> QED
    BY <1>4 DEF Total
<1>11. /\ size = [index \in I |-> size[index]]
       /\ won = [index \in I |-> won[index]]
       /\ predicted = [index \in I |-> predicted[index]]
       /\ DOMAIN size = I /\ DOMAIN won = I /\ DOMAIN predicted = I
  BY DEF size, won, predicted
<1>12. /\ Total(curve, "size") = SumFunctionOnSet(size, I)
       /\ Total(curve, "won") = SumFunctionOnSet(won, I)
       /\ Total(curve, "predicted") = SumFunctionOnSet(predicted, I)
  BY <1>10, <1>11 DEF SumFunction
<1> HIDE DEF curve, used
<1>13. /\ Metrics(rows, bucketOf).size = Cardinality(used)
       /\ Total(curve, "size") = Cardinality(used)
       /\ Total(curve, "won") = Cardinality(Of(used, "won"))
       /\ Total(curve, "predicted") = Predicted(used)
  BY <1>3, <1>7, <1>8, <1>9, <1>12
<1> QED
  BY <1>13 DEF curve, used

(* The two services sort a bet into the same segments. *)
LEMMA ServicesAgree ==
  ASSUME NEW bet
  PROVE  ReportKeys(bet) = SegmentsOf(bet)
<1> DEFINE r == ReportedIn(bet)
<1>1. /\ r.market_type = {bet.market} /\ r.model_source = {bet.source} /\ r.bookmaker = {bet.book} \ {NoBook}
      /\ r.prop_type = IF bet.market = PlayerProp THEN {bet.prop} \ {NoProp} ELSE {}
      /\ DOMAIN r = {"market_type", "model_source", "bookmaker", "prop_type"}
  BY DEF ReportedIn
<1>2. ReportKeys(bet) = {Overall} \union {<<"market_type", v>> : v \in r.market_type}
        \union {<<"model_source", v>> : v \in r.model_source}
        \union {<<"bookmaker", v>> : v \in r.bookmaker}
        \union {<<"prop_type", v>> : v \in r.prop_type}
  <2> HIDE DEF r
  <2>1. UNION {{<<d, v>> : v \in r[d]} : d \in {"market_type", "model_source", "bookmaker", "prop_type"}} =
          {<<"market_type", v>> : v \in r.market_type}
        \union {<<"model_source", v>> : v \in r.model_source}
        \union {<<"bookmaker", v>> : v \in r.bookmaker}
        \union {<<"prop_type", v>> : v \in r.prop_type}
    OBVIOUS
  <2>2. ReportKeys(bet) = {Overall} \union UNION {{<<d, v>> : v \in r[d]} : d \in DOMAIN r}
    BY DEF ReportKeys, r
  <2> QED
    BY <1>1, <2>1, <2>2
<1> HIDE DEF r
<1> QED
  BY <1>1, <1>2 DEF SegmentsOf

LEMMA SegmentedBySegment ==
  ASSUME NEW rows, NEW bucketOf
  PROVE  CalculateSegmented(rows, bucketOf)
           = [key \in Segments(rows) |-> Metrics(InSegment(rows, key), bucketOf)]
<1>1. \A row \in rows : ReportKeys(row.bet) = SegmentsOf(row.bet)
  BY ServicesAgree
<1>2. {Overall} \union UNION {ReportKeys(row.bet) : row \in rows} = Segments(rows)
  BY <1>1 DEF Segments
<1>3. \A key : {row \in rows : key \in ReportKeys(row.bet)} = InSegment(rows, key)
  BY <1>1 DEF InSegment
<1> QED
  BY <1>2, <1>3 DEF CalculateSegmented

LEMMA ReportIsOfTheTable ==
  ASSUME CalInv, NEW t \in Sessions, report[t] # NoReport
  PROVE  /\ report[t].source \in Sources /\ report[t].market \in Markets
         /\ \E bucketOf \in Bucketings(Selected(Table, report[t].source, report[t].market)) :
              report[t].by = [key \in Segments(Selected(Table, report[t].source, report[t].market)) |->
                Metrics(InSegment(Selected(Table, report[t].source, report[t].market), key), bucketOf)]
<1>1. PICK source \in Sources, market \in Markets :
        \E bucketOf \in Bucketings(Selected(Table, source, market)) :
          report[t] = ReportOn(source, market, bucketOf)
  BY DEF CalInv, Reported
<1>2. PICK bucketOf \in Bucketings(Selected(Table, source, market)) :
        report[t] = ReportOn(source, market, bucketOf)
  BY <1>1
<1>3. /\ report[t].source = source /\ report[t].market = market
      /\ report[t].by = CalculateSegmented(Selected(Table, source, market), bucketOf)
  BY <1>2 DEF ReportOn
<1> QED
  BY <1>1, <1>2, <1>3, SegmentedBySegment

LEMMA ReportTotals ==
  ASSUME CalInv, NEW t \in Sessions, report[t] # NoReport
  PROVE  LET rows == Selected(Table, report[t].source, report[t].market) IN
           /\ DOMAIN report[t].by = Segments(rows)
           /\ \A key \in Segments(rows) :
                LET metrics == report[t].by[key]
                    used == Scoreable(InSegment(rows, key))
                IN  /\ metrics.size = Cardinality(used)
                    /\ Total(metrics.curve, "size") = Cardinality(used)
                    /\ Total(metrics.curve, "won") = Cardinality(Of(used, "won"))
                    /\ Total(metrics.curve, "predicted") = Predicted(used)
<1> DEFINE rows == Selected(Table, report[t].source, report[t].market)
<1>1. PICK bucketOf \in Bucketings(rows) :
        report[t].by = [key \in Segments(rows) |-> Metrics(InSegment(rows, key), bucketOf)]
  BY ReportIsOfTheTable
<1>2. rows \subseteq Table /\ disk \in Archives
  BY DEF Selected, CalInv, CalTypes
<1> HIDE DEF rows
<1>3. \A row \in rows : bucketOf[row.bet.p] \in 0..LastBucket
  BY DEF Bucketings
<1>4. ASSUME NEW key \in Segments(rows)
      PROVE  LET metrics == report[t].by[key]
                 used == Scoreable(InSegment(rows, key))
             IN  /\ metrics.size = Cardinality(used)
                 /\ Total(metrics.curve, "size") = Cardinality(used)
                 /\ Total(metrics.curve, "won") = Cardinality(Of(used, "won"))
                 /\ Total(metrics.curve, "predicted") = Predicted(used)
  <2> DEFINE part == InSegment(rows, key)
  <2>1. report[t].by[key] = Metrics(part, bucketOf)
    BY <1>1
  <2>2. part \subseteq Table /\ \A row \in part : bucketOf[row.bet.p] \in 0..LastBucket
    BY <1>2, <1>3 DEF InSegment
  <2> HIDE DEF part
  <2>3. LET metrics == Metrics(part, bucketOf)
            used == Scoreable(part)
        IN  /\ metrics.size = Cardinality(used)
            /\ Total(metrics.curve, "size") = Cardinality(used)
            /\ Total(metrics.curve, "won") = Cardinality(Of(used, "won"))
            /\ Total(metrics.curve, "predicted") = Predicted(used)
    BY <1>2, <2>2, CurveTotals
  <2> QED
    BY <2>1, <2>3 DEF part
<1>5. DOMAIN report[t].by = Segments(rows)
  BY <1>1
<1> QED
  BY <1>4, <1>5 DEF rows

LEMMA ReportsMatch ==
  ASSUME CalInv
  PROVE  ReportMatchesFactors
<1> SUFFICES ASSUME NEW s \in Sessions, NEW t \in Sessions, NEW factor \in Saved(s),
                    report[t].source = "any", report[t].market = "any"
             PROVE  /\ factor.segment \in DOMAIN report[t].by
                    /\ LET metrics == report[t].by[factor.segment] IN
                         /\ metrics.size = factor.size
                         /\ Total(metrics.curve, "size") = factor.size
                         /\ Total(metrics.curve, "won") = factor.won
                         /\ Total(metrics.curve, "predicted") = factor.predicted
  BY DEF ReportMatchesFactors
<1>1. factor \in Factors(Table) /\ disk \in Archives
  BY DEF CalInv, CalTypes, FactorsOnly, Saved
<1>2. report[t] # NoReport
  BY DEF NoReport
<1>3. Selected(Table, report[t].source, report[t].market) = Table
  BY DEF Selected
<1> DEFINE used == Scoreable(InSegment(Table, factor.segment))
<1>4. /\ factor.segment \in Segments(Table)
      /\ factor.predicted = Predicted(used)
      /\ factor.won = Cardinality(Of(used, "won"))
      /\ factor.size = Cardinality(used)
  BY <1>1, FactorSpeaksOf
<1>5. /\ DOMAIN report[t].by = Segments(Table)
      /\ LET metrics == report[t].by[factor.segment] IN
           /\ metrics.size = Cardinality(used)
           /\ Total(metrics.curve, "size") = Cardinality(used)
           /\ Total(metrics.curve, "won") = Cardinality(Of(used, "won"))
           /\ Total(metrics.curve, "predicted") = Predicted(used)
  BY <1>2, <1>3, <1>4, ReportTotals
<1> HIDE DEF used
<1> QED
  BY <1>4, <1>5

LEMMA FiltersAreSegments ==
  ASSUME CalInv
  PROVE  FilterIsASegment
<1> SUFFICES ASSUME NEW s \in Sessions, NEW t \in Sessions,
                    report[s].market \notin {"none", "any"}, report[t].market = "any",
                    report[s].source = report[t].source
             PROVE
      LET key == <<"market_type", report[s].market>>
          one == report[s].by[Overall]
      IN  IF key \in DOMAIN report[t].by
          THEN /\ one.size = report[t].by[key].size
               /\ \A field \in {"won", "predicted"} :
                    Total(one.curve, field) = Total(report[t].by[key].curve, field)
          ELSE one.size = 0
  BY DEF FilterIsASegment
<1> DEFINE market == report[s].market
           source == report[s].source
           key == <<"market_type", market>>
           here == Selected(Table, source, market)
           there == Selected(Table, source, "any")
           used == Scoreable(InSegment(here, Overall))
<1>1. report[s] # NoReport /\ report[t] # NoReport
  BY DEF NoReport
<1>2. \A bet : (key \in SegmentsOf(bet) <=> bet.market = market) /\ Overall \in SegmentsOf(bet)
  BY DEF SegmentsOf, Overall
<1>3. InSegment(here, Overall) = InSegment(there, key)
  BY <1>2 DEF InSegment, Selected
<1>4. Overall \in Segments(here)
  BY DEF Segments
<1>5. LET metrics == report[s].by[Overall] IN
        /\ metrics.size = Cardinality(used)
        /\ Total(metrics.curve, "won") = Cardinality(Of(used, "won"))
        /\ Total(metrics.curve, "predicted") = Predicted(used)
  BY <1>1, <1>4, ReportTotals
<1>6. /\ DOMAIN report[t].by = Segments(there)
      /\ key \in Segments(there) =>
           LET metrics == report[t].by[key] IN
             /\ metrics.size = Cardinality(used)
             /\ Total(metrics.curve, "won") = Cardinality(Of(used, "won"))
             /\ Total(metrics.curve, "predicted") = Predicted(used)
  <2>1. Selected(Table, report[t].source, report[t].market) = there
    OBVIOUS
  <2> HIDE DEF here, there, key
  <2>2. /\ DOMAIN report[t].by = Segments(there)
        /\ key \in Segments(there) =>
             LET metrics == report[t].by[key]
                 others == Scoreable(InSegment(there, key)) IN
             /\ metrics.size = Cardinality(others)
             /\ Total(metrics.curve, "won") = Cardinality(Of(others, "won"))
             /\ Total(metrics.curve, "predicted") = Predicted(others)
    BY <1>1, <2>1, ReportTotals
  <2> QED
    BY <1>3, <2>2
<1>7. key \notin Segments(there) => Cardinality(used) = 0
  <2>1. ASSUME key \notin Segments(there) PROVE InSegment(there, key) = {}
    BY <2>1 DEF Segments, InSegment
  <2>2. Scoreable({}) = {}
    BY DEF Scoreable
  <2> QED
    BY <1>3, <2>1, <2>2, FS_EmptySet
<1> HIDE DEF used, there
<1> QED
  BY <1>5, <1>6, <1>7

(* A market type's bets are one part of all of them, told by their market. *)
LEMMA OverallWithin ==
  ASSUME CalInv
  PROVE  OverallWithinMarkets
<1> SUFFICES ASSUME NEW s \in Sessions, NEW overall \in Saved(s), overall.segment = Overall,
                    \A row \in Table : row.bet.result # "push" =>
                      \E f \in {g \in Saved(s) : g.segment[1] = "market_type"} :
                        f.segment[2] = row.bet.market
             PROVE  /\ \E f \in {g \in Saved(s) : g.segment[1] = "market_type"} :
                         f.won * overall.predicted <= overall.won * f.predicted
                    /\ \E f \in {g \in Saved(s) : g.segment[1] = "market_type"} :
                         f.won * overall.predicted >= overall.won * f.predicted
  BY DEF OverallWithinMarkets
<1> DEFINE markets == {g \in Saved(s) : g.segment[1] = "market_type"}
           used == Scoreable(Table)
           wins == Of(used, "won")
           part == [row \in used |-> row.bet.market]
           M == {part[row] : row \in used}
           F == [m \in M |-> CHOOSE f \in markets : f.segment[2] = m]
           W == [m \in M |-> F[m].won]
           P == [m \in M |-> F[m].predicted]
           oW == overall.won
           oP == overall.predicted
<1>0. disk \in Archives /\ \A f \in Saved(s) : f \in Factors(Table)
  BY DEF CalInv, CalTypes, FactorsOnly, Saved
<1>1. InSegment(Table, Overall) = Table
  BY DEF InSegment, SegmentsOf
<1>2. /\ used \subseteq Table /\ wins \subseteq used
      /\ oP = Predicted(used) /\ oP \in Int /\ oP > 0
      /\ oW = Cardinality(wins) /\ oW \in Nat
  <2>1. LET scored == Scoreable(InSegment(Table, overall.segment)) IN
          /\ overall.predicted = Predicted(scored) /\ overall.predicted \in Int /\ overall.predicted > 0
          /\ overall.won = Cardinality(Of(scored, "won")) /\ overall.won \in Nat
    BY <1>0, FactorSpeaksOf
  <2> QED
    BY <1>1, <2>1 DEF Scoreable, Of
<1> HIDE DEF oW, oP
<1>3. /\ IsFiniteSet(used) /\ IsFiniteSet(wins)
      /\ (\A row \in used : Prediction[row] \in Int)
      /\ oP = SumFunctionOnSet(Prediction, used)
  <2> HIDE DEF used
  <2>1. /\ IsFiniteSet(used) /\ Predicted(used) = SumFunctionOnSet(Prediction, used)
        /\ \A row \in used : Prediction[row] = row.bet.p /\ row.bet.p \in 0..Unit
    BY <1>0, <1>2, PredictedIsASum
  <2>2. IsFiniteSet(wins)
    BY <1>2, <2>1, FS_Subset
  <2> QED
    BY <1>2, <2>1, <2>2, CalibrationAssumption
<1>4. IsFiniteSet(M)
  <2> HIDE DEF used, part
  <2> QED
    BY <1>3, ImageIsFinite
<1>5. \A row \in used : part[row] \in M /\ part[row] = row.bet.market
  OBVIOUS
<1>6. ASSUME NEW m \in M
      PROVE  F[m] \in markets /\ F[m].segment[2] = m
  <2>1. PICK row \in used : part[row] = m
    OBVIOUS
  <2>2. row \in Table /\ row.bet.result # "push" /\ row.bet.market = m
    BY <2>1 DEF Scoreable, Of
  <2>3. \E f \in markets : f.segment[2] = m
    BY <2>2
  <2> HIDE DEF markets, M
  <2> QED
    BY <2>3
<1>7. ASSUME NEW m \in M
      PROVE  /\ F[m] \in Factors(Table) /\ F[m].segment = <<"market_type", m>>
  <2> HIDE DEF F, M
  <2>1. F[m] \in Factors(Table) /\ F[m].segment[1] = "market_type" /\ F[m].segment[2] = m
    BY <1>0, <1>6
  <2>2. F[m].segment \in Segments(Table)
    BY <1>0, <2>1, FactorSpeaksOf
  <2>3. F[m].segment # Overall
    BY <2>1 DEF Overall
  <2>4. PICK row \in Table : F[m].segment \in SegmentsOf(row.bet)
    BY <2>2, <2>3 DEF Segments
  <2>5. F[m].segment = <<"market_type", row.bet.market>>
    BY <2>1, <2>4 DEF SegmentsOf, Overall
  <2>6. row.bet.market = m
    BY <2>1, <2>5
  <2> QED
    BY <2>1, <2>5, <2>6
<1>8. ASSUME NEW m \in M
      PROVE  Scoreable(InSegment(Table, <<"market_type", m>>)) = PartOf(used, part, m)
  <2> DEFINE key == <<"market_type", m>>
  <2>1. \A bet : key \in SegmentsOf(bet) <=> bet.market = m
    BY DEF SegmentsOf, Overall
  <2>2. Scoreable(InSegment(Table, key)) = {row \in used : row.bet.market = m}
    <3> HIDE DEF key
    <3> QED
      BY <2>1 DEF InSegment, Scoreable, Of
  <2>3. PartOf(used, part, m) = {row \in used : row.bet.market = m}
    BY DEF PartOf
  <2> QED
    BY <2>2, <2>3
<1>9. ASSUME NEW m \in M
      PROVE  /\ W[m] = Cardinality(PartOf(wins, part, m)) /\ W[m] \in Int
             /\ P[m] = SumFunctionOnSet(Prediction, PartOf(used, part, m)) /\ P[m] \in Int
  <2> DEFINE scored == Scoreable(InSegment(Table, F[m].segment))
  <2>1. /\ scored \subseteq Table
        /\ F[m].predicted = Predicted(scored) /\ F[m].predicted \in Int
        /\ F[m].won = Cardinality(Of(scored, "won")) /\ F[m].won \in Nat
    BY <1>0, <1>7, FactorSpeaksOf
  <2>2. scored = PartOf(used, part, m)
    BY <1>7, <1>8
  <2>3. Of(PartOf(used, part, m), "won") = PartOf(wins, part, m)
    BY DEF Of, PartOf
  <2>4. Predicted(scored) = SumFunctionOnSet(Prediction, scored)
    <3> HIDE DEF scored
    <3> QED
      BY <1>0, <2>1, PredictedIsASum
  <2>5. W[m] = F[m].won /\ P[m] = F[m].predicted
    OBVIOUS
  <2> HIDE DEF scored, W, P, F, used, wins, part, M
  <2> QED
    BY <2>1, <2>2, <2>3, <2>4, <2>5
<1>10. \A m \in M : W[m] = F[m].won /\ P[m] = F[m].predicted /\ F[m] \in markets
  <2> HIDE DEF F, markets
  <2> QED
    BY <1>6
<1> HIDE DEF W, P, F, M, markets
<1>11. SumFunctionOnSet(W, M) = oW
  <2>1. \A row \in wins : part[row] \in M
    BY <1>2, <1>5
  <2> HIDE DEF used, wins, part
  <2> QED
    BY <1>2, <1>3, <1>4, <1>9, <2>1, CardinalityOfParts
<1>12. SumFunctionOnSet(P, M) = oP
  <2> HIDE DEF used, wins, part
  <2> QED
    BY <1>3, <1>4, <1>5, <1>9, SumOfParts
<1>13. PICK m0 \in M : TRUE
  <2>1. used # {}
    <3> HIDE DEF used
    <3>1. used = {} => oP = 0
      BY <1>3, SumEmpty
    <3> QED
      BY <1>2, <3>1
  <2> HIDE DEF used, part
  <2> QED
    BY <1>5, <2>1
<1> DEFINE left == [m \in M |-> oP * W[m]]
           right == [m \in M |-> oW * P[m]]
<1>a. oP \in Int /\ oW \in Int /\ \A m \in M : W[m] \in Int /\ P[m] \in Int
  <2> HIDE DEF used, wins, part
  <2>1. \A m \in M : W[m] \in Int /\ P[m] \in Int
    BY <1>9
  <2> QED
    BY <1>2, <2>1
<1>b. \A x, y \in Int : x * y \in Int /\ x * y = y * x
  OBVIOUS
<1>14. \A m \in M : /\ left[m] \in Int /\ right[m] \in Int
                    /\ left[m] = oP * W[m] /\ right[m] = oW * P[m]
  BY <1>a, <1>b
<1> HIDE DEF left, right
<1>15. SumFunctionOnSet(left, M) = oP * oW
  <2>1. \A m \in M : W[m] \in Int /\ left[m] = oP * W[m]
    BY <1>a, <1>14
  <2>2. SumFunctionOnSet(left, M) = oP * SumFunctionOnSet(W, M)
    BY <1>4, <1>a, <2>1, SumTimes
  <2> QED
    BY <1>11, <2>2
<1>16. SumFunctionOnSet(right, M) = oW * oP
  <2>1. \A m \in M : P[m] \in Int /\ right[m] = oW * P[m]
    BY <1>a, <1>14
  <2>2. SumFunctionOnSet(right, M) = oW * SumFunctionOnSet(P, M)
    BY <1>4, <1>a, <2>1, SumTimes
  <2> QED
    BY <1>12, <2>2
<1>17. oP * oW = oW * oP /\ oP * oW \in Int
  BY <1>2
<1>18. \E m \in M : left[m] <= right[m]
  <2> SUFFICES ASSUME \A m \in M : right[m] < left[m] PROVE FALSE
    BY <1>14
  <2>1. SumFunctionOnSet(right, M) < SumFunctionOnSet(left, M)
    BY <1>4, <1>13, <1>14, SumLeq
  <2> QED
    BY <1>15, <1>16, <1>17, <2>1
<1>19. \E m \in M : left[m] >= right[m]
  <2> SUFFICES ASSUME \A m \in M : left[m] < right[m] PROVE FALSE
    BY <1>14
  <2>1. SumFunctionOnSet(left, M) < SumFunctionOnSet(right, M)
    BY <1>4, <1>13, <1>14, SumLeq
  <2> QED
    BY <1>15, <1>16, <1>17, <2>1
<1>20. \A m \in M : left[m] = F[m].won * oP /\ right[m] = oW * F[m].predicted
  BY <1>a, <1>b, <1>10, <1>14
<1> QED
  BY <1>10, <1>18, <1>19, <1>20 DEF oP, oW, markets

-----------------------------------------------------------------------------
(* Where a prediction may be reported *)

LEMMA Division ==
  ASSUME NEW a \in Nat, NEW b \in Nat \ {0}
  PROVE  /\ a \div b \in Nat /\ a % b \in Nat
         /\ b * (a \div b) <= a /\ a < b * ((a \div b) + 1)
         /\ a = b * (a \div b) + (a % b)
  OBVIOUS

(* Products keep an order, the other way too. *)
LEMMA ProductOrder ==
  ASSUME NEW b \in Nat \ {0}, NEW x \in Int, NEW y \in Int
  PROVE  /\ x <= y => b * x <= b * y
         /\ b * x < b * y => x < y
         /\ b * (x + 1) = b * x + b
         /\ b * x \in Int
  OBVIOUS

LEMMA BucketHoldsPrediction ==
  ASSUME NEW p \in 0..Unit, NEW index \in BucketsFor(p)
  PROVE  /\ index \in Int
         /\ BucketWidth * index <= p
         /\ (index < LastBucket \/ Unit <= BucketWidth * NumBuckets) =>
              p <= BucketWidth * (index + 1)
<1> DEFINE w == BucketWidth
           exact == p \div w
<1>1. w \in Nat \ {0} /\ Unit \in Nat /\ p \in Nat /\ p <= Unit
  BY CalibrationAssumption
<1>2. NumBuckets \in Int /\ LastBucket = NumBuckets - 1
  <2>1. Unit \div w \in Nat
    BY <1>1, Division
  <2> QED
    BY <2>1 DEF NumBuckets, LastBucket
<1>3. exact \in Nat /\ w * exact <= p /\ p < w * (exact + 1) /\ (p % w = 0 => p = w * exact)
  <2>1. exact \in Nat /\ w * exact <= p /\ p < w * (exact + 1) /\ p = w * exact + (p % w) /\ p % w \in Nat
    BY <1>1, Division
  <2>2. w * exact \in Int
    BY <1>1, <2>1
  <2> HIDE DEF exact, w
  <2> QED
    BY <1>1, <2>1, <2>2
<1>4. PICK at : /\ index = Min({at, LastBucket})
                /\ at = exact \/ (at = exact - 1 /\ p % w = 0)
  BY DEF BucketsFor
<1> HIDE DEF exact, w
<1>5. at \in Int /\ LastBucket \in Int
  BY <1>2, <1>3, <1>4
<1>6. index \in Int /\ index <= at /\ (index = at \/ index = LastBucket)
  <2>1. \A a, b \in Int : /\ Min({a, b}) \in Int /\ Min({a, b}) <= a /\ Min({a, b}) <= b
                          /\ Min({a, b}) \in {a, b} /\ (a <= b => Min({a, b}) = a)
    BY MinOfTwo
  <2> QED
    BY <1>4, <1>5, <2>1
<1>7. at <= exact /\ index <= exact
  BY <1>3, <1>4, <1>5, <1>6
<1>8. w * index <= p
  <2>1. w * index <= w * exact /\ w * index \in Int /\ w * exact \in Int
    BY <1>1, <1>3, <1>6, <1>7, ProductOrder
  <2> QED
    BY <1>1, <1>3, <2>1
<1>9. index = at => p <= w * (index + 1)
  <2>1. at = exact => p <= w * (at + 1)
    <3>1. w * (exact + 1) \in Int
      BY <1>1, <1>3, ProductOrder
    <3> QED
      BY <1>1, <1>3, <3>1
  <2>2. at = exact - 1 => at + 1 = exact
    BY <1>3
  <2>3. (at = exact - 1 /\ p % w = 0) => p <= w * (at + 1)
    <3>1. p % w = 0 => p <= w * exact
      BY <1>1, <1>3
    <3> QED
      BY <2>2, <3>1
  <2> QED
    BY <1>4, <2>1, <2>3
<1>10. (index = LastBucket /\ Unit <= w * NumBuckets) => p <= w * (index + 1)
  <2>1. LastBucket + 1 = NumBuckets
    BY <1>2
  <2>2. Unit <= w * NumBuckets => p <= w * NumBuckets
    <3>1. w * NumBuckets \in Int
      BY <1>1, <1>2, ProductOrder
    <3> QED
      BY <1>1, <3>1
  <2> QED
    BY <2>1, <2>2
<1>11. (index < LastBucket \/ Unit <= w * NumBuckets) => p <= w * (index + 1)
  BY <1>5, <1>6, <1>9, <1>10
<1> QED
  BY <1>6, <1>8, <1>11 DEF w

(* So do their sums, bucket by bucket. *)
LEMMA SumIsBetween ==
  ASSUME NEW f, NEW S, IsFiniteSet(S), NEW low \in Int, NEW high \in Int,
         \A x \in S : f[x] \in Int
  PROVE  /\ (\A x \in S : low <= f[x]) => low * Cardinality(S) <= SumFunctionOnSet(f, S)
         /\ (\A x \in S : f[x] <= high) => SumFunctionOnSet(f, S) <= high * Cardinality(S)
<1> DEFINE ones == [x \in S |-> 1]
           lows == [x \in S |-> low]
           highs == [x \in S |-> high]
<1>1. \A x \in S : /\ ones[x] = 1 /\ ones[x] \in Int
                   /\ lows[x] = low * ones[x] /\ highs[x] = high * ones[x]
                   /\ lows[x] = low /\ highs[x] = high
  OBVIOUS
<1> HIDE DEF ones, lows, highs
<1>2. SumFunctionOnSet(ones, S) = Cardinality(S)
  BY <1>1, SumOfOnes
<1>3. SumFunctionOnSet(lows, S) = low * Cardinality(S)
  <2>1. \A x \in S : ones[x] \in Int /\ lows[x] = low * ones[x]
    BY <1>1
  <2> QED
    BY <1>2, <2>1, SumTimes
<1>4. SumFunctionOnSet(highs, S) = high * Cardinality(S)
  <2>1. \A x \in S : ones[x] \in Int /\ highs[x] = high * ones[x]
    BY <1>1
  <2> QED
    BY <1>2, <2>1, SumTimes
<1>5. ASSUME \A x \in S : low <= f[x]
      PROVE  SumFunctionOnSet(lows, S) <= SumFunctionOnSet(f, S)
  <2>1. \A x \in S : lows[x] \in Int /\ f[x] \in Int /\ lows[x] <= f[x]
    BY <1>1, <1>5
  <2> QED
    BY <2>1, SumLeq
<1>6. ASSUME \A x \in S : f[x] <= high
      PROVE  SumFunctionOnSet(f, S) <= SumFunctionOnSet(highs, S)
  <2>1. \A x \in S : f[x] \in Int /\ highs[x] \in Int /\ f[x] <= highs[x]
    BY <1>1, <1>6
  <2> QED
    BY <2>1, SumLeq
<1> QED
  BY <1>3, <1>4, <1>5, <1>6

LEMMA BucketsBracket ==
  ASSUME CalInv
  PROVE  BucketsBracketPredictions
<1> SUFFICES ASSUME NEW s \in Sessions, NEW key \in DOMAIN report[s].by,
                    NEW index \in DOMAIN report[s].by[key].curve
             PROVE  LET bucket == report[s].by[key].curve[index] IN
                      /\ index * BucketWidth * bucket.size <= bucket.predicted
                      /\ (index < LastBucket \/ Unit <= NumBuckets * BucketWidth) =>
                           bucket.predicted <= (index + 1) * BucketWidth * bucket.size
  BY DEF BucketsBracketPredictions
<1> DEFINE rows == Selected(Table, report[s].source, report[s].market)
           bucket == report[s].by[key].curve[index]
<1>1. report[s] # NoReport
  <2>1. NoReport.by = <<>> /\ DOMAIN <<>> = {}
    BY DEF NoReport
  <2> QED
    BY <2>1
<1>2. PICK bucketOf \in Bucketings(rows) :
        report[s].by = [k \in Segments(rows) |-> Metrics(InSegment(rows, k), bucketOf)]
  BY <1>1, ReportIsOfTheTable
<1>3. rows \subseteq Table /\ disk \in Archives
  BY DEF Selected, CalInv, CalTypes
<1> HIDE DEF rows
<1>4. key \in Segments(rows) /\ report[s].by[key] = Metrics(InSegment(rows, key), bucketOf)
  BY <1>2
<1> DEFINE held == {row \in InSegment(rows, key) \ Of(InSegment(rows, key), "push") :
                      bucketOf[row.bet.p] = index}
<1>5. index \in 0..LastBucket /\ bucket.size = Cardinality(held) /\ bucket.predicted = Predicted(held)
  BY <1>4 DEF Metrics
<1>6. held \subseteq Table /\ held \subseteq rows
  BY <1>3 DEF InSegment
<1>7. \A row \in held : index \in BucketsFor(row.bet.p)
  BY <1>6 DEF Bucketings
<1> HIDE DEF held
<1>8. /\ IsFiniteSet(held) /\ Cardinality(held) \in Nat
      /\ \A row \in held : Prediction[row] = row.bet.p /\ row.bet.p \in 0..Unit
      /\ Predicted(held) = SumFunctionOnSet(Prediction, held)
  BY <1>3, <1>6, PredictedIsASum
<1>9. index \in Int /\ BucketWidth \in Nat /\ Unit \in Nat
  BY <1>5, BucketsAreFinite, CalibrationAssumption
<1> DEFINE low == BucketWidth * index
           high == BucketWidth * (index + 1)
<1>10. low \in Int /\ high \in Int
  BY <1>9
<1> DEFINE bounded == index < LastBucket \/ Unit <= BucketWidth * NumBuckets
<1>11. ASSUME NEW row \in held
       PROVE  /\ Prediction[row] \in Int /\ low <= Prediction[row]
              /\ bounded => Prediction[row] <= high
  <2>1. Prediction[row] = row.bet.p /\ row.bet.p \in 0..Unit /\ index \in BucketsFor(row.bet.p)
    BY <1>7, <1>8
  <2>2. BucketWidth * index <= row.bet.p /\ (bounded => row.bet.p <= BucketWidth * (index + 1))
    BY <2>1, BucketHoldsPrediction
  <2> QED
    BY <1>9, <2>1, <2>2
<1>12. low = index * BucketWidth /\ high = (index + 1) * BucketWidth
  BY <1>9
<1>a. NumBuckets * BucketWidth = BucketWidth * NumBuckets
  <2>1. Unit \div BucketWidth \in Nat
    BY CalibrationAssumption, Division
  <2>2. NumBuckets \in Int
    BY <2>1 DEF NumBuckets
  <2> QED
    BY <1>9, <2>2
<1> HIDE DEF low, high, bucket, bounded
<1>13. /\ low * Cardinality(held) <= Predicted(held)
       /\ bounded => Predicted(held) <= high * Cardinality(held)
  BY <1>8, <1>10, <1>11, SumIsBetween
<1>14. /\ (index * BucketWidth) * bucket.size <= bucket.predicted
       /\ bounded => bucket.predicted <= ((index + 1) * BucketWidth) * bucket.size
  BY <1>5, <1>12, <1>13 DEF bucket
<1> QED
  BY <1>14, <1>a DEF bucket, bounded

-----------------------------------------------------------------------------
(* What holds of every run *)

(* Every variable keeps its type, and no report is without its whole.        *)
THEOREM CalibrationTypes == Spec => []TypeOK
  BY CalibrationIsSound, ReportsAreTyped, PTL

(* A correction factor calibrates the bets it was computed from: corrected,  *)
(* their probabilities add up to the bets that were won, and to no more even *)
(* where one is cut off at 1 (CorrectionFactorService, apply_correction_     *)
(* factor).                                                                  *)
THEOREM FactorsCalibrateTheirBets == Spec => []CorrectionIsCalibrated
  BY CalibrationIsSound, FactorsCalibrate, PTL

(* The overall factor a recomputation saves lies between the smallest and    *)
(* the largest of the market types' factors.                                 *)
THEOREM OverallLiesWithin == Spec => []OverallWithinMarkets
  BY CalibrationIsSound, OverallWithin, PTL

(* The report and the correction factors speak of the same bets, though each *)
(* service sorts them into segments on its own and the report goes through   *)
(* buckets.                                                                  *)
THEOREM ServicesSpeakOfTheSameBets == Spec => []ReportMatchesFactors
  BY CalibrationIsSound, ReportsMatch, PTL

(* Wherever the division of floats puts a prediction that lies on the border *)
(* of two buckets, its bucket's bounds hold it, for every width: all but a   *)
(* prediction beyond the last bucket of a width that does not divide 1.      *)
THEOREM BucketsHoldTheirMeans == Spec => []BucketsBracketPredictions
  BY CalibrationIsSound, BucketsBracket, PTL

(* Filtering a report on a market says what its segment says.                *)
THEOREM FilterAgreesWithSegment == Spec => []FilterIsASegment
  BY CalibrationIsSound, FiltersAreSegments, PTL

(* Recomputing and reporting are requests of the session layer, which they   *)
(* use in no other way than it allows.                                       *)
THEOREM CalibrationImplementsLayer == Spec => UowSpec
<1>1. Init => UowInit
  BY DEF Init
<1>2. CalInv /\ [Next]_vars => [UowNext]_uowVars
  BY CalibrationUsesLayer
<1> QED
  BY <1>1, <1>2, CalibrationIsSound, PTL DEF Spec, UowSpec
=============================================================================
