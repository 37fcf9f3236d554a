------------------------------ MODULE SumLemmas ------------------------------
(***************************************************************************)
(* Sums over finite sets, as the queries and the account form them: that   *)
(* the fold SumFunctionOnSet is the sum one expects, whatever the order in *)
(* which it takes the elements.  An element is taken by CHOOSE.            *)
(***************************************************************************)
EXTENDS Integers, FiniteSets, FiniteSetsExt, FiniteSetTheorems, WellFoundedInduction, TLAPS

\* The element that the fold takes from a set.
Some(S) == CHOOSE x \in S : TRUE

(* f has the sums of w over the subsets of S; the recursion is that of the  *)
(* fold, so that the two can be compared.                                  *)
Sums(f, w, S) ==
    f = [s \in SUBSET S |-> IF s = {} THEN 0 ELSE w[Some(s)] + f[s \ {Some(s)}]]

Total(w, S) == (CHOOSE f : Sums(f, w, S))[S]

(* A set that is not empty has such an element.                             *)
LEMMA SomeIsIn == ASSUME NEW S, S # {} PROVE Some(S) \in S
  BY DEF Some

(* Among finite sets there is a smallest one: what fails for some finite    *)
(* set fails for one all of whose proper subsets it holds for.             *)
LEMMA SmallestSet ==
    ASSUME NEW F, F # {}, \A S \in F : IsFiniteSet(S)
    PROVE  \E S \in F : \A T \in F : Cardinality(S) <= Cardinality(T)
<1> DEFINE sizes == {Cardinality(S) : S \in F}
<1>1. sizes \in SUBSET Nat /\ sizes # {}
  BY FS_CardinalityType
<1> DEFINE Less == {ss \in Nat \X Nat : ss[1] < ss[2]}
<1>2. IsWellFoundedOn(Less, Nat)
  BY NatLessThanWellFounded DEF OpToRel
<1>3. PICK n \in sizes : \A m \in sizes : <<m, n>> \notin Less
  <2> HIDE DEF Less, sizes
  <2> QED
    BY <1>1, <1>2, WFMin
<1>4. ASSUME NEW m \in sizes PROVE n <= m
  <2>1. m \in Nat /\ n \in Nat
    BY <1>1
  <2> HIDE DEF sizes
  <2>2. <<m, n>> \in Nat \X Nat /\ <<m, n>>[1] = m /\ <<m, n>>[2] = n
    BY <2>1
  <2>3. m < n => <<m, n>> \in Less
    BY <2>2, Zenon
  <2> QED
    BY <1>3, <2>1, <2>3
<1> QED
  BY <1>4

(* A set is smaller without one of its elements.                            *)
LEMMA SmallerSet ==
    ASSUME NEW S, IsFiniteSet(S), NEW x \in S
    PROVE  IsFiniteSet(S \ {x}) /\ Cardinality(S \ {x}) < Cardinality(S)
<1>1. IsFiniteSet(S \ {x}) /\ Cardinality(S \ {x}) = Cardinality(S) - 1
  BY FS_RemoveElement
<1>2. Cardinality(S) \in Nat
  BY FS_CardinalityType
<1> QED
  BY <1>1, <1>2

(* The recursion determines the sum of a finite set.                        *)
LEMMA SumsAgree ==
    ASSUME NEW A, NEW B, NEW w, NEW f, NEW g, Sums(f, w, A), Sums(g, w, B),
           NEW S, IsFiniteSet(S), S \subseteq A, S \subseteq B
    PROVE  f[S] = g[S]
<1> DEFINE Bad == {s \in SUBSET S : f[s] # g[s]}
<1>1. ASSUME Bad # {} PROVE FALSE
  <2>1. \A s \in Bad : IsFiniteSet(s)
    BY FS_Subset
  <2>2. PICK s \in Bad : \A t \in Bad : Cardinality(s) <= Cardinality(t)
    BY <1>1, <2>1, SmallestSet
  <2>3. s \in SUBSET A /\ s \in SUBSET B
    OBVIOUS
  <2>4. /\ f[s] = IF s = {} THEN 0 ELSE w[Some(s)] + f[s \ {Some(s)}]
        /\ g[s] = IF s = {} THEN 0 ELSE w[Some(s)] + g[s \ {Some(s)}]
    BY <2>3 DEF Sums
  <2>5. s # {}
    BY <2>4
  <2>6. f[s \ {Some(s)}] = g[s \ {Some(s)}]
    <3>1. Some(s) \in s
      BY <2>5, SomeIsIn
    <3>2. Cardinality(s \ {Some(s)}) < Cardinality(s) /\ IsFiniteSet(s) /\ IsFiniteSet(s \ {Some(s)})
      BY <2>1, <3>1, SmallerSet
    <3>3. s \ {Some(s)} \notin Bad
      BY <2>2, <3>2, FS_CardinalityType
    <3> QED
      BY <3>3
  <2> QED
    BY <2>4, <2>5, <2>6
<1> QED
  BY <1>1

(* The recursion has a solution over the subsets of a finite set: one step  *)
(* over the totals of the smaller sets.                                    *)
LEMMA SumsExist ==
    ASSUME NEW w, NEW S, IsFiniteSet(S)
    PROVE  \E f : Sums(f, w, S)
<1> DEFINE Bad == {s \in SUBSET S : ~\E f : Sums(f, w, s)}
<1>1. ASSUME Bad # {} PROVE FALSE
  <2>1. \A s \in Bad : IsFiniteSet(s)
    BY FS_Subset
  <2>2. PICK T \in Bad : \A t \in Bad : Cardinality(T) <= Cardinality(t)
    BY <1>1, <2>1, SmallestSet
  <2>3. \A s \in SUBSET T : s # T => \E f : Sums(f, w, s)
    <3> SUFFICES ASSUME NEW s \in SUBSET T, s # T, s \in Bad PROVE FALSE
      OBVIOUS
    <3>1. PICK x \in T : x \notin s
      OBVIOUS
    <3>2. Cardinality(T \ {x}) < Cardinality(T) /\ IsFiniteSet(T \ {x}) /\ IsFiniteSet(T)
      BY <2>1, SmallerSet
    <3>3. s \subseteq T \ {x}
      BY <3>1
    <3>4. Cardinality(s) <= Cardinality(T \ {x}) /\ IsFiniteSet(s)
      BY <3>2, <3>3, FS_Subset
    <3> QED
      BY <2>2, <3>2, <3>4, FS_CardinalityType
  <2> DEFINE F == [s \in SUBSET T |->
                     IF s = {} THEN 0 ELSE w[Some(s)] + Total(w, s \ {Some(s)})]
  <2>4. ASSUME NEW r \in SUBSET T, r # T PROVE Total(w, r) = F[r]
    <3>1. PICK f : f = CHOOSE g : Sums(g, w, r)
      OBVIOUS
    <3>2. Sums(f, w, r)
      BY <2>3, <2>4, <3>1
    <3>3. Total(w, r) = f[r]
      BY <3>1 DEF Total
    <3>4. f[r] = IF r = {} THEN 0 ELSE w[Some(r)] + f[r \ {Some(r)}]
      BY <3>2 DEF Sums
    <3>5. ASSUME r # {} PROVE f[r \ {Some(r)}] = Total(w, r \ {Some(r)})
      <4> DEFINE q == r \ {Some(r)}
      <4>1. q \in SUBSET T /\ q # T /\ q \subseteq r
        BY <2>4
      <4>2. PICK h : h = CHOOSE g : Sums(g, w, q)
        OBVIOUS
      <4>3. Sums(h, w, q) /\ Total(w, q) = h[q]
        BY <2>3, <4>1, <4>2 DEF Total
      <4>4. IsFiniteSet(q)
        BY <2>1, <4>1, FS_Subset
      <4> QED
        BY <3>2, <4>1, <4>3, <4>4, SumsAgree
    <3> QED
      BY <3>3, <3>4, <3>5
  <2>5. Sums(F, w, T)
    <3> SUFFICES ASSUME NEW s \in SUBSET T, s # {}
                 PROVE  Total(w, s \ {Some(s)}) = F[s \ {Some(s)}]
      BY DEF Sums
    <3>1. Some(s) \in s
      BY SomeIsIn
    <3> QED
      BY <2>4, <3>1
  <2> QED
    BY <2>2, <2>5
<1> QED
  BY <1>1

(* The total of a set, by the element the recursion takes.                  *)
LEMMA TotalIs ==
    ASSUME NEW w, NEW S, IsFiniteSet(S)
    PROVE  Total(w, S) = IF S = {} THEN 0 ELSE w[Some(S)] + Total(w, S \ {Some(S)})
<1>1. PICK f : f = CHOOSE g : Sums(g, w, S)
  OBVIOUS
<1>2. Sums(f, w, S) /\ Total(w, S) = f[S]
  BY <1>1, SumsExist DEF Total
<1>3. f[S] = IF S = {} THEN 0 ELSE w[Some(S)] + f[S \ {Some(S)}]
  BY <1>2 DEF Sums
<1> DEFINE q == S \ {Some(S)}
<1>4. PICK h : h = CHOOSE g : Sums(g, w, q)
  OBVIOUS
<1>5. IsFiniteSet(q) /\ q \subseteq S
  BY FS_Subset
<1>6. Sums(h, w, q) /\ Total(w, q) = h[q]
  BY <1>4, <1>5, SumsExist DEF Total
<1>7. f[q] = h[q]
  BY <1>2, <1>5, <1>6, SumsAgree
<1> QED
  BY <1>2, <1>3, <1>6, <1>7

(* Integers have an integer total.                                          *)
LEMMA TotalIsInt ==
    ASSUME NEW S, IsFiniteSet(S), NEW w, \A x \in S : w[x] \in Int
    PROVE  Total(w, S) \in Int
<1> DEFINE Bad == {s \in SUBSET S : Total(w, s) \notin Int}
<1>1. ASSUME Bad # {} PROVE FALSE
  <2>1. \A s \in Bad : IsFiniteSet(s)
    BY FS_Subset
  <2>2. PICK T \in Bad : \A t \in Bad : Cardinality(T) <= Cardinality(t)
    BY <1>1, <2>1, SmallestSet
  <2>3. Total(w, T) = IF T = {} THEN 0 ELSE w[Some(T)] + Total(w, T \ {Some(T)})
    BY <2>1, TotalIs
  <2>4. T # {}
    BY <2>3
  <2>5. Some(T) \in T
    BY <2>4, SomeIsIn
  <2>6. T \ {Some(T)} \notin Bad
    BY <2>1, <2>2, <2>5, SmallerSet, FS_CardinalityType
  <2> QED
    BY <2>3, <2>4, <2>5, <2>6
<1> QED
  BY <1>1

(* The total of a set, by any of its elements: the order does not matter.   *)
LEMMA TotalTakes ==
    ASSUME NEW S, IsFiniteSet(S), NEW w, \A x \in S : w[x] \in Int, NEW y \in S
    PROVE  Total(w, S) = w[y] + Total(w, S \ {y})
<1> DEFINE Bad == {s \in SUBSET S : \E x \in s : Total(w, s) # w[x] + Total(w, s \ {x})}
<1>1. ASSUME Bad # {} PROVE FALSE
  <2>1. \A s \in Bad : IsFiniteSet(s)
    BY FS_Subset
  <2>2. PICK T \in Bad : \A t \in Bad : Cardinality(T) <= Cardinality(t)
    BY <1>1, <2>1, SmallestSet
  <2>3. PICK x \in T : Total(w, T) # w[x] + Total(w, T \ {x})
    OBVIOUS
  <2> DEFINE p == Some(T)
  <2>4. p \in T
    BY SomeIsIn
  <2> HIDE DEF p
  <2>5. Total(w, T) = w[p] + Total(w, T \ {p})
    BY <2>1, TotalIs DEF p
  <2>6. p # x
    BY <2>3, <2>5
  <2>7. /\ IsFiniteSet(T \ {p}) /\ Cardinality(T \ {p}) < Cardinality(T)
        /\ IsFiniteSet(T \ {x}) /\ Cardinality(T \ {x}) < Cardinality(T)
    BY <2>1, <2>4, SmallerSet
  <2>8. T \ {p} \notin Bad /\ T \ {x} \notin Bad
    <3>1. Cardinality(T) \in Nat /\ Cardinality(T \ {p}) \in Nat /\ Cardinality(T \ {x}) \in Nat
      BY <2>1, <2>7, FS_CardinalityType
    <3>2. ~(Cardinality(T) <= Cardinality(T \ {p})) /\ ~(Cardinality(T) <= Cardinality(T \ {x}))
      BY <2>7, <3>1
    <3> QED
      BY <2>2, <3>2
  <2>9. Total(w, T \ {p}) = w[x] + Total(w, (T \ {p}) \ {x})
    BY <2>6, <2>8
  <2>10. Total(w, T \ {x}) = w[p] + Total(w, (T \ {x}) \ {p})
    BY <2>4, <2>6, <2>8
  <2>11. (T \ {p}) \ {x} = (T \ {x}) \ {p}
    OBVIOUS
  <2>12. Total(w, (T \ {x}) \ {p}) \in Int
    <3>1. IsFiniteSet((T \ {x}) \ {p})
      BY <2>7, FS_Subset
    <3> QED
      BY <3>1, TotalIsInt
  <2>13. w[p] \in Int /\ w[x] \in Int
    BY <2>4
  <2> DEFINE rest == Total(w, (T \ {x}) \ {p})
  <2>14. /\ Total(w, T) = w[p] + (w[x] + rest)
         /\ Total(w, T \ {x}) = w[p] + rest
    BY <2>5, <2>9, <2>10, <2>11
  <2>15. rest \in Int
    BY <2>12
  <2> HIDE DEF rest
  <2>16. w[p] + (w[x] + rest) = w[x] + (w[p] + rest)
    BY <2>13, <2>15
  <2> QED
    BY <2>3, <2>14, <2>16
<1> QED
  BY <1>1

(* A total grows with its terms, and with further terms of zero or more.    *)
LEMMA TotalGrows ==
    ASSUME NEW S, IsFiniteSet(S), NEW T \in SUBSET S, NEW v, NEW w,
           \A x \in S : w[x] \in Int,
           \A x \in T : v[x] \in Int /\ v[x] <= w[x],
           \A x \in S \ T : w[x] >= 0
    PROVE  Total(v, T) <= Total(w, S)
<1> DEFINE Bad == {s \in SUBSET S : ~(Total(v, T \cap s) <= Total(w, s))}
<1>1. ASSUME Bad # {} PROVE FALSE
  <2>1. \A s \in Bad : IsFiniteSet(s)
    BY FS_Subset
  <2>2. PICK s \in Bad : \A t \in Bad : Cardinality(s) <= Cardinality(t)
    BY <1>1, <2>1, SmallestSet
  <2>3. CASE s = {}
    <3>1. Total(v, {}) = 0 /\ Total(w, {}) = 0
      BY FS_EmptySet, TotalIs
    <3>2. T \cap s = {}
      BY <2>3
    <3> QED
      BY <2>3, <3>1, <3>2
  <2>4. CASE s # {}
    <3>1. PICK x : x \in s
      BY <2>4
    <3> DEFINE r == s \ {x}
    <3>2. IsFiniteSet(r) /\ Cardinality(r) < Cardinality(s) /\ IsFiniteSet(s)
      BY <2>1, <3>1, SmallerSet
    <3>3. Total(v, T \cap r) <= Total(w, r)
      BY <2>2, <3>2, FS_CardinalityType
    <3>4. Total(w, s) = w[x] + Total(w, r) /\ Total(w, r) \in Int /\ w[x] \in Int
      BY <3>1, <3>2, TotalTakes, TotalIsInt
    <3>5. IsFiniteSet(T \cap s) /\ IsFiniteSet(T \cap r)
      BY <3>2, FS_Subset
    <3>6. CASE x \in T
      <4>1. x \in T \cap s /\ (T \cap s) \ {x} = T \cap r
        BY <3>1, <3>6
      <4>2. Total(v, T \cap s) = v[x] + Total(v, T \cap r)
        BY <3>5, <4>1, TotalTakes
      <4>3. Total(v, T \cap r) \in Int
        BY <3>5, TotalIsInt
      <4>4. v[x] \in Int /\ v[x] <= w[x]
        BY <3>6
      <4>5. Total(v, T \cap s) <= Total(w, s)
        <5> HIDE DEF r
        <5> QED
          BY <3>3, <3>4, <4>2, <4>3, <4>4
      <4> QED
        BY <4>5
    <3>7. CASE x \notin T
      <4>1. T \cap s = T \cap r
        BY <3>7
      <4>2. Total(v, T \cap r) \in Int /\ w[x] >= 0
        BY <3>1, <3>5, <3>7, TotalIsInt
      <4>3. Total(v, T \cap s) = Total(v, T \cap r)
        BY <4>1
      <4>4. Total(v, T \cap s) <= Total(w, s)
        <5> HIDE DEF r
        <5> QED
          BY <3>3, <3>4, <4>2, <4>3
      <4> QED
        BY <4>4
    <3> QED
      BY <3>6, <3>7
  <2> QED
    BY <2>3, <2>4
<1>2. S \notin Bad /\ T \cap S = T
  BY <1>1
<1> QED
  BY <1>2

(* The sum of the community modules is this total.                          *)
LEMMA SumIsTotal ==
    ASSUME NEW S, IsFiniteSet(S), NEW w
    PROVE  SumFunctionOnSet(w, S) = Total(w, S)
<1> DEFINE g == CHOOSE f : Sums(f, w, S)
<1>1. SumFunctionOnSet(w, S) = g[S]
  BY DEF SumFunctionOnSet, FoldFunctionOnSet, MapThenFoldSet, Some, Sums
<1> QED
  BY <1>1 DEF Total

(* Sums of integers over finite sets, in terms of the library's operator.   *)
LEMMA SumIsInt ==
    ASSUME NEW S, IsFiniteSet(S), NEW w, \A x \in S : w[x] \in Int
    PROVE  SumFunctionOnSet(w, S) \in Int
  BY SumIsTotal, TotalIsInt

(* A sum by any of its terms.                                               *)
LEMMA SumTakes ==
    ASSUME NEW S, IsFiniteSet(S), NEW w, \A x \in S : w[x] \in Int, NEW y \in S
    PROVE  SumFunctionOnSet(w, S) = w[y] + SumFunctionOnSet(w, S \ {y})
<1>1. IsFiniteSet(S \ {y})
  BY SmallerSet
<1> QED
  BY <1>1, SumIsTotal, TotalTakes

(* A sum grows with its terms, and with further terms of zero or more.      *)
LEMMA SumGrows ==
    ASSUME NEW S, IsFiniteSet(S), NEW T \in SUBSET S, NEW v, NEW w,
           \A x \in S : w[x] \in Int,
           \A x \in T : v[x] \in Int /\ v[x] <= w[x],
           \A x \in S \ T : w[x] >= 0
    PROVE  SumFunctionOnSet(v, T) <= SumFunctionOnSet(w, S)
<1>1. IsFiniteSet(T)
  BY FS_Subset
<1> QED
  BY <1>1, SumIsTotal, TotalGrows

(* Without terms the sum is nothing.                                        *)
LEMMA SumOfNothing == ASSUME NEW w PROVE SumFunctionOnSet(w, {}) = 0
  BY FS_EmptySet, SumIsTotal, TotalIs

(* Equal terms have an equal sum.                                           *)
LEMMA SumOfEquals ==
    ASSUME NEW S, IsFiniteSet(S), NEW v, NEW w, \A x \in S : v[x] \in Int /\ v[x] = w[x]
    PROVE  SumFunctionOnSet(v, S) = SumFunctionOnSet(w, S)
<1>1. SumFunctionOnSet(v, S) <= SumFunctionOnSet(w, S)
  BY SumGrows
<1>2. SumFunctionOnSet(w, S) <= SumFunctionOnSet(v, S)
  BY SumGrows
<1>3. SumFunctionOnSet(v, S) \in Int /\ SumFunctionOnSet(w, S) \in Int
  BY SumIsInt
<1> QED
  BY <1>1, <1>2, <1>3

(* When one term changes, the sum changes by as much.                       *)
LEMMA SumChanges ==
    ASSUME NEW S, IsFiniteSet(S), NEW v, NEW w, NEW y \in S,
           \A x \in S : v[x] \in Int /\ w[x] \in Int,
           \A x \in S \ {y} : v[x] = w[x]
    PROVE  SumFunctionOnSet(v, S) - v[y] = SumFunctionOnSet(w, S) - w[y]
<1>1. IsFiniteSet(S \ {y})
  BY SmallerSet
<1>2. SumFunctionOnSet(v, S \ {y}) = SumFunctionOnSet(w, S \ {y})
  BY <1>1, SumOfEquals
<1>3. SumFunctionOnSet(v, S \ {y}) \in Int /\ SumFunctionOnSet(w, S \ {y}) \in Int
  BY <1>1, SumIsInt
<1>4. /\ SumFunctionOnSet(v, S) = v[y] + SumFunctionOnSet(v, S \ {y})
      /\ SumFunctionOnSet(w, S) = w[y] + SumFunctionOnSet(w, S \ {y})
  BY SumTakes
<1> QED
  BY <1>2, <1>3, <1>4

(* Terms of zero have a sum of zero.                                        *)
LEMMA SumOfZeros ==
    ASSUME NEW S, IsFiniteSet(S), NEW w, \A x \in S : w[x] = 0
    PROVE  SumFunctionOnSet(w, S) = 0
<1> DEFINE Bad == {T \in SUBSET S : SumFunctionOnSet(w, T) # 0}
<1>1. ASSUME Bad # {} PROVE FALSE
  <2>1. \A T \in Bad : IsFiniteSet(T)
    BY FS_Subset
  <2>2. PICK T \in Bad : \A t \in Bad : Cardinality(T) <= Cardinality(t)
    BY <1>1, <2>1, SmallestSet
  <2>3. PICK x : x \in T
    BY SumOfNothing
  <2>4. SumFunctionOnSet(w, T) = w[x] + SumFunctionOnSet(w, T \ {x})
    <3>1. \A y \in T : w[y] \in Int
      OBVIOUS
    <3> QED
      BY <2>1, <2>3, <3>1, SumTakes
  <2>5. T \ {x} \notin Bad
    BY <2>1, <2>2, <2>3, SmallerSet, FS_CardinalityType
  <2> QED
    BY <2>3, <2>4, <2>5
<1> QED
  BY <1>1

(* A sum of one term.                                                       *)
LEMMA SumOfOne == ASSUME NEW x, NEW w, w[x] \in Int PROVE SumFunctionOnSet(w, {x}) = w[x]
<1>1. IsFiniteSet({x})
  BY FS_Singleton
<1>2. SumFunctionOnSet(w, {x}) = w[x] + SumFunctionOnSet(w, {x} \ {x})
  BY <1>1, SumTakes
<1>3. {x} \ {x} = {}
  OBVIOUS
<1> QED
  BY <1>2, <1>3, SumOfNothing

(* A sum is the sum of its parts, the terms sorted by some key: the last   *)
(* term taken from a smallest set without this property belongs to one of  *)
(* its parts.                                                              *)
LEMMA SumByParts ==
    ASSUME NEW S, IsFiniteSet(S), NEW w, \A x \in S : w[x] \in Int,
           NEW K, IsFiniteSet(K), NEW key, \A x \in S : key[x] \in K
    PROVE  SumFunctionOnSet(w, S) =
             SumFunctionOnSet([k \in K |-> SumFunctionOnSet(w, {x \in S : key[x] = k})], K)
<1> DEFINE Part(T, k) == {x \in T : key[x] = k}
           Parts(T) == [k \in K |-> SumFunctionOnSet(w, Part(T, k))]
           Bad == {T \in SUBSET S : SumFunctionOnSet(w, T) # SumFunctionOnSet(Parts(T), K)}
<1>1. ASSUME Bad # {} PROVE FALSE
  <2>1. \A T \in Bad : IsFiniteSet(T)
    BY FS_Subset
  <2>2. PICK T \in Bad : \A t \in Bad : Cardinality(T) <= Cardinality(t)
    BY <1>1, <2>1, SmallestSet
  <2>3. T \subseteq S /\ IsFiniteSet(T)
    BY <2>1
  <2>4. CASE T = {}
    <3>1. \A k \in K : Parts(T)[k] = 0
      <4> SUFFICES ASSUME NEW k \in K PROVE Parts(T)[k] = 0
        OBVIOUS
      <4>1. Part(T, k) = {}
        BY <2>4
      <4>2. Parts(T)[k] = SumFunctionOnSet(w, Part(T, k))
        OBVIOUS
      <4> QED
        BY <4>1, <4>2, SumOfNothing
    <3>2. PICK parts : parts = Parts(T)
      OBVIOUS
    <3>3. SumFunctionOnSet(parts, K) = 0
      BY <3>1, <3>2, SumOfZeros
    <3>4. SumFunctionOnSet(w, T) = 0
      BY <2>4, SumOfNothing
    <3> QED
      BY <3>2, <3>3, <3>4
  <2>5. CASE T # {}
    <3>1. PICK x : x \in T
      BY <2>5
    <3> DEFINE R == T \ {x}
               k == key[x]
    <3>2. IsFiniteSet(R) /\ Cardinality(R) < Cardinality(T)
      BY <2>3, <3>1, SmallerSet
    <3>3. SumFunctionOnSet(w, R) = SumFunctionOnSet(Parts(R), K)
      BY <2>2, <2>3, <3>2, FS_CardinalityType
    <3>4. SumFunctionOnSet(w, T) = w[x] + SumFunctionOnSet(w, R) /\ w[x] \in Int
      BY <2>3, <3>1, SumTakes
    <3>5. k \in K
      BY <2>3, <3>1
    <3>6. PICK before, after : before = Parts(R) /\ after = Parts(T)
      OBVIOUS
    <3>7. \A l \in K : before[l] \in Int /\ after[l] \in Int
      <4> SUFFICES ASSUME NEW l \in K PROVE before[l] \in Int /\ after[l] \in Int
        OBVIOUS
      <4>1. before[l] = SumFunctionOnSet(w, Part(R, l)) /\ after[l] = SumFunctionOnSet(w, Part(T, l))
        BY <3>6
      <4>2. IsFiniteSet(Part(R, l)) /\ IsFiniteSet(Part(T, l))
        BY <2>3, <3>2, FS_Subset
      <4>3. (\A y \in Part(R, l) : w[y] \in Int) /\ (\A y \in Part(T, l) : w[y] \in Int)
        BY <2>3
      <4> HIDE DEF Part, R
      <4> QED
        BY <4>1, <4>2, <4>3, SumIsInt
    <3>8. \A l \in K \ {k} : before[l] = after[l]
      <4> SUFFICES ASSUME NEW l \in K \ {k} PROVE before[l] = after[l]
        OBVIOUS
      <4>1. Part(R, l) = Part(T, l)
        OBVIOUS
      <4> QED
        BY <3>6, <4>1
    <3>9. after[k] = w[x] + before[k]
      <4>1. x \in Part(T, k) /\ Part(R, k) = Part(T, k) \ {x}
        BY <3>1
      <4>2. IsFiniteSet(Part(T, k)) /\ \A y \in Part(T, k) : w[y] \in Int
        BY <2>3, FS_Subset
      <4>3. before[k] = SumFunctionOnSet(w, Part(R, k)) /\ after[k] = SumFunctionOnSet(w, Part(T, k))
        BY <3>5, <3>6
      <4> HIDE DEF Part, R, k
      <4> QED
        BY <4>1, <4>2, <4>3, SumTakes
    <3>10. /\ SumFunctionOnSet(before, K) - before[k] = SumFunctionOnSet(after, K) - after[k]
           /\ SumFunctionOnSet(before, K) \in Int /\ SumFunctionOnSet(after, K) \in Int
      <4> HIDE DEF k
      <4> QED
        BY <3>5, <3>7, <3>8, SumChanges, SumIsInt
    <3>11. SumFunctionOnSet(w, T) # SumFunctionOnSet(after, K) /\ SumFunctionOnSet(w, R) = SumFunctionOnSet(before, K)
      BY <3>3, <3>6
    <3>12. before[k] \in Int /\ after[k] \in Int
      BY <3>5, <3>7
    <3> HIDE DEF k, R, Bad
    <3> QED
      BY <3>4, <3>9, <3>10, <3>11, <3>12
  <2> QED
    BY <2>4, <2>5
<1>2. S \notin Bad
  BY <1>1
<1> QED
  BY <1>2

(* The image of a finite set is finite.                                     *)
LEMMA ImageIsFinite ==
    ASSUME NEW S, IsFiniteSet(S), NEW key
    PROVE  IsFiniteSet({key[x] : x \in S})
<1> DEFINE f == [x \in S |-> key[x]]
<1>1. f \in Surjection(S, {key[x] : x \in S})
  BY DEF Surjection
<1> QED
  BY <1>1, FS_Surjection

(* The sum over the image of a set whose elements keep apart.               *)
LEMMA SumOfImage ==
    ASSUME NEW S, IsFiniteSet(S), NEW w, \A x \in S : w[x] \in Int,
           NEW key, \A x, y \in S : key[x] = key[y] => x = y,
           NEW v, \A x \in S : v[key[x]] = w[x]
    PROVE  SumFunctionOnSet(v, {key[x] : x \in S}) = SumFunctionOnSet(w, S)
<1> DEFINE K == {key[x] : x \in S}
           Part(k) == {x \in S : key[x] = k}
<1>1. IsFiniteSet(K)
  BY ImageIsFinite
<1>2. PICK parts : parts = [k \in K |-> SumFunctionOnSet(w, Part(k))]
  OBVIOUS
<1>3. SumFunctionOnSet(w, S) = SumFunctionOnSet(parts, K)
  BY <1>1, <1>2, SumByParts
<1>4. \A k \in K : parts[k] \in Int /\ parts[k] = v[k]
  <2> SUFFICES ASSUME NEW x \in S PROVE parts[key[x]] \in Int /\ parts[key[x]] = v[key[x]]
    OBVIOUS
  <2>1. Part(key[x]) = {x}
    OBVIOUS
  <2>2. parts[key[x]] = SumFunctionOnSet(w, Part(key[x]))
    BY <1>2
  <2>3. SumFunctionOnSet(w, {x}) = w[x]
    BY SumOfOne
  <2> QED
    BY <2>1, <2>2, <2>3
<1>5. SumFunctionOnSet(parts, K) = SumFunctionOnSet(v, K)
  <2> HIDE DEF K
  <2> QED
    BY <1>1, <1>4, SumOfEquals
<1> QED
  BY <1>3, <1>5

(* A set and the rest of it.                                                *)
LEMMA SplitCounts ==
    ASSUME NEW S, IsFiniteSet(S), NEW T \in SUBSET S
    PROVE  /\ IsFiniteSet(T) /\ Cardinality(T) \in Nat
           /\ IsFiniteSet(S \ T) /\ Cardinality(S \ T) \in Nat
           /\ Cardinality(T) + Cardinality(S \ T) = Cardinality(S)
<1>1. IsFiniteSet(T) /\ IsFiniteSet(S \ T)
  BY FS_Subset
<1>2. Cardinality(T) \in Nat /\ Cardinality(S \ T) \in Nat /\ Cardinality(S) \in Nat
  BY <1>1, FS_CardinalityType
<1>3. S \cap T = T
  OBVIOUS
<1>4. Cardinality(S \ T) = Cardinality(S) - Cardinality(T)
  BY <1>3, FS_Difference
<1> QED
  BY <1>1, <1>2, <1>4
(* A sum of sums.                                                           *)
LEMMA SumAdds ==
    ASSUME NEW S, IsFiniteSet(S), NEW u, NEW v, NEW w,
           \A x \in S : v[x] \in Int /\ w[x] \in Int /\ u[x] = v[x] + w[x]
    PROVE  SumFunctionOnSet(u, S) = SumFunctionOnSet(v, S) + SumFunctionOnSet(w, S)
<1> DEFINE Agrees(T) == SumFunctionOnSet(u, T) = SumFunctionOnSet(v, T) + SumFunctionOnSet(w, T)
           Bad == {T \in SUBSET S : ~ Agrees(T)}
<1>1. ASSUME Bad # {} PROVE FALSE
  <2>1. \A T \in Bad : IsFiniteSet(T)
    BY FS_Subset
  <2>2. PICK T \in Bad : \A t \in Bad : Cardinality(T) <= Cardinality(t)
    BY <1>1, <2>1, SmallestSet
  <2>3. PICK x : x \in T
    <3>1. Agrees({})
      BY SumOfNothing
    <3> QED
      BY <3>1
  <2>4. T \in SUBSET S /\ IsFiniteSet(T) /\ IsFiniteSet(T \ {x})
    BY <2>1, <2>3, SmallerSet
  <2>5. \A y \in T : u[y] \in Int /\ v[y] \in Int /\ w[y] \in Int
    BY <2>4
  <2>6. /\ SumFunctionOnSet(u, T) = u[x] + SumFunctionOnSet(u, T \ {x})
        /\ SumFunctionOnSet(v, T) = v[x] + SumFunctionOnSet(v, T \ {x})
        /\ SumFunctionOnSet(w, T) = w[x] + SumFunctionOnSet(w, T \ {x})
    BY <2>3, <2>4, <2>5, SumTakes
  <2>7. /\ SumFunctionOnSet(u, T \ {x}) \in Int /\ SumFunctionOnSet(v, T \ {x}) \in Int
        /\ SumFunctionOnSet(w, T \ {x}) \in Int
    BY <2>4, <2>5, SumIsInt
  <2>8. Agrees(T \ {x})
    <3>1. T \ {x} \notin Bad
      BY <2>1, <2>2, <2>3, SmallerSet, FS_CardinalityType
    <3> QED
      BY <2>4, <3>1
  <2>9. u[x] = v[x] + w[x] /\ v[x] \in Int /\ w[x] \in Int
    BY <2>3, <2>4
  <2> QED
    BY <2>6, <2>7, <2>8, <2>9
<1> QED
  BY <1>1

(* A common factor of the terms.                                            *)
LEMMA SumScales ==
    ASSUME NEW S, IsFiniteSet(S), NEW c \in Int, NEW v, NEW w,
           \A x \in S : w[x] \in Int /\ v[x] = c * w[x]
    PROVE  SumFunctionOnSet(v, S) = c * SumFunctionOnSet(w, S)
<1> DEFINE Agrees(T) == SumFunctionOnSet(v, T) = c * SumFunctionOnSet(w, T)
           Bad == {T \in SUBSET S : ~ Agrees(T)}
<1>1. ASSUME Bad # {} PROVE FALSE
  <2>1. \A T \in Bad : IsFiniteSet(T)
    BY FS_Subset
  <2>2. PICK T \in Bad : \A t \in Bad : Cardinality(T) <= Cardinality(t)
    BY <1>1, <2>1, SmallestSet
  <2>3. PICK x : x \in T
    BY SumOfNothing
  <2>4. T \in SUBSET S /\ IsFiniteSet(T) /\ IsFiniteSet(T \ {x})
    BY <2>1, <2>3, SmallerSet
  <2>5. \A y \in T : v[y] \in Int /\ w[y] \in Int
    BY <2>4
  <2>6. /\ SumFunctionOnSet(v, T) = v[x] + SumFunctionOnSet(v, T \ {x})
        /\ SumFunctionOnSet(w, T) = w[x] + SumFunctionOnSet(w, T \ {x})
    BY <2>3, <2>4, <2>5, SumTakes
  <2>7. SumFunctionOnSet(w, T \ {x}) \in Int
    BY <2>4, <2>5, SumIsInt
  <2>8. Agrees(T \ {x})
    <3>1. T \ {x} \notin Bad
      BY <2>1, <2>2, <2>3, SmallerSet, FS_CardinalityType
    <3> QED
      BY <2>4, <3>1
  <2>9. v[x] = c * w[x] /\ w[x] \in Int
    BY <2>3, <2>4
  <2>10. \A a, b \in Int : c * (a + b) = c * a + c * b
    OBVIOUS
  <2> QED
    BY <2>6, <2>7, <2>8, <2>9, <2>10
<1> QED
  BY <1>1

(* Equal terms.                                                             *)
LEMMA SumOfSame ==
    ASSUME NEW S, IsFiniteSet(S), NEW c \in Int, NEW w, \A x \in S : w[x] = c
    PROVE  SumFunctionOnSet(w, S) = c * Cardinality(S)
<1> DEFINE Agrees(T) == SumFunctionOnSet(w, T) = c * Cardinality(T)
           Bad == {T \in SUBSET S : ~ Agrees(T)}
<1>1. ASSUME Bad # {} PROVE FALSE
  <2>1. \A T \in Bad : IsFiniteSet(T)
    BY FS_Subset
  <2>2. PICK T \in Bad : \A t \in Bad : Cardinality(T) <= Cardinality(t)
    BY <1>1, <2>1, SmallestSet
  <2>3. PICK x : x \in T
    <3>1. Agrees({})
      BY SumOfNothing, FS_EmptySet
    <3> QED
      BY <3>1
  <2>4. T \in SUBSET S /\ IsFiniteSet(T) /\ IsFiniteSet(T \ {x})
    BY <2>1, <2>3, SmallerSet
  <2>5. SumFunctionOnSet(w, T) = w[x] + SumFunctionOnSet(w, T \ {x})
    BY <2>3, <2>4, SumTakes
  <2>6. Agrees(T \ {x})
    <3>1. T \ {x} \notin Bad
      BY <2>1, <2>2, <2>3, SmallerSet, FS_CardinalityType
    <3> QED
      BY <2>4, <3>1
  <2>7. Cardinality(T \ {x}) = Cardinality(T) - 1 /\ Cardinality(T) \in Int
    BY <2>3, <2>4, FS_RemoveElement, FS_CardinalityType
  <2>8. w[x] = c
    BY <2>3, <2>4
  <2>9. \A n \in Int : c + c * (n - 1) = c * n
    OBVIOUS
  <2> QED
    BY <2>5, <2>6, <2>7, <2>8, <2>9
<1> QED
  BY <1>1

(* A sum over a part and over the rest.                                     *)
LEMMA SumSplits ==
    ASSUME NEW S, IsFiniteSet(S), NEW w, \A x \in S : w[x] \in Int, NEW R \in SUBSET S
    PROVE  /\ IsFiniteSet(R) /\ IsFiniteSet(S \ R)
           /\ SumFunctionOnSet(w, S) = SumFunctionOnSet(w, R) + SumFunctionOnSet(w, S \ R)
<1> DEFINE Agrees(T) ==
      SumFunctionOnSet(w, S) = SumFunctionOnSet(w, T) + SumFunctionOnSet(w, S \ T)
           Bad == {T \in SUBSET S : ~ Agrees(T)}
<1>1. ASSUME Bad # {} PROVE FALSE
  <2>1. \A T \in Bad : IsFiniteSet(T)
    BY FS_Subset
  <2>2. PICK T \in Bad : \A t \in Bad : Cardinality(T) <= Cardinality(t)
    BY <1>1, <2>1, SmallestSet
  <2>3. PICK x : x \in T
    <3>1. S \ {} = S /\ SumFunctionOnSet(w, S) \in Int
      BY SumIsInt
    <3> QED
      BY <3>1, SumOfNothing
  <2>4. T \in SUBSET S /\ IsFiniteSet(T) /\ IsFiniteSet(T \ {x}) /\ x \in S
    BY <2>1, <2>3, SmallerSet
  <2>5. IsFiniteSet(S \ (T \ {x})) /\ IsFiniteSet(S \ T)
    BY FS_Subset
  <2>6. SumFunctionOnSet(w, T) = w[x] + SumFunctionOnSet(w, T \ {x})
    BY <2>3, <2>4, SumTakes
  <2>7. SumFunctionOnSet(w, S \ (T \ {x})) = w[x] + SumFunctionOnSet(w, S \ T)
    <3>1. (S \ (T \ {x})) \ {x} = S \ T /\ x \in S \ (T \ {x})
      BY <2>3, <2>4
    <3>2. \A y \in S \ (T \ {x}) : w[y] \in Int
      OBVIOUS
    <3> HIDE DEF Bad
    <3>3. SumFunctionOnSet(w, S \ (T \ {x}))
            = w[x] + SumFunctionOnSet(w, (S \ (T \ {x})) \ {x})
      BY <2>5, <3>1, <3>2, SumTakes
    <3> QED
      BY <3>1, <3>3
  <2>8. Agrees(T \ {x})
    <3>1. T \ {x} \notin Bad
      BY <2>1, <2>2, <2>3, SmallerSet, FS_CardinalityType
    <3> QED
      BY <2>4, <3>1
  <2>9. SumFunctionOnSet(w, T \ {x}) \in Int /\ SumFunctionOnSet(w, S \ T) \in Int /\ w[x] \in Int
    BY <2>4, <2>5, SumIsInt
  <2> QED
    BY <2>6, <2>7, <2>8, <2>9
<1>2. IsFiniteSet(R) /\ IsFiniteSet(S \ R)
  BY FS_Subset
<1> QED
  BY <1>1, <1>2

(* A factor in common is lost from an inequation.                           *)
LEMMA FactorCancels ==
    ASSUME NEW t \in Nat \ {0}, NEW a \in Int, NEW b \in Int, t * a <= t * b
    PROVE  a <= b
<1>1. ASSUME b < a PROVE FALSE
  <2>1. PICK d \in Nat : d > 0 /\ a = b + d
    <3>1. a - b \in Nat /\ a - b > 0 /\ a = b + (a - b)
      BY <1>1
    <3> QED
      BY <3>1
  <2>2. t * (b + d) = t * b + t * d
    BY <2>1
  <2>3. t * d > 0 /\ t * d \in Int /\ t * b \in Int
    BY <2>1
  <2> QED
    BY <2>1, <2>2, <2>3
<1> QED
  BY <1>1

(* A quotient, its divisor and the dividend.                                *)
LEMMA QuotientBounds ==
    ASSUME NEW n \in Nat, NEW t \in Nat \ {0}
    PROVE  n \div t \in Nat /\ t * (n \div t) <= n /\ n < t * (n \div t) + t
  BY SMT

(* A whole that is dealt out in proportion loses less than one unit per     *)
(* share.                                                                   *)
LEMMA SharesSum ==
    ASSUME NEW S, IsFiniteSet(S), NEW e \in Nat, NEW w, \A x \in S : w[x] \in Nat,
           NEW t \in Nat \ {0}, t = SumFunctionOnSet(w, S),
           NEW v, \A x \in S : v[x] = (e * w[x]) \div t
    PROVE  /\ SumFunctionOnSet(v, S) \in Int
           /\ SumFunctionOnSet(v, S) <= e
           /\ SumFunctionOnSet(v, S) >= e - Cardinality(S)
<1> DEFINE product == [x \in S |-> e * w[x]]
           paid == [x \in S |-> t * v[x]]
           most == [x \in S |-> paid[x] + t]
           each == [x \in S |-> t]
<1>1. \A x \in S : v[x] \in Int /\ t * v[x] <= e * w[x] /\ e * w[x] <= t * v[x] + t
  <2> SUFFICES ASSUME NEW x \in S
               PROVE  v[x] \in Int /\ t * v[x] <= e * w[x] /\ e * w[x] <= t * v[x] + t
    OBVIOUS
  <2>1. e * w[x] \in Int
    OBVIOUS
  <2>2. e * w[x] \in Nat
    OBVIOUS
  <2>3. PICK n \in Nat : n = e * w[x]
    BY <2>2
  <2>4. v[x] = n \div t
    BY <2>3
  <2>5. n \div t \in Nat /\ t * (n \div t) <= n /\ n < t * (n \div t) + t
    BY QuotientBounds
  <2>6. t * (n \div t) \in Int
    BY <2>5
  <2> QED
    BY <2>3, <2>4, <2>5, <2>6
<1>2. Cardinality(S) \in Nat
  BY FS_CardinalityType
<1>3. SumFunctionOnSet(v, S) \in Int
  BY <1>1, SumIsInt
<1>4. /\ \A x \in S : /\ product[x] = e * w[x] /\ paid[x] = t * v[x]
                      /\ most[x] = paid[x] + each[x] /\ each[x] = t
                      /\ product[x] \in Int /\ paid[x] \in Int /\ most[x] \in Int
  BY <1>1
<1> HIDE DEF product, paid, most, each
<1>5. SumFunctionOnSet(product, S) = e * t
  <2>1. \A x \in S : w[x] \in Int /\ product[x] = e * w[x]
    BY <1>4
  <2>2. SumFunctionOnSet(product, S) = e * SumFunctionOnSet(w, S)
    BY <2>1, SumScales
  <2> QED
    BY <2>2
<1>6. SumFunctionOnSet(paid, S) = t * SumFunctionOnSet(v, S)
  BY <1>1, <1>4, SumScales
<1>7. SumFunctionOnSet(each, S) = t * Cardinality(S)
  BY <1>4, SumOfSame
<1>8. SumFunctionOnSet(most, S) = SumFunctionOnSet(paid, S) + SumFunctionOnSet(each, S)
  BY <1>4, SumAdds
<1>9. SumFunctionOnSet(paid, S) <= SumFunctionOnSet(product, S)
  BY <1>1, <1>4, SumGrows
<1>10. SumFunctionOnSet(product, S) <= SumFunctionOnSet(most, S)
  BY <1>1, <1>4, SumGrows
<1>11. t * SumFunctionOnSet(v, S) <= t * e
  BY <1>5, <1>6, <1>9
<1>12. t * e <= t * (SumFunctionOnSet(v, S) + Cardinality(S))
  <2>1. t * (SumFunctionOnSet(v, S) + Cardinality(S))
          = t * SumFunctionOnSet(v, S) + t * Cardinality(S)
    BY <1>2, <1>3
  <2> QED
    BY <1>2, <1>3, <1>5, <1>6, <1>7, <1>8, <1>10, <2>1
<1>13. SumFunctionOnSet(v, S) <= e
  BY <1>3, <1>11, FactorCancels
<1>14. e <= SumFunctionOnSet(v, S) + Cardinality(S)
  BY <1>2, <1>3, <1>12, FactorCancels
<1> QED
  BY <1>2, <1>3, <1>13, <1>14

=============================================================================
