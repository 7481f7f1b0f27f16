----------------------------- MODULE FiniteSums -----------------------------
(***************************************************************************)
(* Induction in the form of sets, and sums over finite sets.  The library  *)
(* states induction for an operator P(_), which the provers cannot match;  *)
(* here the elements with the property are a set T, and the principles     *)
(* follow from the well-foundedness of strict inclusion.  With them the    *)
(* recursive definition behind SumFunctionOnSet is shown to be what it is  *)
(* meant to be, for every finite set and every function with integers.     *)
(***************************************************************************)
EXTENDS Integers, FiniteSets, Functions, FiniteSetTheorems, TLAPS

-----------------------------------------------------------------------------
(* Induction. *)

LEMMA SmallestSet ==
    ASSUME NEW D, D # {}, \A A \in D : IsFiniteSet(A)
    PROVE  \E A \in D : \A B \in D : B \subseteq A => B = A
<1> DEFINE S == UNION D
<1>1. IsWellFoundedOn(StrictSubsetOrdering(S), FiniteSubsetsOf(S))
  BY FS_StrictSubsetOrderingWellFounded
<1>2. D \subseteq FiniteSubsetsOf(S)
  BY DEF FiniteSubsetsOf
<1>3. PICK A \in D : \A B \in D : ~ (<<B, A>> \in StrictSubsetOrdering(S))
  BY <1>1, <1>2, WFMin
<1>4. \A B \in D : B \in SUBSET S
  OBVIOUS
<1> QED BY <1>3, <1>4 DEF StrictSubsetOrdering

LEMMA LeastNat ==
    ASSUME NEW T, T \subseteq Nat, T # {}
    PROVE  \E x \in T : \A y \in T : x <= y
<1> DEFINE D == {0..x : x \in T}
<1>1. \A A \in D : IsFiniteSet(A)
  BY FS_Interval
<1>2. D # {}
  OBVIOUS
<1>3. PICK A \in D : \A B \in D : B \subseteq A => B = A
  <2> HIDE DEF D
  <2> QED BY <1>1, <1>2, SmallestSet
<1>4. PICK x \in T : A = 0..x
  BY <1>3
<1>5. ASSUME NEW y \in T, y < x
      PROVE  FALSE
  <2>1. 0..y \subseteq 0..x /\ x \in 0..x /\ x \notin 0..y
    BY <1>5, <1>4
  <2> QED BY <2>1, <1>3, <1>4
<1> QED BY <1>5, <1>4

LEMMA InductionOnNat ==
    ASSUME NEW T, 0 \in T, \A n \in Nat : n \in T => n + 1 \in T
    PROVE  \A n \in Nat : n \in T
<1>1. SUFFICES ASSUME Nat \ T # {} PROVE FALSE
  OBVIOUS
<1>2. PICK x \in Nat \ T : \A y \in Nat \ T : x <= y
  BY <1>1, LeastNat
<1>3. x # 0 /\ x - 1 \in Nat /\ x - 1 \in T
  BY <1>2
<1>4. x - 1 + 1 \in T
  BY <1>3
<1> QED BY <1>4, <1>2

LEMMA InductionOnSubsets ==
    ASSUME NEW S, IsFiniteSet(S), NEW T, {} \in T,
           \A U \in SUBSET S : \A x \in S \ U : U \in T => U \cup {x} \in T
    PROVE  S \in T
<1> DEFINE D == {U \in SUBSET S : S \ U \in T}
<1>1. S \in D
  <2>1. S \ S = {}
    OBVIOUS
  <2> QED BY <2>1
<1>2. \A A \in D : IsFiniteSet(A)
  BY FS_Subset
<1>3. PICK A \in D : \A B \in D : B \subseteq A => B = A
  <2> HIDE DEF D
  <2> QED BY <1>1, <1>2, SmallestSet
<1>4. ASSUME NEW x \in A
      PROVE  FALSE
  <2>1. S \ A \in T /\ S \ A \in SUBSET S /\ x \in S \ (S \ A)
    BY <1>3, <1>4
  <2>2. (S \ A) \cup {x} \in T
    BY <2>1
  <2>3. (S \ A) \cup {x} = S \ (A \ {x})
    BY <1>3, <1>4
  <2>4. A \ {x} \in D
    BY <2>2, <2>3, <1>3
  <2> QED BY <2>4, <1>3, <1>4
<1>5. A = {} /\ S \ {} = S
  BY <1>4
<1> QED BY <1>3, <1>5

-----------------------------------------------------------------------------
(* Sums.  IsSum(g, f, S): g satisfies the recursion of SumFunctionOnSet.    *)

Member(s) == CHOOSE x \in s : TRUE

IsSum(g, f, S) ==
    g = [s \in SUBSET S |-> IF s = {} THEN 0 ELSE f[Member(s)] + g[s \ {Member(s)}]]

LEMMA MemberIn == ASSUME NEW s, s # {} PROVE Member(s) \in s
BY DEF Member

LEMMA SumUnfold ==
    ASSUME NEW f, NEW S, \E g : IsSum(g, f, S)
    PROVE  \E g : IsSum(g, f, S) /\ SumFunctionOnSet(f, S) = g[S]
<1> DEFINE P(g) == g = [s \in SUBSET S |-> IF s = {} THEN 0 ELSE f[Member(s)] + g[s \ {Member(s)}]]
<1>1. SumFunctionOnSet(f, S) = (CHOOSE g : P(g))[S]
  BY DEF SumFunctionOnSet, FoldFunctionOnSet, MapThenFoldSet, Member
<1>2. \E g : P(g)
  BY DEF IsSum
<1>3. P(CHOOSE g : P(g))
  BY <1>2
<1> QED BY <1>1, <1>3 DEF IsSum

\* The recursion has a solution: one that is right for the sets of up to n elements,
\* for every n.
LEMMA SumExists ==
    ASSUME NEW f, NEW S, IsFiniteSet(S)
    PROVE  \E g : IsSum(g, f, S)
<1> DEFINE Next(g, s) == IF s = {} THEN 0 ELSE f[Member(s)] + g[s \ {Member(s)}]
           Right(g, n) == /\ g = [s \in SUBSET S |-> g[s]]
                          /\ \A s \in SUBSET S : Cardinality(s) <= n => g[s] = Next(g, s)
           T == {n \in Nat : \E g : Right(g, n)}
<1>1. \A s \in SUBSET S : /\ Cardinality(s) \in Nat /\ Cardinality(s) <= Cardinality(S)
                          /\ Cardinality(s) = 0 <=> s = {}
                          /\ s # {} => /\ s \ {Member(s)} \in SUBSET S
                                       /\ Cardinality(s \ {Member(s)}) = Cardinality(s) - 1
  <2>1. ASSUME NEW s \in SUBSET S
        PROVE  /\ Cardinality(s) \in Nat /\ Cardinality(s) <= Cardinality(S)
               /\ Cardinality(s) = 0 <=> s = {}
               /\ s # {} => /\ s \ {Member(s)} \in SUBSET S
                            /\ Cardinality(s \ {Member(s)}) = Cardinality(s) - 1
    <3>1. IsFiniteSet(s) /\ Cardinality(s) <= Cardinality(S)
      BY FS_Subset
    <3>2. Cardinality(s) \in Nat /\ (Cardinality(s) = 0 <=> s = {})
      BY <3>1, FS_CardinalityType, FS_EmptySet
    <3>3. s # {} => Cardinality(s \ {Member(s)}) = Cardinality(s) - 1
      BY <3>1, MemberIn, FS_RemoveElement
    <3> QED BY <3>1, <3>2, <3>3
  <2> QED BY <2>1
<1>2. 0 \in T
  <2> DEFINE g == [s \in SUBSET S |-> 0]
  <2>1. ASSUME NEW s \in SUBSET S, Cardinality(s) <= 0
        PROVE  s = {}
    <3>1. Cardinality(s) \in Nat /\ (Cardinality(s) = 0 <=> s = {})
      BY <1>1
    <3> QED BY <3>1, <2>1
  <2>2. \A s \in SUBSET S : Cardinality(s) <= 0 => g[s] = Next(g, s)
    BY <2>1
  <2>3. g = [s \in SUBSET S |-> g[s]]
    OBVIOUS
  <2>4. Right(g, 0)
    <3> HIDE DEF g, Next
    <3> QED BY <2>2, <2>3
  <2> HIDE DEF g, Right
  <2> QED BY <2>4
<1>3. ASSUME NEW n \in Nat, n \in T
      PROVE  n + 1 \in T
  <2>1. PICK g : Right(g, n)
    BY <1>3
  <2> DEFINE h == [s \in SUBSET S |-> IF Cardinality(s) <= n THEN g[s] ELSE Next(g, s)]
  <2>2. \A s \in SUBSET S : Cardinality(s) <= n => h[s] = g[s]
    OBVIOUS
  <2>3. ASSUME NEW s \in SUBSET S, Cardinality(s) <= n + 1
        PROVE  h[s] = Next(h, s)
    <3>1. h[s] = Next(g, s)
      <4>1. CASE Cardinality(s) <= n
        BY <4>1, <2>1
      <4>2. CASE ~ (Cardinality(s) <= n)
        BY <4>2
      <4> QED BY <4>1, <4>2
    <3>2. s # {} => h[s \ {Member(s)}] = g[s \ {Member(s)}]
      <4>1. s # {} => s \ {Member(s)} \in SUBSET S /\ Cardinality(s \ {Member(s)}) <= n
        BY <1>1, <2>3
      <4> HIDE DEF h
      <4> QED BY <4>1, <2>2
    <3> HIDE DEF h
    <3> QED BY <3>1, <3>2
  <2>4. Right(h, n + 1)
    <3>1. h = [s \in SUBSET S |-> h[s]]
      OBVIOUS
    <3> HIDE DEF h
    <3> QED BY <3>1, <2>3
  <2> HIDE DEF h, Right
  <2> QED BY <2>4
<1>4. Cardinality(S) \in T
  <2>1. Cardinality(S) \in Nat
    BY FS_CardinalityType
  <2> HIDE DEF T
  <2> QED BY <1>2, <1>3, <2>1, InductionOnNat
<1>5. PICK g : Right(g, Cardinality(S))
  BY <1>4
<1>6. \A s \in SUBSET S : g[s] = Next(g, s)
  BY <1>5, <1>1
<1>7. IsSum(g, f, S)
  BY <1>5, <1>6 DEF IsSum
<1> QED BY <1>7

\* One step of the recursion, and its value is an integer.
LEMMA SumStep ==
    ASSUME NEW f, NEW S, NEW g, IsSum(g, f, S)
    PROVE  \A s \in SUBSET S : g[s] = IF s = {} THEN 0 ELSE f[Member(s)] + g[s \ {Member(s)}]
BY DEF IsSum

\* Solutions agree on the sets for which both are defined.
LEMMA SumUnique ==
    ASSUME NEW f, NEW e, NEW S, IsFiniteSet(S), \A x \in S : f[x] = e[x],
           NEW R, NEW Q, S \subseteq R, S \subseteq Q,
           NEW g, IsSum(g, f, R), NEW h, IsSum(h, e, Q)
    PROVE  g[S] = h[S]
<1> DEFINE D == {s \in SUBSET S : g[s] # h[s]}
<1>1. SUFFICES ASSUME D # {} PROVE FALSE
  OBVIOUS
<1>2. \A s \in D : IsFiniteSet(s)
  BY FS_Subset
<1>3. PICK s \in D : \A r \in D : r \subseteq s => r = s
  <2> HIDE DEF D
  <2> QED BY <1>1, <1>2, SmallestSet
<1>4. /\ g[s] = IF s = {} THEN 0 ELSE f[Member(s)] + g[s \ {Member(s)}]
      /\ h[s] = IF s = {} THEN 0 ELSE e[Member(s)] + h[s \ {Member(s)}]
  BY SumStep
<1>5. CASE s = {}
  BY <1>4, <1>5
<1>6. CASE s # {}
  <2>1. Member(s) \in s
    BY <1>6, MemberIn
  <2>2. g[s \ {Member(s)}] = h[s \ {Member(s)}]
    BY <1>3, <2>1
  <2> QED BY <1>4, <2>1, <2>2
<1> QED BY <1>5, <1>6

\* What a sum is, in terms of any element of the set.
LEMMA SolutionTakeOut ==
    ASSUME NEW S, IsFiniteSet(S), NEW f, \A x \in S : f[x] \in Int, NEW g, IsSum(g, f, S)
    PROVE  /\ g[S] \in Int
           /\ \A x \in S : g[S] = f[x] + g[S \ {x}]
<1>0. \A s \in SUBSET S : g[s] = IF s = {} THEN 0 ELSE f[Member(s)] + g[s \ {Member(s)}]
  BY DEF IsSum
<1> DEFINE Good(s) == g[s] \in Int /\ \A x \in s : g[s] = f[x] + g[s \ {x}]
           D == {s \in SUBSET S : ~ Good(s)}
<1>1. SUFFICES ASSUME D # {} PROVE FALSE
  OBVIOUS
<1>2. \A s \in D : IsFiniteSet(s)
  BY FS_Subset
<1>3. PICK s \in D : \A r \in D : r \subseteq s => r = s
  <2> HIDE DEF D
  <2> QED BY <1>1, <1>2, SmallestSet
<1>4. g[s] = IF s = {} THEN 0 ELSE f[Member(s)] + g[s \ {Member(s)}]
  <2>1. s \in SUBSET S
    OBVIOUS
  <2> HIDE DEF D
  <2> QED BY <2>1, <1>0
<1>5. \A r \in SUBSET s : r # s => Good(r)
  BY <1>3
<1>6. s # {}
  BY <1>3, <1>4
<1> DEFINE a == Member(s)
<1>7. a \in s /\ f[a] \in Int
  BY <1>6, MemberIn
<1>8. Good(s \ {a}) /\ g[s] = f[a] + g[s \ {a}]
  BY <1>7, <1>5, <1>4, <1>6
<1> HIDE DEF a
<1>9. g[s] \in Int
  BY <1>7, <1>8
<1>10. ASSUME NEW x \in s, x # a
       PROVE  g[s] = f[x] + g[s \ {x}]
  <2>1. g[s \ {a}] = f[x] + g[(s \ {a}) \ {x}]
    BY <1>8, <1>10
  <2>2. Good(s \ {x}) /\ a \in s \ {x}
    BY <1>5, <1>7, <1>10
  <2>3. g[s \ {x}] = f[a] + g[(s \ {x}) \ {a}]
    BY <2>2
  <2>4. (s \ {x}) \ {a} = (s \ {a}) \ {x} /\ (s \ {x}) \ {a} \in SUBSET s
    OBVIOUS
  <2>5. g[(s \ {x}) \ {a}] \in Int /\ g[(s \ {x}) \ {a}] = g[(s \ {a}) \ {x}]
    <3>1. g[(s \ {x}) \ {a}] = g[(s \ {a}) \ {x}]
      BY <2>4, Zenon
    <3> QED BY <3>1, <1>5, <2>4, <1>7
  <2>6. f[x] \in Int
    BY <1>3
  <2> HIDE DEF D, Good
  <2> QED BY <2>1, <2>3, <2>4, <2>5, <2>6, <1>7, <1>8
<1>11. \A x \in s : g[s] = f[x] + g[s \ {x}]
  BY <1>10, <1>8
<1> QED BY <1>9, <1>11, <1>3

LEMMA SumOfNone ==
    ASSUME NEW f
    PROVE  SumFunctionOnSet(f, {}) = 0
<1>1. IsFiniteSet({})
  BY FS_EmptySet
<1>2. PICK g : IsSum(g, f, {}) /\ SumFunctionOnSet(f, {}) = g[{}]
  BY <1>1, SumExists, SumUnfold
<1> QED BY <1>2, SumStep

LEMMA SumType ==
    ASSUME NEW S, IsFiniteSet(S), NEW f, \A x \in S : f[x] \in Int
    PROVE  SumFunctionOnSet(f, S) \in Int
<1>1. PICK g : IsSum(g, f, S) /\ SumFunctionOnSet(f, S) = g[S]
  BY SumExists, SumUnfold
<1> QED BY <1>1, SolutionTakeOut

\* Only the values on the set count.
LEMMA SumAgrees ==
    ASSUME NEW S, IsFiniteSet(S), NEW f, NEW e, \A x \in S : f[x] = e[x]
    PROVE  SumFunctionOnSet(f, S) = SumFunctionOnSet(e, S)
<1>1. PICK g : IsSum(g, f, S) /\ SumFunctionOnSet(f, S) = g[S]
  BY SumExists, SumUnfold
<1>2. PICK h : IsSum(h, e, S) /\ SumFunctionOnSet(e, S) = h[S]
  BY SumExists, SumUnfold
<1>3. g[S] = h[S]
  BY <1>1, <1>2, SumUnique
<1> QED BY <1>1, <1>2, <1>3

LEMMA SumTakeOut ==
    ASSUME NEW S, IsFiniteSet(S), NEW f, \A x \in S : f[x] \in Int, NEW x \in S
    PROVE  SumFunctionOnSet(f, S) = f[x] + SumFunctionOnSet(f, S \ {x})
<1>1. PICK g : IsSum(g, f, S) /\ SumFunctionOnSet(f, S) = g[S]
  BY SumExists, SumUnfold
<1>2. IsFiniteSet(S \ {x})
  BY FS_Subset
<1>3. PICK h : IsSum(h, f, S \ {x}) /\ SumFunctionOnSet(f, S \ {x}) = h[S \ {x}]
  BY <1>2, SumExists, SumUnfold
<1>4. g[S \ {x}] = h[S \ {x}]
  BY <1>1, <1>2, <1>3, SumUnique
<1>5. \A y \in S : g[S] = f[y] + g[S \ {y}]
  BY <1>1, SolutionTakeOut
<1> QED BY <1>1, <1>3, <1>4, <1>5

LEMMA SumAdd ==
    ASSUME NEW S, IsFiniteSet(S), NEW x, x \notin S,
           NEW f, \A y \in S \cup {x} : f[y] \in Int
    PROVE  SumFunctionOnSet(f, S \cup {x}) = SumFunctionOnSet(f, S) + f[x]
<1>1. IsFiniteSet(S \cup {x}) /\ (S \cup {x}) \ {x} = S
  BY FS_AddElement
<1>2. SumFunctionOnSet(f, S \cup {x}) = f[x] + SumFunctionOnSet(f, S)
  <2> DEFINE R == S \cup {x}
  <2>1. x \in R /\ IsFiniteSet(R) /\ \A y \in R : f[y] \in Int
    BY <1>1
  <2> HIDE DEF R
  <2>2. SumFunctionOnSet(f, R) = f[x] + SumFunctionOnSet(f, R \ {x})
    BY <2>1, SumTakeOut
  <2>3. R \ {x} = S
    BY DEF R
  <2> QED BY <2>2, <2>3, Zenon DEF R
<1>3. SumFunctionOnSet(f, S) \in Int /\ f[x] \in Int
  BY SumType
<1> QED BY <1>1, <1>2, <1>3

LEMMA SumUnion ==
    ASSUME NEW S, NEW R, IsFiniteSet(S), IsFiniteSet(R), S \cap R = {},
           NEW f, \A y \in S \cup R : f[y] \in Int
    PROVE  SumFunctionOnSet(f, S \cup R) = SumFunctionOnSet(f, S) + SumFunctionOnSet(f, R)
<1> DEFINE T == {U \in SUBSET R :
                    SumFunctionOnSet(f, S \cup U) = SumFunctionOnSet(f, S) + SumFunctionOnSet(f, U)}
<1>1. SumFunctionOnSet(f, S) \in Int
  BY SumType
<1>2. {} \in T
  <2>1. S \cup {} = S
    OBVIOUS
  <2> QED BY <1>1, <2>1, SumOfNone
<1>3. ASSUME NEW U \in SUBSET R, NEW x \in R \ U, U \in T
      PROVE  U \cup {x} \in T
  <2>1. IsFiniteSet(U) /\ IsFiniteSet(S \cup U)
    BY FS_Subset, FS_Union
  <2>2. x \notin S \cup U /\ S \cup (U \cup {x}) = (S \cup U) \cup {x}
    OBVIOUS
  <2>3. SumFunctionOnSet(f, (S \cup U) \cup {x}) = SumFunctionOnSet(f, S \cup U) + f[x]
    <3> DEFINE Q == S \cup U
    <3>1. IsFiniteSet(Q) /\ x \notin Q /\ \A y \in Q \cup {x} : f[y] \in Int
      BY <2>1, <2>2
    <3> HIDE DEF Q
    <3>2. SumFunctionOnSet(f, Q \cup {x}) = SumFunctionOnSet(f, Q) + f[x]
      BY <3>1, SumAdd
    <3> QED BY <3>2 DEF Q
  <2>4. SumFunctionOnSet(f, U \cup {x}) = SumFunctionOnSet(f, U) + f[x]
    BY <2>1, SumAdd
  <2>5. SumFunctionOnSet(f, U) \in Int /\ f[x] \in Int
    BY <2>1, SumType
  <2>6. SumFunctionOnSet(f, S \cup (U \cup {x})) = SumFunctionOnSet(f, (S \cup U) \cup {x})
    BY <2>2, Zenon
  <2>7. SumFunctionOnSet(f, S \cup (U \cup {x})) = SumFunctionOnSet(f, S) + SumFunctionOnSet(f, U \cup {x})
    BY <1>1, <1>3, <2>3, <2>4, <2>5, <2>6
  <2> QED BY <2>7
<1>4. R \in T
  <2> HIDE DEF T
  <2> QED BY <1>2, <1>3, InductionOnSubsets
<1> QED BY <1>4

\* A sum over the images of a one-to-one function.
LEMMA SumImage ==
    ASSUME NEW I, IsFiniteSet(I), NEW m, \A i, j \in I : m[i] = m[j] => i = j,
           NEW f, NEW e, \A i \in I : e[i] = f[m[i]] /\ e[i] \in Int
    PROVE  SumFunctionOnSet(f, {m[i] : i \in I}) = SumFunctionOnSet(e, I)
<1> DEFINE Image(U) == {m[i] : i \in U}
           T == {U \in SUBSET I : /\ IsFiniteSet(Image(U))
                                  /\ SumFunctionOnSet(f, Image(U)) = SumFunctionOnSet(e, U)}
<1>1. {} \in T
  <2>1. Image({}) = {}
    OBVIOUS
  <2> QED BY <2>1, SumOfNone, FS_EmptySet
<1>2. ASSUME NEW U \in SUBSET I, NEW x \in I \ U, U \in T
      PROVE  U \cup {x} \in T
  <2>1. Image(U \cup {x}) = Image(U) \cup {m[x]} /\ m[x] \notin Image(U)
    OBVIOUS
  <2>2. IsFiniteSet(U) /\ IsFiniteSet(Image(U))
    BY <1>2, FS_Subset
  <2>3. IsFiniteSet(Image(U) \cup {m[x]})
    BY <2>2, FS_AddElement
  <2>4. SumFunctionOnSet(f, Image(U \cup {x})) = SumFunctionOnSet(f, Image(U)) + f[m[x]]
    <3> DEFINE Q == Image(U)
               y == m[x]
    <3>1. \A z \in Q \cup {y} : f[z] \in Int
      OBVIOUS
    <3>2. SumFunctionOnSet(f, Q \cup {y}) = SumFunctionOnSet(f, Q) + f[y]
      <4>1. IsFiniteSet(Q) /\ y \notin Q
        BY <2>1, <2>2
      <4> HIDE DEF Q, y
      <4> QED BY <4>1, <3>1, SumAdd
    <3>3. Image(U \cup {x}) = Q \cup {y}
      BY <2>1
    <3> QED BY <3>2, <3>3, Zenon
  <2>5. SumFunctionOnSet(e, U \cup {x}) = SumFunctionOnSet(e, U) + e[x]
    BY <2>2, SumAdd
  <2> QED BY <1>2, <2>1, <2>3, <2>4, <2>5
<1>3. I \in T
  <2> HIDE DEF T
  <2> QED BY <1>1, <1>2, InductionOnSubsets
<1> QED BY <1>3

\* A sum grows with its terms.
LEMMA SumMonotonic ==
    ASSUME NEW S, IsFiniteSet(S), NEW f, NEW e,
           \A x \in S : f[x] \in Int /\ e[x] \in Int /\ f[x] <= e[x]
    PROVE  SumFunctionOnSet(f, S) <= SumFunctionOnSet(e, S)
<1> DEFINE T == {U \in SUBSET S : SumFunctionOnSet(f, U) <= SumFunctionOnSet(e, U)}
<1>1. {} \in T
  BY SumOfNone
<1>2. ASSUME NEW U \in SUBSET S, NEW x \in S \ U, U \in T
      PROVE  U \cup {x} \in T
  <2>1. IsFiniteSet(U)
    BY FS_Subset
  <2>2. /\ SumFunctionOnSet(f, U \cup {x}) = SumFunctionOnSet(f, U) + f[x]
        /\ SumFunctionOnSet(e, U \cup {x}) = SumFunctionOnSet(e, U) + e[x]
        /\ SumFunctionOnSet(f, U) \in Int /\ SumFunctionOnSet(e, U) \in Int
    BY <2>1, SumAdd, SumType
  <2> QED BY <1>2, <2>2
<1>3. S \in T
  <2> HIDE DEF T
  <2> QED BY <1>1, <1>2, InductionOnSubsets
<1> QED BY <1>3

\* A sum of natural numbers is one, and is no less than a part of it.
LEMMA SumNat ==
    ASSUME NEW S, IsFiniteSet(S), NEW f, \A x \in S : f[x] \in Nat
    PROVE  SumFunctionOnSet(f, S) \in Nat
<1> DEFINE T == {U \in SUBSET S : SumFunctionOnSet(f, U) \in Nat}
<1>1. {} \in T
  BY SumOfNone
<1>2. ASSUME NEW U \in SUBSET S, NEW x \in S \ U, U \in T
      PROVE  U \cup {x} \in T
  <2>1. IsFiniteSet(U)
    BY FS_Subset
  <2>2. SumFunctionOnSet(f, U \cup {x}) = SumFunctionOnSet(f, U) + f[x]
    <3>1. x \notin U /\ \A y \in U \cup {x} : f[y] \in Int
      OBVIOUS
    <3> QED BY <2>1, <3>1, SumAdd
  <2> QED BY <1>2, <2>2
<1>3. S \in T
  <2> HIDE DEF T
  <2> QED BY <1>1, <1>2, InductionOnSubsets
<1> QED BY <1>3

LEMMA SumOfZeros ==
    ASSUME NEW S, IsFiniteSet(S), NEW f, \A x \in S : f[x] = 0
    PROVE  SumFunctionOnSet(f, S) = 0
<1> DEFINE T == {U \in SUBSET S : SumFunctionOnSet(f, U) = 0}
<1>1. {} \in T
  BY SumOfNone
<1>2. ASSUME NEW U \in SUBSET S, NEW x \in S \ U, U \in T
      PROVE  U \cup {x} \in T
  <2>1. IsFiniteSet(U)
    BY FS_Subset
  <2>2. SumFunctionOnSet(f, U \cup {x}) = SumFunctionOnSet(f, U) + f[x]
    <3>1. x \notin U /\ \A y \in U \cup {x} : f[y] \in Int
      OBVIOUS
    <3> QED BY <2>1, <3>1, SumAdd
  <2> QED BY <1>2, <2>2
<1>3. S \in T
  <2> HIDE DEF T
  <2> QED BY <1>1, <1>2, InductionOnSubsets
<1> QED BY <1>3

LEMMA SumOfPart ==
    ASSUME NEW S, IsFiniteSet(S), NEW f, \A x \in S : f[x] \in Nat, NEW A \in SUBSET S
    PROVE  SumFunctionOnSet(f, A) <= SumFunctionOnSet(f, S)
<1> DEFINE B == S \ A
<1>1. /\ A \cup B = S /\ A \cap B = {}
      /\ \A x \in A \cup B : f[x] \in Int
      /\ (\A x \in A : f[x] \in Nat) /\ (\A x \in B : f[x] \in Nat)
  OBVIOUS
<1>2. IsFiniteSet(A) /\ IsFiniteSet(B)
  BY FS_Subset
<1> HIDE DEF B
<1>3. SumFunctionOnSet(f, A \cup B) = SumFunctionOnSet(f, A) + SumFunctionOnSet(f, B)
  BY <1>1, <1>2, SumUnion
<1>4. SumFunctionOnSet(f, A) \in Nat
  BY <1>1, <1>2, SumNat
<1>5. SumFunctionOnSet(f, B) \in Nat
  BY <1>1, <1>2, SumNat
<1>6. SumFunctionOnSet(f, S) = SumFunctionOnSet(f, A) + SumFunctionOnSet(f, B)
  BY <1>1, <1>3, Zenon
<1> QED BY <1>4, <1>5, <1>6

\* One term more by one.
LEMMA SumOneMore ==
    ASSUME NEW S, IsFiniteSet(S), NEW x \in S, NEW f, NEW g, g[x] = f[x] + 1,
           \A y \in S : f[y] \in Int, \A y \in S : y # x => g[y] = f[y]
    PROVE  SumFunctionOnSet(g, S) = SumFunctionOnSet(f, S) + 1
<1> DEFINE C == S \ {x}
<1>1. IsFiniteSet(C) /\ x \notin C /\ S = C \cup {x}
  BY FS_Subset
<1>2. \A y \in C : f[y] = g[y] /\ f[y] \in Int
  OBVIOUS
<1>3. \A y \in S : g[y] \in Int
  OBVIOUS
<1> HIDE DEF C
<1>4. SumFunctionOnSet(f, C) = SumFunctionOnSet(g, C) /\ SumFunctionOnSet(f, C) \in Int
  BY <1>1, <1>2, SumAgrees, SumType
<1>5. SumFunctionOnSet(f, S) = f[x] + SumFunctionOnSet(f, S \ {x})
  BY SumTakeOut
<1>6. SumFunctionOnSet(g, S) = g[x] + SumFunctionOnSet(g, S \ {x})
  BY <1>3, SumTakeOut
<1> QED BY <1>4, <1>5, <1>6 DEF C

\* m takes I one to one onto J, and the terms of e to those of f.
Renames(m, I, J, e, f) ==
    /\ J = {m[i] : i \in I}
    /\ \A i, j \in I : m[i] = m[j] => i = j
    /\ \A i \in I : e[i] = f[m[i]] /\ e[i] \in Int

LEMMA SumRenamed ==
    ASSUME NEW I, IsFiniteSet(I), NEW J, NEW m, NEW e, NEW f, Renames(m, I, J, e, f)
    PROVE  SumFunctionOnSet(f, J) = SumFunctionOnSet(e, I)
<1>1. SumFunctionOnSet(f, {m[i] : i \in I}) = SumFunctionOnSet(e, I)
  BY SumImage DEF Renames
<1> QED BY <1>1, Zenon DEF Renames

Shifted(f, g, I, J) ==
    /\ I \subseteq Int /\ J = {i + 1 : i \in I}
    /\ \A i \in I : f[i] = g[i + 1] /\ f[i] \in Int

LEMMA SumShifted ==
    ASSUME NEW I, IsFiniteSet(I), NEW J, NEW f, NEW g, Shifted(f, g, I, J)
    PROVE  SumFunctionOnSet(g, J) = SumFunctionOnSet(f, I)
<1> DEFINE m == [i \in I |-> i + 1]
<1>1. \A i, j \in I : m[i] = m[j] => i = j
  <2>1. I \subseteq Int
    BY DEF Shifted
  <2> QED BY <2>1
<1>2. \A i \in I : f[i] = g[m[i]] /\ f[i] \in Int
  BY DEF Shifted
<1>3. J = {m[i] : i \in I}
  BY DEF Shifted
<1> HIDE DEF m
<1>4. Renames(m, I, J, f, g)
  BY <1>1, <1>2, <1>3 DEF Renames
<1> QED BY <1>4, SumRenamed

\* The sum of a constant.
LEMMA SumOfConstant ==
    ASSUME NEW c \in Int, NEW k \in Int, NEW n \in Nat, NEW f, \A j \in k..(k + n - 1) : f[j] = c
    PROVE  SumFunctionOnSet(f, k..(k + n - 1)) = c * n
<1> DEFINE T == {m \in Nat : m <= n => SumFunctionOnSet(f, k..(k + m - 1)) = c * m}
<1>1. 0 \in T
  <2>1. k..(k + 0 - 1) = {} /\ c * 0 = 0
    OBVIOUS
  <2> QED BY <2>1, SumOfNone
<1>2. ASSUME NEW m \in Nat, m \in T
      PROVE  m + 1 \in T
  <2>1. CASE m + 1 <= n
    <3> DEFINE A == k..(k + m - 1)
    <3>1. /\ k..(k + (m + 1) - 1) = A \cup {k + m} /\ k + m \notin A
          /\ \A j \in A \cup {k + m} : f[j] = c
      BY <2>1
    <3>2. IsFiniteSet(A)
      BY FS_Interval
    <3>3. SumFunctionOnSet(f, A) = c * m
      BY <1>2, <2>1
    <3> HIDE DEF A
    <3>4. SumFunctionOnSet(f, A \cup {k + m}) = SumFunctionOnSet(f, A) + f[k + m]
      BY <3>1, <3>2, SumAdd
    <3>5. f[k + m] = c
      BY <3>1
    <3>6. c * m + c = c * (m + 1)
      OBVIOUS
    <3>7. SumFunctionOnSet(f, k..(k + (m + 1) - 1)) = c * (m + 1)
      BY <3>1, <3>3, <3>4, <3>5, <3>6
    <3> QED BY <3>7
  <2>2. CASE ~ (m + 1 <= n)
    BY <2>2
  <2> QED BY <2>1, <2>2
<1>3. n \in T
  <2> HIDE DEF T
  <2> QED BY <1>1, <1>2, InductionOnNat
<1> QED BY <1>3

LEMMA UpToHas ==
    ASSUME NEW n \in Nat
    PROVE  Cardinality(0..n) = n + 1
<1>1. 0 \in Int /\ n \in Int /\ ~ (0 > n) /\ n - 0 + 1 = n + 1
  OBVIOUS
<1> QED BY <1>1, FS_Interval
=============================================================================
