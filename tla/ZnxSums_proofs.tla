--------------------------- MODULE ZnxSums_proofs ---------------------------
(***************************************************************************)
(* Sums, folds and powers, for every number of terms. SumFunction and the  *)
(* folds recurse on an element chosen from a set and the provers have no   *)
(* induction rule, so each recursion is tabulated: the subsets of a finite *)
(* set, or the numbers from zero, at which a table has its entry are all of *)
(* them (SetInduction, NumberInduction), and the last entry is the result. *)
(***************************************************************************)
EXTENDS ZnxPowers, FiniteSetTheorems, FiniteSetsExt, Functions, TLAPS

LEMMA LeastSet ==
  ASSUME NEW S, IsFiniteSet(S), NEW F \in SUBSET SUBSET S, F # {}
  PROVE  \E A \in F : \A B \in F : B \subseteq A => B = A
<1> DEFINE R == StrictSubsetOrdering(S)
<1>1. IsWellFoundedOn(R, SUBSET S)
  BY FS_StrictSubsetOrderingWellFounded, FS_FiniteSubsetsOfFinite
<1>2. PICK A \in F : \A B \in F : ~(<<B, A>> \in R)
  <2> HIDE DEF R
  <2> QED
    BY <1>1, WFMin
<1> QED
  BY <1>2 DEF StrictSubsetOrdering

LEMMA SetInduction ==
  ASSUME NEW S, IsFiniteSet(S), NEW F \in SUBSET SUBSET S,
         {} \in F, \A A \in F : \A x \in S \ A : A \cup {x} \in F
  PROVE  F = SUBSET S
<1> SUFFICES ASSUME (SUBSET S) \ F # {} PROVE FALSE
  OBVIOUS
<1>a. PICK G : G = (SUBSET S) \ F
  OBVIOUS
<1>0. G = (SUBSET S) \ F /\ G \in SUBSET SUBSET S /\ G # {}
  BY <1>a
<1>1. PICK A \in G : \A B \in G : B \subseteq A => B = A
  BY <1>0, LeastSet
<1>2. PICK x \in A : TRUE
  BY <1>0
<1>3. A \ {x} \in F
  BY <1>0, <1>1, <1>2
<1>4. (A \ {x}) \cup {x} = A
  OBVIOUS
<1> QED
  BY <1>0, <1>2, <1>3, <1>4

LEMMA LeastNumber ==
  ASSUME NEW T \in SUBSET Nat, T # {}
  PROVE  \E n \in T : \A m \in T : n <= m
<1>1. PICK k \in T : TRUE
  OBVIOUS
<1> DEFINE U == {A \in SUBSET (0..k) : \E n \in T : n <= k /\ A = 0..n}
<1>2. IsFiniteSet(0..k) /\ U \in SUBSET SUBSET (0..k) /\ 0..k \in U
  BY FS_Interval
<1>3. \E A \in U : \A B \in U : B \subseteq A => B = A
  <2> HIDE DEF U
  <2>1. PICK S : S = 0..k
    OBVIOUS
  <2>2. IsFiniteSet(S) /\ U \in SUBSET SUBSET S /\ U # {}
    BY <1>2, <2>1
  <2> QED
    BY <2>2, LeastSet
<1>3a. PICK A \in U : \A B \in U : B \subseteq A => B = A
  BY <1>3
<1>4. PICK n \in T : n <= k /\ A = 0..n
  OBVIOUS
<1>5. ASSUME NEW m \in T, m < n
      PROVE  FALSE
  <2>1. 0..m \in U /\ 0..m \subseteq A
    BY <1>4, <1>5
  <2>2. n \in A /\ n \notin 0..m
    BY <1>4, <1>5
  <2> QED
    BY <1>3a, <2>1, <2>2
<1> QED
  BY <1>4, <1>5

LEMMA NumberInduction ==
  ASSUME NEW T \in SUBSET Nat, 0 \in T, \A n \in T : n + 1 \in T
  PROVE  T = Nat
<1> SUFFICES ASSUME Nat \ T # {} PROVE FALSE
  OBVIOUS
<1>1. PICK n \in Nat \ T : \A m \in Nat \ T : n <= m
  BY LeastNumber
<1>2. n - 1 \in T
  BY <1>1
<1> QED
  BY <1>1, <1>2

-----------------------------------------------------------------------------
(* The first element of a set, in the order in which the sum takes them.   *)
Chosen(s) == CHOOSE x \in s : TRUE

(* A table of the sums over every subset of the domain of a function.      *)
IsTable(iter, f, D) ==
  iter = [s \in SUBSET D |-> IF s = {} THEN 0 ELSE f[Chosen(s)] + iter[s \ {Chosen(s)}]]

Table(f) == CHOOSE iter : IsTable(iter, f, DOMAIN f)

LEMMA SumIsTable ==
  ASSUME NEW f
  PROVE  SumFunction(f) = Table(f)[DOMAIN f]
  BY DEF SumFunction, SumFunctionOnSet, FoldFunctionOnSet, MapThenFoldSet, Table, IsTable, Chosen

LEMMA TableExists ==
  ASSUME NEW D, IsFiniteSet(D), NEW f
  PROVE  \E iter : IsTable(iter, f, D)
<1> DEFINE Below(n) == {s \in SUBSET D : Cardinality(s) <= n}
           Upto(g, n) == g = [s \in Below(n) |-> IF s = {} THEN 0
                                ELSE f[Chosen(s)] + g[s \ {Chosen(s)}]]
           T == {n \in Nat : \E g : Upto(g, n)}
<1>0. ASSUME NEW s \in SUBSET D
      PROVE  IsFiniteSet(s) /\ Cardinality(s) \in Nat /\ Cardinality(s) <= Cardinality(D)
             /\ (s = {} <=> Cardinality(s) = 0)
  BY FS_Subset, FS_CardinalityType, FS_EmptySet
<1>1. 0 \in T
  <2> DEFINE g == [s \in Below(0) |-> 0]
  <2>1. \A s \in Below(0) : s = {}
    BY <1>0
  <2>2. Upto(g, 0)
    BY <2>1
  <2> QED
    BY <2>2
<1>2. ASSUME NEW n \in T
      PROVE  n + 1 \in T
  <2>1. PICK g : Upto(g, n)
    OBVIOUS
  <2> DEFINE h == [s \in Below(n + 1) |-> IF s = {} THEN 0
                     ELSE f[Chosen(s)] + g[s \ {Chosen(s)}]]
  <2>2. ASSUME NEW s \in Below(n + 1), s # {}
        PROVE  g[s \ {Chosen(s)}] = h[s \ {Chosen(s)}]
    <3>1. Chosen(s) \in s
      BY <2>2 DEF Chosen
    <3>2. Cardinality(s \ {Chosen(s)}) = Cardinality(s) - 1 /\ s \in SUBSET D
      BY <1>0, <3>1, FS_RemoveElement
    <3> DEFINE r == s \ {Chosen(s)}
    <3>3. r \in Below(n) /\ r \in Below(n + 1)
      <4>1. Cardinality(s) <= n + 1 /\ Cardinality(s) \in Nat /\ n \in Nat
        BY <1>0
      <4> QED
        BY <3>2, <4>1
    <3> HIDE DEF r, Below
    <3>4. g[r] = IF r = {} THEN 0 ELSE f[Chosen(r)] + g[r \ {Chosen(r)}]
      BY <2>1, <3>3
    <3>5. h[r] = IF r = {} THEN 0 ELSE f[Chosen(r)] + g[r \ {Chosen(r)}]
      BY <3>3
    <3> QED
      BY <3>4, <3>5 DEF r
  <2>3. Upto(h, n + 1)
    <3> HIDE DEF Below
    <3>1. h = [s \in Below(n + 1) |-> IF s = {} THEN 0
                     ELSE f[Chosen(s)] + h[s \ {Chosen(s)}]]
      <4> SUFFICES ASSUME NEW s \in Below(n + 1)
                   PROVE h[s] = IF s = {} THEN 0 ELSE f[Chosen(s)] + h[s \ {Chosen(s)}]
        BY Zenon
      <4> QED
        BY <2>2
    <3> QED
      BY <3>1, Zenon
  <2> HIDE DEF h, Upto
  <2> QED
    BY <2>3
<1>3. Cardinality(D) \in T
  <2> HIDE DEF T
  <2>1. T \in SUBSET Nat
    BY DEF T
  <2> QED
    BY <1>0, <1>1, <1>2, <2>1, NumberInduction
<1>4. PICK g : Upto(g, Cardinality(D))
  BY <1>3
<1>5. Below(Cardinality(D)) = SUBSET D
  BY <1>0
<1>6. IsTable(g, f, D)
  <2> HIDE DEF Below
  <2> QED
    BY <1>4, <1>5, Zenon DEF IsTable
<1> QED
  BY <1>6

(* What makes a table one of sums: taking out any element takes out its    *)
(* value.                                                                  *)
Sums(g, f, D) ==
  /\ g[{}] = 0
  /\ \A s \in SUBSET D : g[s] \in Int /\ \A x \in s : g[s] = f[x] + g[s \ {x}]

LEMMA TableSums ==
  ASSUME NEW D, IsFiniteSet(D), NEW f, \A x \in D : f[x] \in Int,
         NEW g, IsTable(g, f, D)
  PROVE  Sums(g, f, D)
<1> DEFINE Good(s) == g[s] \in Int /\ \A x \in s : g[s] = f[x] + g[s \ {x}]
<1>1. \A s \in SUBSET D : g[s] = IF s = {} THEN 0 ELSE f[Chosen(s)] + g[s \ {Chosen(s)}]
  BY DEF IsTable
<1>2. ASSUME NEW s \in SUBSET D, \A r \in SUBSET s : r # s => Good(r)
      PROVE  Good(s)
  <2>1. CASE s = {}
    <3>1. g[s] = 0
      BY <1>1, <2>1
    <3> QED
      BY <2>1, <3>1
  <2>2. CASE s # {}
    <3>1. PICK c : c = Chosen(s)
      OBVIOUS
    <3>2. c \in s /\ f[c] \in Int /\ Good(s \ {c})
      BY <1>2, <2>2, <3>1 DEF Chosen
    <3>3. g[s] = f[c] + g[s \ {c}]
      BY <1>1, <2>2, <3>1
    <3>4. ASSUME NEW x \in s, x # c
          PROVE  g[s] = f[x] + g[s \ {x}]
      <4>1. Good(s \ {x}) /\ Good((s \ {x}) \ {c}) /\ f[x] \in Int
        BY <1>2
      <4>2. g[s \ {c}] = f[x] + g[(s \ {c}) \ {x}]
        BY <3>2, <3>4
      <4>3. g[s \ {x}] = f[c] + g[(s \ {x}) \ {c}]
        BY <3>2, <3>4, <4>1
      <4>4. (s \ {c}) \ {x} = (s \ {x}) \ {c}
        OBVIOUS
      <4>5. g[(s \ {x}) \ {c}] \in Int
        BY <4>1
      <4>6. PICK v, w, u : v = g[(s \ {x}) \ {c}] /\ w = g[s \ {x}] /\ u = g[s \ {c}]
        OBVIOUS
      <4>7. v \in Int /\ w = f[c] + v /\ u = f[x] + v /\ g[s] = f[c] + u
        BY <3>3, <4>2, <4>3, <4>4, <4>5, <4>6
      <4> HIDE DEF Good
      <4>8. g[s] = f[x] + w
        BY <3>2, <4>1, <4>7
      <4> QED
        BY <4>6, <4>8
    <3>5. g[s] \in Int
      BY <3>2, <3>3
    <3>6. \A x \in s : g[s] = f[x] + g[s \ {x}]
      BY <3>1, <3>3, <3>4
    <3> QED
      BY <3>5, <3>6
  <2> QED
    BY <2>1, <2>2
<1>3. \A s \in SUBSET D : Good(s)
  <2> SUFFICES ASSUME NEW t \in SUBSET D, ~Good(t) PROVE FALSE
    OBVIOUS
  <2>1. PICK B : B = {s \in SUBSET D : ~Good(s)}
    OBVIOUS
  <2>2. B \in SUBSET SUBSET D /\ B # {}
    BY <2>1
  <2>3. PICK s \in B : \A r \in B : r \subseteq s => r = s
    BY <2>2, LeastSet
  <2>4. s \in SUBSET D /\ ~Good(s) /\ \A r \in SUBSET s : r # s => Good(r)
    BY <2>1, <2>3
  <2> HIDE DEF Good
  <2> QED
    BY <1>2, <2>4
<1>4. g[{}] = 0
  BY <1>1
<1> QED
  BY <1>3, <1>4 DEF Sums

LEMMA SumsStep ==
  ASSUME NEW D, NEW f, NEW g, Sums(g, f, D), NEW s \in SUBSET D
  PROVE  g[s] \in Int /\ \A x \in s : g[s] = f[x] + g[s \ {x}]
  BY DEF Sums

(* Tables over different sets agree where the functions do.                *)
LEMMA SumsAgree ==
  ASSUME NEW D, NEW f, NEW g, Sums(g, f, D),
         NEW E, NEW e, NEW h, Sums(h, e, E),
         NEW S, IsFiniteSet(S), S \subseteq D, S \subseteq E, \A x \in S : f[x] = e[x]
  PROVE  g[S] = h[S]
<1>1. PICK F : F = {s \in SUBSET S : g[s] = h[s]}
  OBVIOUS
<1>2. {} \in F
  BY <1>1 DEF Sums
<1>3. ASSUME NEW A \in F, NEW x \in S \ A
      PROVE  A \cup {x} \in F
  <2>1. PICK B : B = A \cup {x}
    OBVIOUS
  <2>2. B \ {x} = A /\ B \in SUBSET S /\ B \in SUBSET D /\ B \in SUBSET E /\ x \in B
    BY <1>1, <2>1
  <2>3. g[B] = f[x] + g[B \ {x}]
    BY <2>2, SumsStep
  <2>4. h[B] = e[x] + h[B \ {x}]
    BY <2>2, SumsStep
  <2>5. g[A] = h[A] /\ f[x] = e[x]
    BY <1>1
  <2> QED
    BY <1>1, <2>1, <2>2, <2>3, <2>4, <2>5
<1>4. F \in SUBSET SUBSET S
  BY <1>1
<1>5. F = SUBSET S
  BY <1>2, <1>3, <1>4, SetInduction
<1> QED
  BY <1>1, <1>5

LEMMA SumSums ==
  ASSUME NEW f, IsFiniteSet(DOMAIN f), \A x \in DOMAIN f : f[x] \in Int
  PROVE  Sums(Table(f), f, DOMAIN f) /\ SumFunction(f) = Table(f)[DOMAIN f]
<1>1. \E iter : IsTable(iter, f, DOMAIN f)
  BY TableExists
<1>2. IsTable(Table(f), f, DOMAIN f)
  BY <1>1 DEF Table
<1> QED
  BY <1>2, TableSums, SumIsTable

(* The sum of a part of a function.                                        *)
Part(f, s) == [x \in s |-> f[x]]

LEMMA SumPart ==
  ASSUME NEW f, IsFiniteSet(DOMAIN f), \A x \in DOMAIN f : f[x] \in Int,
         NEW s \in SUBSET DOMAIN f
  PROVE  SumFunction(Part(f, s)) = Table(f)[s]
<1>1. PICK p : p = Part(f, s)
  OBVIOUS
<1>2. DOMAIN p = s /\ (\A x \in s : p[x] = f[x]) /\ IsFiniteSet(s)
  BY <1>1, FS_Subset DEF Part
<1>3. Sums(Table(p), p, s) /\ SumFunction(p) = Table(p)[s]
  BY <1>2, SumSums
<1>4. Sums(Table(f), f, DOMAIN f)
  BY SumSums
<1>5. Table(p)[s] = Table(f)[s]
  BY <1>2, <1>3, <1>4, SumsAgree
<1> QED
  BY <1>1, <1>3, <1>5

LEMMA SumType ==
  ASSUME NEW D, IsFiniteSet(D), NEW f \in [D -> Int]
  PROVE  SumFunction(f) \in Int
  BY SumSums DEF Sums

LEMMA SumEmpty ==
  ASSUME NEW f, DOMAIN f = {}
  PROVE  SumFunction(f) = 0
  BY SumSums, FS_EmptySet DEF Sums

LEMMA SumWithout ==
  ASSUME NEW D, IsFiniteSet(D), NEW f \in [D -> Int], NEW x \in D
  PROVE  SumFunction(f) = f[x] + SumFunction(Part(f, D \ {x}))
<1>1. SumFunction(Part(f, D \ {x})) = Table(f)[D \ {x}]
  BY SumPart
<1>2. Sums(Table(f), f, D) /\ SumFunction(f) = Table(f)[D]
  BY SumSums
<1> QED
  BY <1>1, <1>2 DEF Sums

(* A sum is the sum over a part and over the rest.                         *)
LEMMA SumSplit ==
  ASSUME NEW D, IsFiniteSet(D), NEW f \in [D -> Int], NEW S \in SUBSET D
  PROVE  SumFunction(f) = SumFunction(Part(f, S)) + SumFunction(Part(f, D \ S))
<1>1. PICK g : g = Table(f) /\ Sums(g, f, D) /\ SumFunction(f) = g[D]
  BY SumSums
<1>2. PICK F : F = {s \in SUBSET S : g[s \cup (D \ S)] = g[s] + g[D \ S]}
  OBVIOUS
<1>3. {} \in F
  <2>1. {} \cup (D \ S) = D \ S /\ g[D \ S] \in Int /\ g[{}] = 0
    BY <1>1 DEF Sums
  <2> QED
    BY <1>2, <2>1
<1>4. ASSUME NEW A \in F, NEW x \in S \ A
      PROVE  A \cup {x} \in F
  <2>1. PICK B, C : B = A \cup {x} /\ C = B \cup (D \ S)
    OBVIOUS
  <2>2. B \ {x} = A /\ C \ {x} = A \cup (D \ S) /\ x \in B /\ x \in C
    BY <1>2, <2>1
  <2>3. B \in SUBSET S /\ B \in SUBSET D /\ C \in SUBSET D /\ A \in SUBSET D
    BY <1>2, <2>1
  <2>4. g[B] = f[x] + g[A] /\ g[C] = f[x] + g[A \cup (D \ S)]
    <3>1. Sums(g, f, D)
      BY <1>1
    <3>2. x \in B /\ B \in SUBSET D
      BY <2>2, <2>3
    <3>3. x \in C /\ C \in SUBSET D
      BY <2>2, <2>3
    <3>4. g[B] = f[x] + g[B \ {x}]
      BY <3>1, <3>2, SumsStep
    <3>5. g[C] = f[x] + g[C \ {x}]
      BY <3>1, <3>3, SumsStep
    <3> QED
      BY <2>2, <3>4, <3>5
  <2>5. g[A] \in Int /\ g[D \ S] \in Int /\ f[x] \in Int
    BY <1>1, <2>3 DEF Sums
  <2>6. g[A \cup (D \ S)] = g[A] + g[D \ S]
    BY <1>2
  <2> QED
    BY <1>2, <2>1, <2>3, <2>4, <2>5, <2>6
<1>5. S \in F
  <2>1. F \in SUBSET SUBSET S /\ IsFiniteSet(S)
    BY <1>2, FS_Subset
  <2>2. F = SUBSET S
    BY <1>3, <1>4, <2>1, SetInduction
  <2> QED
    BY <2>2
<1>6. S \cup (D \ S) = D
  OBVIOUS
<1>7. SumFunction(Part(f, S)) = g[S] /\ SumFunction(Part(f, D \ S)) = g[D \ S]
  BY <1>1, SumPart
<1> QED
  BY <1>1, <1>2, <1>5, <1>6, <1>7

(* Larger values have a larger sum.                                        *)
LEMMA SumMonotone ==
  ASSUME NEW D, IsFiniteSet(D), NEW e \in [D -> Int], NEW f \in [D -> Int],
         \A x \in D : e[x] <= f[x]
  PROVE  SumFunction(e) <= SumFunction(f)
<1>1. PICK g : Sums(g, e, D) /\ SumFunction(e) = g[D]
  BY SumSums
<1>2. PICK h : Sums(h, f, D) /\ SumFunction(f) = h[D]
  BY SumSums
<1>3. PICK F : F = {s \in SUBSET D : g[s] <= h[s]}
  OBVIOUS
<1>4. {} \in F
  BY <1>1, <1>2, <1>3 DEF Sums
<1>5. ASSUME NEW A \in F, NEW x \in D \ A
      PROVE  A \cup {x} \in F
  <2>1. PICK B : B = A \cup {x}
    OBVIOUS
  <2>2. B \ {x} = A /\ B \in SUBSET D /\ A \in SUBSET D /\ x \in B
    BY <1>3, <2>1
  <2>3. g[B] = e[x] + g[A] /\ h[B] = f[x] + h[A]
    BY <1>1, <1>2, <2>2 DEF Sums
  <2>4. g[A] \in Int /\ h[A] \in Int /\ e[x] \in Int /\ f[x] \in Int /\ e[x] <= f[x]
    BY <1>1, <1>2, <2>2 DEF Sums
  <2>5. g[A] <= h[A]
    BY <1>3
  <2> QED
    BY <1>3, <2>1, <2>2, <2>3, <2>4, <2>5
<1>6. D \in F
  <2>1. F \in SUBSET SUBSET D
    BY <1>3
  <2>2. F = SUBSET D
    BY <1>4, <1>5, <2>1, SetInduction
  <2> QED
    BY <2>2
<1> QED
  BY <1>1, <1>2, <1>3, <1>6

LEMMA SumNatural ==
  ASSUME NEW D, IsFiniteSet(D), NEW f \in [D -> Nat]
  PROVE  SumFunction(f) \in Nat
<1>1. PICK g : Sums(g, f, D) /\ SumFunction(f) = g[D]
  BY SumSums
<1>2. PICK F : F = {s \in SUBSET D : g[s] \in Nat}
  OBVIOUS
<1>3. {} \in F
  BY <1>1, <1>2 DEF Sums
<1>4. ASSUME NEW A \in F, NEW x \in D \ A
      PROVE  A \cup {x} \in F
  <2>1. PICK B : B = A \cup {x}
    OBVIOUS
  <2>2. B \ {x} = A /\ B \in SUBSET D /\ x \in B
    BY <1>2, <2>1
  <2>3. g[B] = f[x] + g[A]
    BY <1>1, <2>2 DEF Sums
  <2> QED
    BY <1>2, <2>1, <2>2, <2>3
<1>5. F \in SUBSET SUBSET D
  BY <1>2
<1>6. F = SUBSET D
  BY <1>3, <1>4, <1>5, SetInduction
<1> QED
  BY <1>1, <1>2, <1>6

(* A sum does not depend on how its terms are named.                       *)
LEMMA SumRenamed ==
  ASSUME NEW D, IsFiniteSet(D), NEW E, IsFiniteSet(E),
         NEW f \in [E -> Int], NEW b \in [D -> E],
         \A x, y \in D : b[x] = b[y] => x = y,
         \A z \in E : \E x \in D : b[x] = z
  PROVE  SumFunction(f) = SumFunction([x \in D |-> f[b[x]]])
<1>0. PICK e : e = [x \in D |-> f[b[x]]]
  OBVIOUS
<1>1. PICK g : Sums(g, e, D) /\ SumFunction(e) = g[D]
  BY <1>0, SumSums
<1>2. PICK h : Sums(h, f, E) /\ SumFunction(f) = h[E]
  BY SumSums
<1> DEFINE Image(s) == {b[x] : x \in s}
<1>3. PICK F : F = {s \in SUBSET D : g[s] = h[Image(s)]}
  OBVIOUS
<1>4. {} \in F
  <2>1. Image({}) = {}
    OBVIOUS
  <2> QED
    BY <1>1, <1>2, <1>3, <2>1 DEF Sums
<1>5. ASSUME NEW A \in F, NEW x \in D \ A
      PROVE  A \cup {x} \in F
  <2>1. PICK B, IB : B = A \cup {x} /\ IB = Image(B)
    OBVIOUS
  <2>2. B \ {x} = A /\ B \in SUBSET D /\ x \in B /\ A \in SUBSET D
    BY <1>3, <2>1
  <2>3. IB \ {b[x]} = Image(A) /\ IB \in SUBSET E /\ b[x] \in IB
    BY <2>1, <2>2
  <2>4. g[B] = e[x] + g[A] /\ h[IB] = f[b[x]] + h[IB \ {b[x]}]
    BY <1>1, <1>2, <2>2, <2>3 DEF Sums
  <2>5. e[x] = f[b[x]] /\ g[A] = h[Image(A)]
    BY <1>0, <1>3
  <2>6. g[B] = h[IB]
    BY <2>3, <2>4, <2>5
  <2> HIDE DEF Image
  <2> QED
    BY <1>3, <2>1, <2>2, <2>6
<1>6. Image(D) = E
  OBVIOUS
<1>7. D \in F
  <2>1. F \in SUBSET SUBSET D
    BY <1>3
  <2>2. F = SUBSET D
    <3> HIDE DEF Image
    <3> QED
      BY <1>4, <1>5, <2>1, SetInduction
  <2> QED
    BY <2>2
<1> HIDE DEF Image
<1> QED
  BY <1>0, <1>1, <1>2, <1>3, <1>6, <1>7

(* A function that steps from one number to the next.                      *)
LEMMA StepsExist ==
  ASSUME NEW S, NEW start \in S, NEW step \in [S -> S]
  PROVE  \E g \in [Nat -> S] : g[0] = start /\ \A n \in Nat : g[n + 1] = step[g[n]]
<1> DEFINE Upto(g, n) == /\ g \in [0..n -> S] /\ g[0] = start
                         /\ \A m \in 0..n - 1 : g[m + 1] = step[g[m]]
           T == {n \in Nat : \E g : Upto(g, n)}
<1>1. 0 \in T
  <2>1. Upto([m \in 0..0 |-> start], 0)
    OBVIOUS
  <2> QED
    BY <2>1
<1>2. ASSUME NEW n \in T
      PROVE  n + 1 \in T
  <2>1. PICK g : Upto(g, n)
    OBVIOUS
  <2>2. PICK h : h = [m \in 0..n + 1 |-> IF m = n + 1 THEN step[g[n]] ELSE g[m]]
    OBVIOUS
  <2>3. n \in Nat /\ g[n] \in S
    BY <2>1
  <2>4. h \in [0..n + 1 -> S] /\ h[0] = start
    BY <2>1, <2>2, <2>3
  <2>5. ASSUME NEW m \in 0..(n + 1) - 1
        PROVE  h[m + 1] = step[h[m]]
    <3>1. h[m] = g[m] /\ m \in 0..n
      BY <2>2, <2>3
    <3>2. CASE m = n
      BY <2>2, <2>3, <3>1, <3>2
    <3>3. CASE m # n
      <4>1. m \in 0..n - 1 /\ m + 1 \in 0..n
        BY <2>3, <3>1, <3>3
      <4> QED
        BY <2>1, <2>2, <2>3, <3>1, <4>1
    <3> QED
      BY <3>2, <3>3
  <2>6. Upto(h, n + 1)
    BY <2>4, <2>5
  <2> QED
    BY <2>3, <2>6
<1>3. T = Nat
  <2>1. T \in SUBSET Nat /\ \A n \in T : n + 1 \in T
    BY <1>2
  <2> HIDE DEF T
  <2> QED
    BY <1>1, <2>1, NumberInduction
<1> DEFINE A(n) == CHOOSE g : Upto(g, n)
<1>4. ASSUME NEW n \in Nat
      PROVE  Upto(A(n), n)
  BY <1>3
<1>5. ASSUME NEW n \in Nat, NEW k \in Nat, k >= n
      PROVE  \A m \in 0..n : A(n)[m] = A(k)[m]
  <2> DEFINE E == {m \in Nat : m <= n => A(n)[m] = A(k)[m]}
  <2>1. Upto(A(n), n) /\ Upto(A(k), k)
    BY <1>4, <1>5
  <2> HIDE DEF A
  <2>2. 0 \in E
    BY <2>1
  <2>3. ASSUME NEW m \in E
        PROVE  m + 1 \in E
    <3>1. CASE m + 1 <= n
      <4>1. m \in 0..n - 1 /\ m \in 0..k - 1 /\ m <= n
        BY <1>5, <3>1
      <4> QED
        BY <2>1, <4>1
    <3>2. CASE ~(m + 1 <= n)
      BY <3>2
    <3> QED
      BY <3>1, <3>2
  <2>4. E = Nat
    <3>1. E \in SUBSET Nat
      OBVIOUS
    <3> HIDE DEF E
    <3> QED
      BY <2>2, <2>3, <3>1, NumberInduction
  <2> QED
    BY <2>4
<1>6. PICK g : g = [n \in Nat |-> A(n)[n]]
  OBVIOUS
<1> HIDE DEF A
<1>7. g \in [Nat -> S] /\ g[0] = start
  BY <1>4, <1>6
<1>8. ASSUME NEW n \in Nat
      PROVE  g[n + 1] = step[g[n]]
  <2>1. A(n)[n] = A(n + 1)[n]
    BY <1>5
  <2>2. A(n + 1)[n + 1] = step[A(n + 1)[n]]
    BY <1>4
  <2> QED
    BY <1>6, <2>1, <2>2
<1> QED
  BY <1>7, <1>8

LEMMA PowerSteps ==
  ASSUME NEW b \in Nat
  PROVE  /\ Power(b, 0) = 1
         /\ \A n \in Nat : Power(b, n) \in Nat /\ Power(b, n + 1) = b * Power(b, n)
<1> DEFINE Is(f) == f = [n \in Nat |-> IF n = 0 THEN 1 ELSE b * f[n - 1]]
<1>1. PICK g \in [Nat -> Nat] : g[0] = 1 /\ \A n \in Nat : g[n + 1] = b * g[n]
  <2>1. PICK step : step = [y \in Nat |-> b * y]
    OBVIOUS
  <2>2. step \in [Nat -> Nat] /\ 1 \in Nat /\ \A y \in Nat : step[y] = b * y
    BY <2>1
  <2>3. \E g \in [Nat -> Nat] : g[0] = 1 /\ \A n \in Nat : g[n + 1] = step[g[n]]
    <3>1. PICK S, start : S = Nat /\ start = 1
      OBVIOUS
    <3>2. start \in S /\ step \in [S -> S]
      BY <2>2, <3>1
    <3>3. \E g \in [Nat -> S] : g[0] = start /\ \A n \in Nat : g[n + 1] = step[g[n]]
      BY <3>2, StepsExist
    <3> QED
      BY <3>1, <3>3
  <2> QED
    BY <2>2, <2>3
<1>2. Is(g)
  <2>1. PICK e : e = [n \in Nat |-> IF n = 0 THEN 1 ELSE b * g[n - 1]]
    OBVIOUS
  <2>2. ASSUME NEW n \in Nat
        PROVE  e[n] = g[n]
    <3>1. CASE n = 0
      BY <1>1, <2>1, <3>1
    <3>2. CASE n # 0
      <4>1. n - 1 \in Nat /\ (n - 1) + 1 = n
        BY <3>2
      <4>2. g[(n - 1) + 1] = b * g[n - 1]
        BY <1>1, <4>1
      <4> QED
        BY <2>1, <3>2, <4>1, <4>2
    <3> QED
      BY <3>1, <3>2
  <2>3. e = g
    BY <1>1, <2>1, <2>2
  <2> QED
    BY <2>1, <2>3
<1> DEFINE p == CHOOSE f : Is(f)
<1>3. Is(p)
  BY <1>2
<1>4. \A n : Power(b, n) = p[n]
  BY DEF Power
<1> HIDE DEF p
<1>5. p[0] = 1
  BY <1>3
<1>6. \A n \in Nat : p[n + 1] = b * p[n]
  <2> SUFFICES ASSUME NEW n \in Nat PROVE p[n + 1] = b * p[n]
    OBVIOUS
  <2>1. n + 1 \in Nat /\ n + 1 # 0 /\ (n + 1) - 1 = n
    OBVIOUS
  <2> QED
    BY <1>3, <2>1
<1>7. \A n \in Nat : p[n] \in Nat
  <2>1. PICK T : T = {n \in Nat : p[n] \in Nat}
    OBVIOUS
  <2>2. T \in SUBSET Nat /\ 0 \in T
    BY <1>5, <2>1
  <2>3. \A n \in T : n + 1 \in T
    BY <1>6, <2>1
  <2> QED
    BY <2>1, <2>2, <2>3, NumberInduction
<1> QED
  BY <1>4, <1>5, <1>6, <1>7

LEMMA PowerPositive ==
  ASSUME NEW b \in Nat \ {0}, NEW n \in Nat
  PROVE  Power(b, n) \in Nat \ {0}
<1>0. b \in Nat /\ Power(b, 0) = 1
  BY PowerSteps
<1>1. PICK T : T = {m \in Nat : Power(b, m) \in Nat \ {0}}
  OBVIOUS
<1>2. T \in SUBSET Nat /\ 0 \in T
  BY <1>0, <1>1
<1>3. ASSUME NEW m \in T
      PROVE  m + 1 \in T
  <2>1. PICK x \in Nat \ {0} : x = Power(b, m)
    BY <1>1
  <2>2. Power(b, m + 1) = b * x
    BY <1>1, <2>1, PowerSteps
  <2>3. b * x \in Nat /\ b * x # 0
    OBVIOUS
  <2> QED
    BY <1>1, <2>2, <2>3
<1>4. T = Nat
  BY <1>2, <1>3, NumberInduction
<1> QED
  BY <1>1, <1>4

LEMMA PowerAdds ==
  ASSUME NEW b \in Nat, NEW m \in Nat, NEW n \in Nat
  PROVE  Power(b, m + n) = Power(b, m) * Power(b, n)
<1>1. PICK T : T = {k \in Nat : Power(b, m + k) = Power(b, m) * Power(b, k)}
  OBVIOUS
<1>2. T \in SUBSET Nat /\ 0 \in T
  <2>1. m + 0 = m /\ Power(b, 0) = 1 /\ Power(b, m) \in Nat
    BY PowerSteps
  <2>2. Power(b, m) * 1 = Power(b, m)
    BY <2>1
  <2> QED
    BY <1>1, <2>1, <2>2
<1>3. ASSUME NEW k \in T
      PROVE  k + 1 \in T
  <2>1. PICK x, y, z : x = Power(b, m) /\ y = Power(b, k) /\ z = Power(b, m + k)
    OBVIOUS
  <2>2. x \in Nat /\ y \in Nat /\ z = x * y /\ k \in Nat
    BY <1>1, <2>1, PowerSteps
  <2>3. m + (k + 1) = (m + k) + 1
    BY <2>2
  <2>4. Power(b, m + (k + 1)) = b * z /\ Power(b, k + 1) = b * y
    <3>1. m + k \in Nat
      BY <2>2
    <3> QED
      BY <2>1, <2>2, <2>3, <3>1, PowerSteps
  <2>5. b * (x * y) = x * (b * y)
    BY <2>2
  <2> QED
    BY <1>1, <2>1, <2>2, <2>4, <2>5
<1> QED
  BY <1>1, <1>2, <1>3, NumberInduction

LEMMA SumOfOne ==
  ASSUME NEW f, NEW r \in Int, f = <<r>>
  PROVE  SumFunction(f) = r
<1>1. PICK D : D = {1} /\ DOMAIN f = D /\ f[1] = r
  OBVIOUS
<1>2. IsFiniteSet(D) /\ f \in [D -> Int] /\ 1 \in D
  <2>1. IsFiniteSet({1})
    BY FS_Singleton
  <2> QED
    BY <1>1, <2>1
<1>3. SumFunction(f) = f[1] + SumFunction(Part(f, D \ {1}))
  BY <1>2, SumWithout
<1>4. SumFunction(Part(f, D \ {1})) = 0
  <2>1. D \ {1} = {}
    BY <1>1
  <2> QED
    BY <2>1, SumEmpty DEF Part
<1> QED
  BY <1>1, <1>3, <1>4

(* A sum does not change when its terms are named otherwise.               *)
Renames(b, D, E) ==
  /\ IsFiniteSet(D) /\ IsFiniteSet(E) /\ b \in [D -> E]
  /\ \A x, y \in D : b[x] = b[y] => x = y
  /\ \A z \in E : \E x \in D : b[x] = z

LEMMA SumReordered ==
  ASSUME NEW D, NEW E, NEW b, Renames(b, D, E), NEW f \in [E -> Int], NEW h \in [D -> Int],
         \A x \in D : h[x] = f[b[x]]
  PROVE  SumFunction(f) = SumFunction(h)
<1>1. [x \in D |-> f[b[x]]] = h
  OBVIOUS
<1>2. SumFunction(f) = SumFunction([x \in D |-> f[b[x]]])
  BY SumRenamed DEF Renames
<1> QED
  BY <1>1, <1>2

LEMMA ShiftRenames ==
  ASSUME NEW n \in Nat
  PROVE  Renames([i \in 2..n + 1 |-> i - 1], 2..n + 1, 1..n)
<1>1. PICK D, E, b : D = 2..n + 1 /\ E = 1..n /\ b = [i \in D |-> i - 1]
  OBVIOUS
<1>2. IsFiniteSet(D)
  BY <1>1, FS_Interval
<1>3. IsFiniteSet(E)
  BY <1>1, FS_Interval
<1>4. \A x \in D : b[x] = x - 1 /\ x - 1 \in E /\ x \in Int
  BY <1>1
<1>5. \A z \in E : z + 1 \in D /\ b[z + 1] = z
  BY <1>1
<1>6. b \in [D -> E]
  BY <1>1, <1>4
<1>7. Renames(b, D, E)
  BY <1>2, <1>3, <1>4, <1>5, <1>6 DEF Renames
<1> QED
  BY <1>1, <1>7

-----------------------------------------------------------------------------
(* Folds over the numbers up to some n, the last one first.                *)
LEMMA LastNumber ==
  ASSUME NEW n \in Nat, NEW s \in SUBSET (1..n), s # {}
  PROVE  Max(s) \in s /\ \A y \in s : Max(s) >= y
<1>1. PICK T : T = {n - y : y \in s}
  OBVIOUS
<1>2. T \in SUBSET Nat /\ T # {}
  <2>1. \A y \in s : n - y \in Nat
    OBVIOUS
  <2>2. \E y \in s : TRUE
    OBVIOUS
  <2> QED
    BY <1>1, <2>1, <2>2
<1>3. PICK k \in T : \A m \in T : k <= m
  BY <1>2, LeastNumber
<1>4. PICK x \in s : k = n - x
  BY <1>1
<1>5. \A y \in s : x >= y
  BY <1>1, <1>3, <1>4
<1> QED
  BY <1>5 DEF Max

LEMMA LastOfInterval ==
  ASSUME NEW n \in Nat
  PROVE  Max(1..n + 1) = n + 1 /\ (1..n + 1) \ {n + 1} = 1..n
<1>1. Max(1..n + 1) \in 1..n + 1 /\ \A y \in 1..n + 1 : Max(1..n + 1) >= y
  <2>1. PICK m \in Nat : m = n + 1
    OBVIOUS
  <2>2. PICK s : s = 1..m
    OBVIOUS
  <2>3. s \in SUBSET (1..m) /\ s # {}
    BY <2>1, <2>2
  <2> QED
    BY <2>1, <2>2, <2>3, LastNumber
<1> QED
  BY <1>1

(* The table of a fold that takes the last number first.                   *)
IsFold(iter, D, base, step) ==
  iter = [s \in SUBSET D |-> IF s = {} THEN base ELSE step[<<Max(s), iter[s \ {Max(s)}]>>]]

LEMMA FoldExists ==
  ASSUME NEW n \in Nat, NEW V, NEW base \in V, NEW step \in [(1..n) \X V -> V]
  PROVE  \E iter \in [SUBSET (1..n) -> V] : IsFold(iter, 1..n, base, step)
<1>d. PICK D : D = 1..n /\ IsFiniteSet(D)
  BY FS_Interval
<1> DEFINE Small(k) == {s \in SUBSET D : Cardinality(s) <= k}
           Value(g, s) == IF s = {} THEN base ELSE step[<<Max(s), g[s \ {Max(s)}]>>]
           Upto(g, k) == g \in [Small(k) -> V] /\ \A s \in Small(k) : g[s] = Value(g, s)
           T == {k \in Nat : \E g : Upto(g, k)}
<1>0. ASSUME NEW s \in SUBSET D
      PROVE  /\ IsFiniteSet(s) /\ Cardinality(s) \in Nat /\ Cardinality(s) <= Cardinality(D)
             /\ (s = {} <=> Cardinality(s) = 0)
  BY <1>d, FS_Subset, FS_CardinalityType, FS_EmptySet
<1>1. 0 \in T
  <2>1. PICK g : g = [s \in Small(0) |-> base]
    OBVIOUS
  <2>2. \A s \in Small(0) : s = {}
    BY <1>0
  <2>3. Upto(g, 0)
    BY <2>1, <2>2
  <2> QED
    BY <2>3
<1>2. ASSUME NEW k \in T
      PROVE  k + 1 \in T
  <2>1. PICK g : Upto(g, k)
    OBVIOUS
  <2>2. PICK h : h = [s \in Small(k + 1) |-> Value(g, s)]
    OBVIOUS
  <2>3. ASSUME NEW s \in Small(k + 1), s # {}
        PROVE  /\ s \ {Max(s)} \in Small(k) /\ s \ {Max(s)} \in Small(k + 1)
               /\ Max(s) \in 1..n
    <3>1. PICK x : x = Max(s)
      OBVIOUS
    <3>2. x \in s
      BY <1>d, <2>3, <3>1, LastNumber
    <3>3. Cardinality(s \ {x}) = Cardinality(s) - 1 /\ s \in SUBSET D /\ Cardinality(s) \in Nat
      BY <1>0, <3>2, FS_RemoveElement
    <3>4. Cardinality(s) <= k + 1 /\ k \in Nat
      OBVIOUS
    <3>5. Cardinality(s \ {x}) <= k /\ Cardinality(s \ {x}) <= k + 1
      BY <3>3, <3>4
    <3> QED
      BY <1>d, <3>1, <3>2, <3>3, <3>5
  <2>4. ASSUME NEW s \in Small(k + 1)
        PROVE  h[s] \in V /\ h[s] = Value(g, s)
    <3>1. CASE s = {}
      BY <2>2, <3>1
    <3>2. CASE s # {}
      <4>1. PICK x, r : x = Max(s) /\ r = s \ {x}
        OBVIOUS
      <4>2. r \in Small(k) /\ x \in 1..n
        BY <2>3, <3>2, <4>1
      <4>3. g[r] \in V
        BY <2>1, <4>2
      <4>4. <<x, g[r]>> \in (1..n) \X V
        BY <4>2, <4>3
      <4>5. Value(g, s) = step[<<x, g[r]>>]
        BY <3>2, <4>1
      <4>6. h[s] = Value(g, s)
        BY <2>2
      <4> QED
        BY <4>4, <4>5, <4>6
    <3> QED
      BY <3>1, <3>2
  <2>5. ASSUME NEW s \in Small(k)
        PROVE  s \in Small(k + 1) /\ g[s] = h[s]
    <3>1. s \in Small(k + 1)
      BY <1>0
    <3>2. g[s] = Value(g, s)
      BY <2>1
    <3> QED
      BY <2>4, <3>1, <3>2
  <2>6. ASSUME NEW s \in Small(k + 1)
        PROVE  h[s] = Value(h, s)
    <3>1. CASE s = {}
      BY <2>4, <3>1
    <3>2. CASE s # {}
      <4>1. PICK r : r = s \ {Max(s)}
        OBVIOUS
      <4>2. r \in Small(k)
        BY <2>3, <3>2, <4>1
      <4>3. g[r] = h[r]
        BY <2>5, <4>2
      <4>4. h[s] = step[<<Max(s), g[r]>>]
        BY <2>4, <3>2, <4>1
      <4> QED
        BY <3>2, <4>1, <4>3, <4>4
    <3> QED
      BY <3>1, <3>2
  <2>7. Upto(h, k + 1)
    <3>1. h \in [Small(k + 1) -> V]
      BY <2>2, <2>4
    <3> QED
      BY <2>6, <3>1
  <2>8. k + 1 \in Nat
    OBVIOUS
  <2> HIDE DEF Upto
  <2> QED
    BY <2>7, <2>8
<1>3. PICK c \in Nat : c = Cardinality(D) /\ c \in T
  <2>1. T \in SUBSET Nat
    OBVIOUS
  <2> HIDE DEF T
  <2>2. T = Nat
    BY <1>1, <1>2, <2>1, NumberInduction
  <2> QED
    BY <1>0, <2>2
<1>4. PICK g : Upto(g, c)
  BY <1>3
<1>5. Small(c) = SUBSET D
  BY <1>0, <1>3
<1>6. g \in [SUBSET D -> V] /\ \A s \in SUBSET D : g[s] = Value(g, s)
  BY <1>4, <1>5
<1>7. g = [s \in SUBSET D |-> Value(g, s)]
  BY <1>6
<1> QED
  BY <1>d, <1>6, <1>7 DEF IsFold

-----------------------------------------------------------------------------
(* A sum of nothing but zeros.                                            *)
LEMMA SumOfZeros ==
  ASSUME NEW D, IsFiniteSet(D), NEW f \in [D -> Int], \A x \in D : f[x] = 0
  PROVE  SumFunction(f) = 0
<1>1. PICK g : Sums(g, f, D) /\ SumFunction(f) = g[D]
  BY SumSums
<1>2. PICK F : F = {s \in SUBSET D : g[s] = 0}
  OBVIOUS
<1>3. {} \in F
  BY <1>1, <1>2 DEF Sums
<1>4. ASSUME NEW A \in F, NEW x \in D \ A
      PROVE  A \cup {x} \in F
  <2>1. PICK B : B = A \cup {x}
    OBVIOUS
  <2>2. B \ {x} = A /\ B \in SUBSET D /\ x \in B
    BY <1>2, <2>1
  <2>3. g[B] = f[x] + g[A] /\ g[A] = 0 /\ f[x] = 0
    BY <1>1, <1>2, <2>2 DEF Sums
  <2> QED
    BY <1>2, <2>1, <2>2, <2>3
<1>5. F \in SUBSET SUBSET D
  BY <1>2
<1>6. F = SUBSET D
  BY <1>3, <1>4, <1>5, SetInduction
<1>7. D \in F
  BY <1>6
<1> QED
  BY <1>1, <1>2, <1>7

(* Of some numbers up to a bound there is a greatest.                      *)
LEMMA GreatestUpTo ==
  ASSUME NEW k \in Nat, NEW S \in SUBSET (0..k), S # {}
  PROVE  \E n \in S : \A m \in n + 1..k : m \notin S
<1>1. PICK T : T = {k - n : n \in S}
  OBVIOUS
<1>2. T \in SUBSET Nat /\ T # {}
  <2>1. \A n \in S : k - n \in Nat
    OBVIOUS
  <2> QED
    BY <1>1, <2>1
<1>3. PICK d \in T : \A e \in T : d <= e
  BY <1>2, LeastNumber
<1>4. PICK n \in S : d = k - n
  BY <1>1
<1>5. ASSUME NEW m \in n + 1..k, m \in S
      PROVE  FALSE
  <2>1. k - m \in T
    BY <1>1, <1>5
  <2> QED
    BY <1>3, <1>4, <2>1
<1> QED
  BY <1>5

(* Division, by what it leaves.                                            *)
LEMMA Quotient ==
  ASSUME NEW a \in Nat, NEW e \in Nat \ {0}
  PROVE  a \div e \in Nat /\ e * (a \div e) <= a /\ a < e * (a \div e) + e
<1>1. PICK q, r : q = a \div e /\ r = a % e
  OBVIOUS
<1>2. q \in Int /\ r \in 0..e - 1 /\ a = e * q + r
  BY <1>1
<1>3. q >= 0
  <2> SUFFICES ASSUME q <= -1 PROVE FALSE
    BY <1>2
  <2>1. e * q <= e * (-1)
    BY <1>2
  <2> QED
    BY <1>2, <2>1
<1> QED
  BY <1>1, <1>2, <1>3
=============================================================================
