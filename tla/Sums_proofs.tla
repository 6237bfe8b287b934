------------------------------ MODULE Sums_proofs ------------------------------
(*****************************************************************************)
(* The sum of the values of a function, SumFunction of the community modules:*)
(* the proofs about margins, trades and bookings rest on what changes of one *)
(* value do to it.  The sum is defined by taking one element after the other *)
(* out of the domain, in an order that CHOOSE fixes; that the order does not *)
(* matter is shown for every finite domain, by the least set that is an      *)
(* exception.                                                                *)
(*****************************************************************************)
EXTENDS Integers, Functions, FiniteSetTheorems, WellFoundedInduction, TLAPS

First(s) == CHOOSE x \in s : TRUE
Rest(s) == s \ {First(s)}

\* g adds up the values of h on each subset of S, one element after the other.
AddsUp(g, h, S) ==
    g = [s \in SUBSET S |-> IF s = {} THEN 0 ELSE h[First(s)] + g[Rest(s)]]

LEMMA FirstIsElement ==
    ASSUME NEW s, s # {} PROVE First(s) \in s
  BY DEF First

LEMMA SumAddsUp ==
    ASSUME NEW h, NEW g, AddsUp(g, h, DOMAIN h)
    PROVE  \E i : AddsUp(i, h, DOMAIN h) /\ SumFunction(h) = i[DOMAIN h]
  BY DEF SumFunction, SumFunctionOnSet, FoldFunctionOnSet, MapThenFoldSet, AddsUp, First,
         Rest

\* Among sets of subsets of a finite set there is one that contains no other.
LEMMA LeastSubset ==
    ASSUME NEW S, IsFiniteSet(S), NEW B \in SUBSET SUBSET S, B # {}
    PROVE  \E s \in B : \A u \in B : u \subseteq s => u = s
  <1> DEFINE sizes == {Cardinality(s) : s \in B}
  <1>1. \A s \in B : IsFiniteSet(s) /\ Cardinality(s) \in Nat
    BY FS_Subset, FS_CardinalityType
  <1>2. sizes \in SUBSET Nat /\ sizes # {}
    BY <1>1
  <1> HIDE DEF sizes
  <1>3. PICK n \in sizes : \A m \in sizes : ~(<<m, n>> \in OpToRel(<, Nat))
    BY <1>2, WFMin, NatLessThanWellFounded
  <1>4. \A m \in sizes : m \in Nat /\ n \in Nat /\ ~(m < n)
    BY <1>2, <1>3 DEF OpToRel
  <1>5. PICK s \in B : Cardinality(s) = n
    BY DEF sizes
  <1>6. ASSUME NEW u \in B, u \subseteq s
        PROVE  u = s
    <2>1. Cardinality(u) \in sizes
      BY DEF sizes
    <2>2. /\ Cardinality(u) <= Cardinality(s)
          /\ Cardinality(s) = Cardinality(u) => s = u
      BY <1>1, <1>6, FS_Subset
    <2>3. QED
      BY <1>1, <1>4, <1>5, <2>1, <2>2
  <1>7. QED
    BY <1>6

LEMMA SumAt ==
    ASSUME NEW S, NEW g, NEW h, AddsUp(g, h, S), NEW s \in SUBSET S
    PROVE  g[s] = IF s = {} THEN 0 ELSE h[First(s)] + g[Rest(s)]
  BY DEF AddsUp

\* The sum over a set depends on the values on it alone.
LEMMA SameSum ==
    ASSUME NEW S, NEW T, NEW U, IsFiniteSet(U), U \subseteq S, U \subseteq T,
           NEW g, NEW h, NEW i, NEW k, AddsUp(g, h, S), AddsUp(i, k, T),
           \A x \in U : h[x] = k[x]
    PROVE  \A u \in SUBSET U : g[u] = i[u]
  <1> DEFINE B == {u \in SUBSET U : g[u] # i[u]}
  <1>1. SUFFICES ASSUME B # {} PROVE FALSE
    OBVIOUS
  <1>0. B \in SUBSET SUBSET U /\ \A u \in B : g[u] # i[u]
    OBVIOUS
  <1>2. PICK s \in B : \A u \in B : u \subseteq s => u = s
    <2> HIDE DEF B
    <2>1. QED
      BY <1>0, <1>1, LeastSubset
  <1>3. s \in SUBSET S /\ s \in SUBSET T /\ s \in SUBSET U
    OBVIOUS
  <1>4. g[s] = IF s = {} THEN 0 ELSE h[First(s)] + g[Rest(s)]
    BY <1>3, SumAt
  <1>5. i[s] = IF s = {} THEN 0 ELSE k[First(s)] + i[Rest(s)]
    BY <1>3, SumAt
  <1>6. s # {}
    BY <1>2, <1>4, <1>5
  <1>7. First(s) \in s /\ Rest(s) \in SUBSET U /\ Rest(s) \subseteq s /\ Rest(s) # s
    BY <1>3, <1>6, FirstIsElement DEF Rest
  <1>8. g[Rest(s)] = i[Rest(s)]
    BY <1>2, <1>7
  <1>9. h[First(s)] = k[First(s)]
    BY <1>3, <1>7
  <1>10. QED
    BY <1>2, <1>4, <1>5, <1>6, <1>8, <1>9

LEMMA SumOfPart ==
    ASSUME NEW S, NEW U, IsFiniteSet(U), U \subseteq S,
           NEW g, NEW h, NEW i, AddsUp(g, h, S), AddsUp(i, h, U)
    PROVE  g[U] = i[U]
  <1>1. \A x \in U : h[x] = h[x]
    OBVIOUS
  <1>2. U \subseteq U /\ U \in SUBSET U
    OBVIOUS
  <1>3. \A u \in SUBSET U : g[u] = i[u]
    BY <1>1, <1>2, SameSum
  <1>4. QED
    BY <1>2, <1>3

\* The values on a finite set have a sum.
LEMMA SumExists ==
    ASSUME NEW S, IsFiniteSet(S), NEW h
    PROVE  \E g : AddsUp(g, h, S)
  <1> DEFINE B == {T \in SUBSET S : ~\E g : AddsUp(g, h, T)}
  <1>1. SUFFICES ASSUME B # {} PROVE FALSE
    OBVIOUS
  <1>0. B \in SUBSET SUBSET S
    OBVIOUS
  <1>2. PICK T \in B : \A U \in B : U \subseteq T => U = T
    <2> HIDE DEF B
    <2>1. QED
      BY <1>0, <1>1, LeastSubset
  <1> DEFINE G == [u \in SUBSET T |-> CHOOSE g : AddsUp(g, h, u)]
             sum == [s \in SUBSET T |->
                        IF s = {} THEN 0 ELSE h[First(s)] + G[Rest(s)][Rest(s)]]
  <1>3. ASSUME NEW u \in SUBSET T, u # T
        PROVE  AddsUp(G[u], h, u)
    <2>1. \E g : AddsUp(g, h, u)
      BY <1>2, <1>3
    <2>2. QED
      BY <2>1
  <1>4. ASSUME NEW u \in SUBSET T, u # T
        PROVE  sum[u] = G[u][u]
    <2>1. G[u][u] = IF u = {} THEN 0 ELSE h[First(u)] + G[u][Rest(u)]
      <3>1. AddsUp(G[u], h, u) /\ u \in SUBSET u
        BY <1>3, <1>4
      <3> HIDE DEF G
      <3>2. QED
        BY <3>1, SumAt
    <2>2. sum[u] = IF u = {} THEN 0 ELSE h[First(u)] + G[Rest(u)][Rest(u)]
      OBVIOUS
    <2>3. ASSUME u # {}
          PROVE  G[u][Rest(u)] = G[Rest(u)][Rest(u)]
      <3>1. /\ Rest(u) \in SUBSET T /\ Rest(u) # T /\ Rest(u) \subseteq u
        BY <1>4, <2>3, FirstIsElement DEF Rest
      <3>4. IsFiniteSet(Rest(u))
        <4>1. Rest(u) \in SUBSET S
          BY <3>1
        <4>2. QED
          BY <4>1, FS_Subset
      <3>2. AddsUp(G[u], h, u) /\ AddsUp(G[Rest(u)], h, Rest(u))
        BY <1>3, <1>4, <3>1
      <3> HIDE DEF G
      <3>5. G[u][Rest(u)] = G[Rest(u)][Rest(u)]
        BY <3>1, <3>2, <3>4, SumOfPart
      <3>6. QED
        BY <3>5
    <2>4. QED
      BY <2>1, <2>2, <2>3
  <1>5. ASSUME NEW s \in SUBSET T, s # {}
        PROVE  Rest(s) \in SUBSET T /\ Rest(s) # T
    BY <1>5, FirstIsElement DEF Rest
  <1>6. sum = [s \in SUBSET T |-> IF s = {} THEN 0 ELSE h[First(s)] + sum[Rest(s)]]
    <2>1. \A s \in SUBSET T : s # {} => sum[Rest(s)] = G[Rest(s)][Rest(s)]
      BY <1>4, <1>5
    <2>2. sum = [s \in SUBSET T |->
                     IF s = {} THEN 0 ELSE h[First(s)] + G[Rest(s)][Rest(s)]]
      OBVIOUS
    <2> HIDE DEF sum, G
    <2>3. QED
      BY <2>1, <2>2
  <1>7. QED
    BY <1>2, <1>6 DEF AddsUp

\* Sums of integers are integers ...
LEMMA SumsAreIntegers ==
    ASSUME NEW S, IsFiniteSet(S), NEW g, NEW h, AddsUp(g, h, S), \A x \in S : h[x] \in Int
    PROVE  \A s \in SUBSET S : g[s] \in Int
  <1> DEFINE B == {s \in SUBSET S : g[s] \notin Int}
  <1>1. SUFFICES ASSUME B # {} PROVE FALSE
    OBVIOUS
  <1>2. B \in SUBSET SUBSET S
    OBVIOUS
  <1>3. PICK s \in B : \A u \in B : u \subseteq s => u = s
    <2> HIDE DEF B
    <2>1. QED
      BY <1>1, <1>2, LeastSubset
  <1>0. s \in SUBSET S
    OBVIOUS
  <1>4. g[s] = IF s = {} THEN 0 ELSE h[First(s)] + g[Rest(s)]
    <2> HIDE DEF B
    <2>1. QED
      BY <1>0, SumAt
  <1>5. s # {}
    BY <1>3, <1>4
  <1>6. First(s) \in S /\ Rest(s) \in SUBSET S /\ Rest(s) \subseteq s /\ Rest(s) # s
    BY <1>3, <1>5, FirstIsElement DEF Rest
  <1>7. g[Rest(s)] \in Int
    BY <1>3, <1>6
  <1>8. QED
    BY <1>3, <1>4, <1>5, <1>6, <1>7

\* ... and the order of the elements does not matter.
LEMMA SumInAnyOrder ==
    ASSUME NEW S, IsFiniteSet(S), NEW g, NEW h, AddsUp(g, h, S), \A x \in S : h[x] \in Int
    PROVE  \A s \in SUBSET S : \A x \in s : g[s] = h[x] + g[s \ {x}]
  <1> DEFINE B == {s \in SUBSET S : \E x \in s : g[s] # h[x] + g[s \ {x}]}
  <1>1. SUFFICES ASSUME B # {} PROVE FALSE
    OBVIOUS
  <1>2. B \in SUBSET SUBSET S
    OBVIOUS
  <1>3. PICK s \in B : \A u \in B : u \subseteq s => u = s
    <2> HIDE DEF B
    <2>1. QED
      BY <1>1, <1>2, LeastSubset
  <1>4. PICK y \in s : g[s] # h[y] + g[s \ {y}]
    OBVIOUS
  <1>5. PICK x : x = First(s)
    OBVIOUS
  <1>6. x \in s /\ g[s] = h[x] + g[s \ {x}]
    <2>1. s # {} /\ s \in SUBSET S
      BY <1>4
    <2>2. QED
      BY <1>5, <2>1, SumAt, FirstIsElement DEF Rest
  <1>7. x # y
    BY <1>4, <1>6
  <1>8. g[s \ {x}] = h[y] + g[(s \ {x}) \ {y}]
    BY <1>3, <1>6, <1>7
  <1>9. g[s \ {y}] = h[x] + g[(s \ {y}) \ {x}]
    BY <1>3, <1>4, <1>6, <1>7
  <1>10. PICK r : r = (s \ {x}) \ {y} /\ r = (s \ {y}) \ {x} /\ r \in SUBSET S
    OBVIOUS
  <1>11. h[x] \in Int /\ h[y] \in Int /\ g[r] \in Int
    BY <1>6, <1>10, SumsAreIntegers
  <1>12. g[s] = h[x] + (h[y] + g[r]) /\ g[s \ {y}] = h[x] + g[r]
    BY <1>6, <1>8, <1>9, <1>10
  <1>13. QED
    BY <1>4, <1>11, <1>12

-----------------------------------------------------------------------------
(* What the proofs need to know of SumFunction *)

LEMMA SumFunctionAddsUp ==
    ASSUME NEW D, IsFiniteSet(D), NEW f \in [D -> Int]
    PROVE  \E g : AddsUp(g, f, D) /\ SumFunction(f) = g[D]
  <1>1. DOMAIN f = D
    OBVIOUS
  <1>2. PICK g : AddsUp(g, f, D)
    BY SumExists
  <1>3. QED
    BY <1>1, <1>2, SumAddsUp

\* The sum of integers on a finite domain is an integer.
THEOREM SumType ==
    ASSUME NEW D, IsFiniteSet(D), NEW f \in [D -> Int]
    PROVE  SumFunction(f) \in Int
  <1>1. PICK g : AddsUp(g, f, D) /\ SumFunction(f) = g[D]
    BY SumFunctionAddsUp
  <1>2. D \in SUBSET D /\ \A x \in D : f[x] \in Int
    OBVIOUS
  <1>3. QED
    BY <1>1, <1>2, SumsAreIntegers

\* It is the value of any element and the sum of the others.
THEOREM SumTakenApart ==
    ASSUME NEW D, IsFiniteSet(D), NEW f \in [D -> Int], NEW d \in D,
           NEW e \in [D \ {d} -> Int], \A x \in D \ {d} : e[x] = f[x]
    PROVE  SumFunction(f) = f[d] + SumFunction(e)
  <1>1. PICK g : AddsUp(g, f, D) /\ SumFunction(f) = g[D]
    BY SumFunctionAddsUp
  <1> DEFINE R == D \ {d}
  <1>2. R \in SUBSET D /\ D \in SUBSET D /\ \A x \in D : f[x] \in Int
    OBVIOUS
  <1>3. IsFiniteSet(R)
    BY <1>2, FS_Subset
  <1>4. PICK i : AddsUp(i, e, R) /\ SumFunction(e) = i[R]
    BY <1>3, SumFunctionAddsUp
  <1>5. g[D] = f[d] + g[R]
    BY <1>1, <1>2, SumInAnyOrder
  <1> HIDE DEF R
  <1>6. R \subseteq D /\ R \subseteq R /\ R \in SUBSET R /\ \A x \in R : f[x] = e[x]
    BY <1>2 DEF R
  <1>7. \A u \in SUBSET R : g[u] = i[u]
    BY <1>1, <1>3, <1>4, <1>6, SameSum
  <1>8. QED
    BY <1>1, <1>4, <1>5, <1>6, <1>7

\* When one value changes, the sum changes by as much.
THEOREM SumOfOneChange ==
    ASSUME NEW D, IsFiniteSet(D), NEW f \in [D -> Int], NEW g \in [D -> Int], NEW d \in D,
           \A x \in D \ {d} : g[x] = f[x]
    PROVE  SumFunction(g) = SumFunction(f) + (g[d] - f[d])
  <1> DEFINE R == D \ {d}
  <1>1. PICK e : e = [x \in R |-> f[x]]
    OBVIOUS
  <1>2. e \in [R -> Int] /\ (\A x \in R : e[x] = f[x]) /\ (\A x \in R : e[x] = g[x])
    BY <1>1
  <1>3. IsFiniteSet(R) /\ f[d] \in Int /\ g[d] \in Int
    BY FS_Subset
  <1>4. SumFunction(f) = f[d] + SumFunction(e)
    BY <1>2, SumTakenApart
  <1>5. SumFunction(g) = g[d] + SumFunction(e)
    BY <1>2, SumTakenApart
  <1>6. SumFunction(e) \in Int
    BY <1>2, <1>3, SumType
  <1>7. QED
    BY <1>3, <1>4, <1>5, <1>6

\* What is 0 does not count: the sum over a part that contains all the rest.
THEOREM SumWithoutZeros ==
    ASSUME NEW D, IsFiniteSet(D), NEW f \in [D -> Int], NEW E \in SUBSET D,
           NEW e \in [E -> Int], \A x \in E : e[x] = f[x], \A x \in D \ E : f[x] = 0
    PROVE  SumFunction(e) = SumFunction(f)
  <1>1. PICK g : AddsUp(g, f, D) /\ SumFunction(f) = g[D]
    BY SumFunctionAddsUp
  <1>2. IsFiniteSet(E) /\ IsFiniteSet(D \ E)
    BY FS_Subset
  <1>3. PICK i : AddsUp(i, e, E) /\ SumFunction(e) = i[E]
    BY <1>2, SumFunctionAddsUp
  <1>4. E \subseteq D /\ E \subseteq E /\ E \in SUBSET E /\ \A x \in E : f[x] = e[x]
    OBVIOUS
  <1>5. \A u \in SUBSET E : g[u] = i[u]
    BY <1>1, <1>2, <1>3, <1>4, SameSum
  <1>6. \A x \in D : f[x] \in Int
    OBVIOUS
  <1> DEFINE B == {Z \in SUBSET (D \ E) : g[D \ Z] # g[D]}
  <1>7. ASSUME B # {}
        PROVE  FALSE
    <2>1. B \in SUBSET SUBSET (D \ E)
      OBVIOUS
    <2>2. PICK Z \in B : \A Y \in B : Y \subseteq Z => Y = Z
      <3> HIDE DEF B
      <3>1. QED
        BY <1>2, <1>7, <2>1, LeastSubset
    <2>3. D \ {} = D
      OBVIOUS
    <2>4. PICK z : z \in Z
      BY <2>2, <2>3
    <2>5. /\ Z \ {z} \in SUBSET (D \ E) /\ Z \ {z} # Z
          /\ z \in D \ (Z \ {z}) /\ D \ (Z \ {z}) \in SUBSET D
          /\ (D \ (Z \ {z})) \ {z} = D \ Z
          /\ f[z] = 0
      BY <2>4
    <2>6. g[D \ (Z \ {z})] = g[D]
      BY <2>2, <2>5
    <2>7. g[D \ (Z \ {z})] = f[z] + g[D \ Z]
      BY <1>1, <1>6, <2>5, SumInAnyOrder
    <2>8. g[D \ Z] \in Int
      BY <1>1, <1>6, SumsAreIntegers
    <2>9. QED
      BY <2>2, <2>5, <2>6, <2>7, <2>8
  <1>8. D \ (D \ E) = E
    OBVIOUS
  <1>9. g[E] = g[D]
    <2>1. D \ E \notin B
      BY <1>7
    <2>2. D \ E \in SUBSET (D \ E)
      OBVIOUS
    <2>3. g[D \ (D \ E)] = g[D]
      BY <2>1, <2>2
    <2>4. QED
      BY <1>8, <2>3
  <1>10. QED
    BY <1>1, <1>3, <1>4, <1>5, <1>9

\* The sum of nothing but zeros is 0.
THEOREM SumOfZeros ==
    ASSUME NEW D, IsFiniteSet(D), NEW f \in [D -> Int], \A x \in D : f[x] = 0
    PROVE  SumFunction(f) = 0
  <1>1. PICK E, e : E = {} /\ e = [x \in E |-> 0]
    OBVIOUS
  <1>2. /\ E \in SUBSET D /\ e \in [E -> Int]
        /\ \A x \in E : e[x] = f[x]
        /\ \A x \in D \ E : f[x] = 0
    BY <1>1
  <1>3. SumFunction(e) = SumFunction(f)
    BY <1>2, SumWithoutZeros
  <1>4. IsFiniteSet(E)
    BY <1>1, FS_EmptySet
  <1>5. PICK g : AddsUp(g, e, E) /\ SumFunction(e) = g[E]
    BY <1>2, <1>4, SumFunctionAddsUp
  <1>6. g[E] = 0
    BY <1>1, <1>5, SumAt
  <1>7. QED
    BY <1>3, <1>5, <1>6
===============================================================================
