--------------------------- MODULE Naturais_proofs ---------------------------
(* Induction and recursion for the proofs about data: the theorems of the     *)
(* library that take an operator cannot be cited, so a property is the set of *)
(* those that have it, and a recursive definition a function G that takes x   *)
(* and the values before it to the value at x.                                *)
EXTENDS Integers, FiniteSetTheorems, TLAPS

-----------------------------------------------------------------------------
(* Numbers, recursion and finite sets *)

LEMMA MenorNatural ==
    ASSUME NEW T \in SUBSET Nat, T # {}
    PROVE  \E m \in T : \A n \in T : m <= n
<1>1. OpToRel(<, Nat) = {p \in Nat \X Nat : p[1] < p[2]}
  BY DEF OpToRel
<1>2. PICK R : R = {p \in Nat \X Nat : p[1] < p[2]} /\ IsWellFoundedOn(R, Nat)
  BY <1>1, NatLessThanWellFounded
<1>3. \A n, m \in Nat : <<n, m>> \in R <=> n < m
  BY <1>2
<1>4. PICK m \in T : \A n \in T : ~(<<n, m>> \in R)
  BY <1>2, WFMin
<1>5. ASSUME NEW n \in T PROVE m <= n
  <2>1. n \in Nat /\ m \in Nat
    OBVIOUS
  <2>2. ~(n < m)
    BY <1>3, <1>4, <2>1, Zenon
  <2> QED
    BY <2>1, <2>2
<1> QED
  BY <1>5

LEMMA MaiorNatural ==
    ASSUME NEW T \in SUBSET Nat, T # {}, NEW b \in Nat, \A n \in T : n <= b
    PROVE  \E m \in T : \A n \in T : n <= m
<1> DEFINE U == {b - n : n \in T}
<1>1. U \in SUBSET Nat /\ U # {}
  <2>1. \A n \in T : b - n \in Nat
    OBVIOUS
  <2> QED
    BY <2>1
<1>2. PICK u \in U : \A n \in U : u <= n
  BY <1>1, MenorNatural
<1>3. PICK m \in T : u = b - m
  OBVIOUS
<1>4. ASSUME NEW n \in T PROVE n <= m
  <2>1. u <= b - n
    BY <1>2
  <2> QED
    BY <2>1, <1>3
<1> QED
  BY <1>4

\* Elements of which a number is least, or greatest.
LEMMA ArgMenor ==
    ASSUME NEW P, P # {}, NEW f \in [P -> Nat]
    PROVE  \E p \in P : \A o \in P : f[p] <= f[o]
<1> DEFINE T == {f[p] : p \in P}
<1>1. T \in SUBSET Nat /\ T # {}
  OBVIOUS
<1>2. PICK m \in T : \A n \in T : m <= n
  BY <1>1, MenorNatural
<1>3. PICK p \in P : m = f[p]
  OBVIOUS
<1> QED
  BY <1>2, <1>3

LEMMA ArgMaior ==
    ASSUME NEW P, P # {}, NEW f \in [P -> Nat], NEW b \in Nat, \A o \in P : f[o] <= b
    PROVE  \E p \in P : \A o \in P : f[o] <= f[p]
<1> DEFINE T == {f[p] : p \in P}
<1>1. T \in SUBSET Nat /\ T # {} /\ \A n \in T : n <= b
  OBVIOUS
<1>2. PICK m \in T : \A n \in T : n <= m
  BY <1>1, MaiorNatural
<1>3. PICK p \in P : m = f[p]
  OBVIOUS
<1> QED
  BY <1>2, <1>3

\* Induction over the naturals, for the set of those of which something holds.
LEMMA InducaoNatural ==
    ASSUME NEW T \in SUBSET Nat, 0 \in T, \A n \in T : n + 1 \in T
    PROVE  T = Nat
<1> SUFFICES ASSUME Nat \ T # {} PROVE FALSE
  OBVIOUS
<1>1. PICK m \in Nat \ T : \A n \in Nat \ T : m <= n
  BY MenorNatural, Nat \ T \in SUBSET Nat
<1>2. m # 0 /\ m - 1 \in Nat
  OBVIOUS
<1>3. m - 1 \in T
  BY <1>1, <1>2
<1> QED
  BY <1>2, <1>3

\* A function over 0 .. N defined from its value before exists.
Recorre(f, N, V, a, G) ==
    f \in [0 .. N -> V] /\ f[0] = a /\ \A n \in 1 .. N : f[n] = G[n][f[n - 1]]

LEMMA RecursaoFinita ==
    ASSUME NEW N, N \in Nat, NEW V, NEW a, a \in V, NEW G, G \in [1 .. N -> [V -> V]]
    PROVE  \E f : Recorre(f, N, V, a, G)
<1> DEFINE Passo(f, k) == f = [n \in 0 .. k |-> IF n = 0 THEN a ELSE G[n][f[n - 1]]]
           T == {k \in Nat : k <= N => \E f \in [0 .. k -> V] : Passo(f, k)}
<1>1. 0 \in T
  <2> DEFINE f == [n \in 0 .. 0 |-> a]
  <2>1. f \in [0 .. 0 -> V] /\ Passo(f, 0)
    OBVIOUS
  <2> QED
    BY <2>1
<1>2. ASSUME NEW k \in T PROVE k + 1 \in T
  <2> SUFFICES ASSUME k + 1 <= N PROVE \E f \in [0 .. k + 1 -> V] : Passo(f, k + 1)
    <3>1. k + 1 \in Nat
      OBVIOUS
    <3> QED
      BY <3>1
  <2>1. PICK g \in [0 .. k -> V] : Passo(g, k)
    OBVIOUS
  <2> DEFINE f == [n \in 0 .. k + 1 |-> IF n = k + 1 THEN G[k + 1][g[k]] ELSE g[n]]
  <2>2. k \in Nat /\ k + 1 \in 1 .. N /\ G[k + 1] \in [V -> V] /\ g[k] \in V
    OBVIOUS
  <2>3. f \in [0 .. k + 1 -> V]
    BY <2>2
  <2>4. ASSUME NEW n \in 0 .. k + 1
        PROVE  f[n] = IF n = 0 THEN a ELSE G[n][f[n - 1]]
    <3>1. CASE n = k + 1
      BY <3>1, <2>2
    <3>2. CASE n # k + 1
      <4>1. n \in 0 .. k /\ (n # 0 => n - 1 \in 0 .. k /\ n - 1 \in 0 .. k + 1 /\ n - 1 # k + 1)
        BY <3>2, <2>2
      <4>2. g[n] = IF n = 0 THEN a ELSE G[n][g[n - 1]]
        BY <2>1, <4>1
      <4>3. f[n] = g[n] /\ (n # 0 => f[n - 1] = g[n - 1])
        BY <4>1, <3>2
      <4> QED
        BY <4>2, <4>3
    <3> QED
      BY <3>1, <3>2
  <2>5. Passo(f, k + 1)
    <3> HIDE DEF f
    <3> QED
      BY <2>3, <2>4
  <2> QED
    BY <2>3, <2>5
<1>3. T = Nat
  <2> HIDE DEF T
  <2>1. T \in SUBSET Nat
    BY DEF T
  <2> QED
    BY <1>1, <1>2, <2>1, InducaoNatural
<1>4. PICK f \in [0 .. N -> V] : Passo(f, N)
  BY <1>3
<1>5. \A n \in 1 .. N : n \in 0 .. N /\ n # 0
  OBVIOUS
<1>6. \A n \in 0 .. N : f[n] = IF n = 0 THEN a ELSE G[n][f[n - 1]]
  BY <1>4
<1>7. f[0] = a /\ \A n \in 1 .. N : f[n] = G[n][f[n - 1]]
  BY <1>5, <1>6
<1> QED
  BY <1>7 DEF Recorre

-----------------------------------------------------------------------------
(* Recursion along a rank *)

\* A set that has every element whose predecessors, in the rank r, it has, has all.
LEMMA InducaoPorPosto ==
    ASSUME NEW S, NEW r \in [S -> Nat], NEW P \in SUBSET S,
           \A x \in S : (\A y \in S : r[y] < r[x] => y \in P) => x \in P
    PROVE  P = S
<1> SUFFICES ASSUME S \ P # {} PROVE FALSE
  OBVIOUS
<1> DEFINE T == {r[x] : x \in S \ P}
<1>1. T \in SUBSET Nat /\ T # {}
  OBVIOUS
<1>2. PICK m \in T : \A n \in T : m <= n
  BY <1>1, MenorNatural
<1>3. PICK x \in S \ P : m = r[x]
  OBVIOUS
<1>4. ASSUME NEW y \in S, r[y] < r[x] PROVE y \in P
  <2> SUFFICES ASSUME y \notin P PROVE FALSE
    OBVIOUS
  <2>1. m <= r[y] /\ r[y] \in Nat /\ r[x] \in Nat
    BY <1>2
  <2> QED
    BY <1>3, <1>4, <2>1
<1> QED
  BY <1>3, <1>4

\* Functions whose value at x is in V[x].
Tipadas(S, V) == {f \in [S -> UNION {V[x] : x \in S}] : \A x \in S : f[x] \in V[x]}

\* G takes x and what f is before x, in the rank r, to a value of V[x], and looks at
\* nothing else of f.
Gera(S, V, r, G) ==
    /\ r \in [S -> Nat] /\ \A x \in S : V[x] # {}
    /\ G \in [S -> [Tipadas(S, V) -> UNION {V[x] : x \in S}]]
    /\ \A x \in S, f \in Tipadas(S, V) : G[x][f] \in V[x]
    /\ \A x \in S, f, g \in Tipadas(S, V) :
          (\A y \in S : r[y] < r[x] => f[y] = g[y]) => G[x][f] = G[x][g]

\* f satisfies the equation below n.
Ate(S, V, r, G, n, f) == f \in Tipadas(S, V) /\ \A x \in S : r[x] < n => f[x] = G[x][f]

\* Two solutions agree where both are.
LEMMA AteUnica ==
    ASSUME NEW S, NEW V, NEW r, NEW G, Gera(S, V, r, G),
           NEW n \in Nat, NEW m \in Nat, NEW f, NEW g, Ate(S, V, r, G, n, f), Ate(S, V, r, G, m, g),
           NEW x \in S, r[x] < n, r[x] < m
    PROVE  f[x] = g[x]
<1>0. r \in [S -> Nat]
  BY DEF Gera
<1> DEFINE P == {y \in S : r[y] < n /\ r[y] < m => f[y] = g[y]}
<1>1. ASSUME NEW y \in S, \A z \in S : r[z] < r[y] => z \in P PROVE y \in P
  <2> SUFFICES ASSUME r[y] < n, r[y] < m PROVE f[y] = g[y]
    OBVIOUS
  <2>1. \A z \in S : r[z] < r[y] => f[z] = g[z]
    <3> SUFFICES ASSUME NEW z \in S, r[z] < r[y] PROVE f[z] = g[z]
      OBVIOUS
    <3>1. r[z] \in Nat /\ r[y] \in Nat
      BY <1>0
    <3>2. r[z] < n /\ r[z] < m
      BY <3>1
    <3> QED
      BY <1>1, <3>2
  <2>2. f \in Tipadas(S, V) /\ g \in Tipadas(S, V) /\ f[y] = G[y][f] /\ g[y] = G[y][g]
    BY DEF Ate
  <2> QED
    BY <2>1, <2>2 DEF Gera
<1>2. P \in SUBSET S
  OBVIOUS
<1>3. P = S
  <2> HIDE DEF P
  <2> QED
    BY <1>0, <1>1, <1>2, InducaoPorPosto
<1> QED
  BY <1>3

LEMMA AteExiste ==
    ASSUME NEW S, NEW V, NEW r, NEW G, Gera(S, V, r, G)
    PROVE  \A n \in Nat : \E f : Ate(S, V, r, G, n, f)
<1>0. r \in [S -> Nat] /\ \A x \in S : V[x] # {}
  BY DEF Gera
<1> DEFINE T == {n \in Nat : \E f : Ate(S, V, r, G, n, f)}
<1>1. 0 \in T
  <2> DEFINE f == [x \in S |-> CHOOSE v \in V[x] : TRUE]
  <2>1. f \in Tipadas(S, V)
    BY <1>0 DEF Tipadas
  <2>2. Ate(S, V, r, G, 0, f)
    <3>1. \A x \in S : ~(r[x] < 0)
      BY <1>0
    <3> HIDE DEF f
    <3> QED
      BY <2>1, <3>1 DEF Ate
  <2> QED
    BY <2>2
<1>2. ASSUME NEW n \in T PROVE n + 1 \in T
  <2>1. PICK f : Ate(S, V, r, G, n, f)
    OBVIOUS
  <2>2. f \in Tipadas(S, V)
    BY <2>1 DEF Ate
  <2> DEFINE g == [x \in S |-> G[x][f]]
  <2>3. \A x \in S : G[x][f] \in V[x]
    BY <2>2 DEF Gera
  <2>4. g \in Tipadas(S, V) /\ \A x \in S : g[x] = G[x][f]
    BY <2>3 DEF Tipadas
  <2> HIDE DEF g
  <2>5. \A x \in S : r[x] < n => g[x] = f[x]
    BY <2>1, <2>4 DEF Ate
  <2>6. ASSUME NEW x \in S, r[x] < n + 1 PROVE g[x] = G[x][g]
    <3>1. \A y \in S : r[y] < r[x] => f[y] = g[y]
      <4> SUFFICES ASSUME NEW y \in S, r[y] < r[x] PROVE f[y] = g[y]
        OBVIOUS
      <4>1. r[y] \in Nat /\ r[x] \in Nat /\ n \in Nat
        BY <1>0
      <4>2. r[y] < n
        BY <2>6, <4>1
      <4> QED
        BY <2>5, <4>2
    <3>2. G[x][f] = G[x][g]
      BY <2>2, <2>4, <3>1 DEF Gera
    <3> QED
      BY <2>4, <3>2
  <2>7. Ate(S, V, r, G, n + 1, g)
    BY <2>4, <2>6 DEF Ate
  <2>8. n + 1 \in Nat
    OBVIOUS
  <2> QED
    BY <2>7, <2>8
<1>3. T \in SUBSET Nat
  OBVIOUS
<1>4. T = Nat
  <2> HIDE DEF T
  <2> QED
    BY <1>1, <1>2, <1>3, InducaoNatural
<1> QED
  BY <1>4

\* A function defined from its values at elements of lower rank exists.
LEMMA RecursaoPorPosto ==
    ASSUME NEW S, NEW V, NEW r, NEW G, Gera(S, V, r, G)
    PROVE  \E f \in Tipadas(S, V) : \A x \in S : f[x] = G[x][f]
<1> DEFINE h(n) == CHOOSE f : Ate(S, V, r, G, n, f)
           F == [x \in S |-> h(r[x] + 1)[x]]
<1>1. \A n \in Nat : Ate(S, V, r, G, n, h(n))
  BY AteExiste
<1> HIDE DEF h
<1>2. ASSUME NEW x \in S PROVE r[x] \in Nat /\ r[x] + 1 \in Nat /\ r[x] < r[x] + 1
  BY DEF Gera
<1>3. \A x \in S : h(r[x] + 1) \in Tipadas(S, V) /\ F[x] = h(r[x] + 1)[x]
  BY <1>1, <1>2 DEF Ate
<1>4. F \in Tipadas(S, V)
  <2>1. \A x \in S : F[x] \in V[x]
    <3> HIDE DEF F
    <3> QED
      BY <1>3 DEF Tipadas
  <2>2. F = [x \in S |-> F[x]]
    OBVIOUS
  <2> HIDE DEF F
  <2> QED
    BY <2>1, <2>2 DEF Tipadas
<1> HIDE DEF F
<1>5. ASSUME NEW x \in S PROVE F[x] = G[x][F]
  <2> DEFINE f == h(r[x] + 1)
  <2>1. Ate(S, V, r, G, r[x] + 1, f)
    BY <1>1, <1>2
  <2>2. ASSUME NEW y \in S, r[y] < r[x] PROVE f[y] = F[y]
    <3>1. r[y] < r[x] + 1 /\ r[y] < r[y] + 1 /\ r[y] + 1 \in Nat /\ r[x] + 1 \in Nat
      BY <1>2, <2>2
    <3>2. Ate(S, V, r, G, r[y] + 1, h(r[y] + 1))
      BY <1>1, <3>1
    <3> HIDE DEF f
    <3>3. f[y] = h(r[y] + 1)[y]
      BY <2>1, <3>1, <3>2, AteUnica
    <3> QED
      BY <1>3, <3>3
  <2>3. f[x] = G[x][f] /\ f \in Tipadas(S, V)
    BY <1>2, <2>1 DEF Ate
  <2>4. F[x] = f[x]
    BY <1>3
  <2> HIDE DEF f
  <2>5. G[x][f] = G[x][F]
    BY <1>4, <2>2, <2>3 DEF Gera
  <2> QED
    BY <2>3, <2>4, <2>5
<1> QED
  BY <1>4, <1>5

=============================================================================
