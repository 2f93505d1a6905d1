------------------------- MODULE Distribuicao_proofs -------------------------
(* What the arithmetic of a plan computes, for every fleet and every set of  *)
(* passengers: the order of Ordenar, the best plan, the vehicles chosen for  *)
(* it, and who rides in which.  Induction over numbers is stated with sets   *)
(* (InducaoNatural), from the theorem that a set of naturals has a least     *)
(* element; recursive functions exist by RecursaoFinita.                     *)
EXTENDS Distribuicao, Naturais_proofs

-----------------------------------------------------------------------------
(* Ordenar *)

\* A[x] are the elements of S before x.
OrdemEstrita(S, A) ==
    /\ A \in [S -> SUBSET S]
    /\ \A x \in S : x \notin A[x]
    /\ \A x, y \in S : x = y \/ x \in A[y] \/ y \in A[x]
    /\ \A x, y \in S : x \in A[y] => A[x] \subseteq A[y]

\* s has every element of S, once.
Enumera(s, S) ==
    /\ s \in Seq(S) /\ Len(s) = Cardinality(S)
    /\ \A i, j \in 1 .. Len(s) : s[i] = s[j] => i = j
    /\ \A x \in S : \E i \in 1 .. Len(s) : s[i] = x

\* The numbers of elements before them tell the elements apart, and are all
\* those from 0 on.
LEMMA Postos ==
    ASSUME NEW S, IsFiniteSet(S), NEW A, OrdemEstrita(S, A)
    PROVE  /\ Cardinality(S) \in Nat
           /\ \A x \in S : Cardinality(A[x]) \in 0 .. Cardinality(S) - 1
           /\ \A x, y \in S : x \in A[y] => Cardinality(A[x]) < Cardinality(A[y])
           /\ \A x, y \in S : Cardinality(A[x]) = Cardinality(A[y]) => x = y
           /\ \A i \in 0 .. Cardinality(S) - 1 : \E x \in S : Cardinality(A[x]) = i
<1> DEFINE n == Cardinality(S)
<1>1. n \in Nat
  BY FS_CardinalityType
<1>2. ASSUME NEW x \in S
      PROVE  IsFiniteSet(A[x]) /\ Cardinality(A[x]) \in 0 .. n - 1
  <2>1. A[x] \in SUBSET S /\ A[x] # S
    BY DEF OrdemEstrita
  <2>2. IsFiniteSet(A[x]) /\ Cardinality(A[x]) <= n /\ n # Cardinality(A[x])
    BY <2>1, FS_Subset
  <2>3. Cardinality(A[x]) \in Nat
    BY <2>2, FS_CardinalityType
  <2> QED
    BY <1>1, <2>2, <2>3
<1>3. ASSUME NEW x \in S, NEW y \in S, x \in A[y]
      PROVE  Cardinality(A[x]) < Cardinality(A[y])
  <2>1. A[x] \in SUBSET A[y] /\ A[y] # A[x]
    BY <1>3 DEF OrdemEstrita
  <2>2. Cardinality(A[x]) <= Cardinality(A[y]) /\ Cardinality(A[y]) # Cardinality(A[x])
    BY <2>1, <1>2, FS_Subset
  <2>3. Cardinality(A[x]) \in Int /\ Cardinality(A[y]) \in Int
    BY <1>2
  <2> QED
    BY <2>2, <2>3
<1>4. ASSUME NEW x \in S, NEW y \in S, Cardinality(A[x]) = Cardinality(A[y])
      PROVE  x = y
  <2>1. Cardinality(A[x]) \in Int /\ Cardinality(A[y]) \in Int
    BY <1>2
  <2>2. x \notin A[y] /\ y \notin A[x]
    BY <1>3, <1>4, <2>1
  <2> QED
    BY <2>2 DEF OrdemEstrita
<1>5. ASSUME NEW i \in 0 .. n - 1
      PROVE  \E x \in S : Cardinality(A[x]) = i
  <2> DEFINE f == [x \in S |-> Cardinality(A[x])]
             T == 0 .. n - 1
  <2>1. f \in Injection(S, T)
    <3>1. f \in [S -> T]
      BY <1>2
    <3>2. \A x, y \in S : f[x] = f[y] => x = y
      BY <1>4
    <3> QED
      BY <3>1, <3>2 DEF Injection, IsInjective
  <2>2. IsFiniteSet(T) /\ Cardinality(T) = n
    BY <1>1, FS_Interval
  <2>3. f \in Surjection(S, T)
    BY <2>1, <2>2, FS_Injection
  <2> QED
    BY <2>3 DEF Surjection
<1> QED
  BY <1>1, <1>2, <1>3, <1>4, <1>5

LEMMA SequenciaDosPostos ==
    ASSUME NEW S, IsFiniteSet(S), NEW A, OrdemEstrita(S, A),
           NEW s, s = [i \in 1 .. Cardinality(S) |-> s[i]],
           \A i \in 1 .. Cardinality(S) : s[i] \in S /\ Cardinality(A[s[i]]) = i - 1
    PROVE  /\ Enumera(s, S)
           /\ \A i, j \in 1 .. Len(s) : i < j => s[i] \in A[s[j]]
<1> DEFINE n == Cardinality(S)
<1>1. n \in Nat
  BY Postos
<1>2. \A i \in 1 .. n : s[i] \in S /\ Cardinality(A[s[i]]) = i - 1
  OBVIOUS
<1>3. s \in Seq(S) /\ Len(s) = n
  BY <1>1, <1>2
<1>4. \A i, j \in 1 .. n : s[i] = s[j] => i = j
  BY <1>1, <1>2
<1>5. ASSUME NEW x \in S PROVE \E i \in 1 .. n : s[i] = x
  <2>1. Cardinality(A[x]) \in 0 .. n - 1
    BY Postos
  <2>2. Cardinality(A[x]) + 1 \in 1 .. n /\ (Cardinality(A[x]) + 1) - 1 = Cardinality(A[x])
    BY <1>1, <2>1
  <2>3. Cardinality(A[s[Cardinality(A[x]) + 1]]) = Cardinality(A[x])
    BY <1>2, <2>2
  <2>4. s[Cardinality(A[x]) + 1] = x
    BY <1>2, <2>2, <2>3, Postos
  <2> QED
    BY <2>2, <2>4
<1>6. ASSUME NEW i \in 1 .. n, NEW j \in 1 .. n, i < j PROVE s[i] \in A[s[j]]
  <2>1. s[i] # s[j]
    BY <1>1, <1>4, <1>6
  <2>2. s[j] \notin A[s[i]]
    <3>1. s[j] \in A[s[i]] => Cardinality(A[s[j]]) < Cardinality(A[s[i]])
      BY <1>2, Postos
    <3>2. Cardinality(A[s[i]]) = i - 1 /\ Cardinality(A[s[j]]) = j - 1
      BY <1>2
    <3> QED
      BY <1>1, <1>6, <3>1, <3>2
  <2> QED
    BY <1>2, <2>1, <2>2 DEF OrdemEstrita
<1> QED
  BY <1>3, <1>4, <1>5, <1>6 DEF Enumera

\* Ordenar of numbers by <.
LEMMA PorIdEnumera ==
    ASSUME NEW S, IsFiniteSet(S), \A x \in S : x \in Nat
    PROVE  Enumera(PorId(S), S)
<1> DEFINE A == [x \in S |-> {y \in S : y < x}]
           n == Cardinality(S)
<1>1. A \in [S -> SUBSET S] /\ \A x, y \in S : y \in A[x] <=> y < x
  OBVIOUS
<1>2. \A x \in S : Cardinality(A[x]) = Cardinality({y \in S : y < x})
  OBVIOUS
<1>3. PorId(S) = [i \in 1 .. n |-> CHOOSE x \in S : Cardinality({y \in S : y < x}) = i - 1]
  BY DEF PorId, Ordenar
<1> HIDE DEF A
<1>4. OrdemEstrita(S, A)
  <2>1. \A x \in S : x \in Nat
    OBVIOUS
  <2>2. \A x \in S : x \notin A[x]
    BY <1>1, <2>1
  <2>3. ASSUME NEW x \in S, NEW y \in S PROVE x = y \/ x \in A[y] \/ y \in A[x]
    <3>1. x = y \/ x < y \/ y < x
      BY <2>1
    <3> QED
      BY <1>1, <3>1
  <2>4. ASSUME NEW x \in S, NEW y \in S, x \in A[y], NEW z \in A[x] PROVE z \in A[y]
    <3>1. z \in S /\ z < x /\ x < y
      BY <1>1, <2>4
    <3>2. z < y
      BY <2>1, <3>1
    <3> QED
      BY <1>1, <3>1, <3>2
  <2> QED
    BY <1>1, <2>2, <2>3, <2>4 DEF OrdemEstrita
<1>5. ASSUME NEW i \in 1 .. n PROVE PorId(S)[i] \in S /\ Cardinality(A[PorId(S)[i]]) = i - 1
  <2>1. i - 1 \in 0 .. n - 1
    <3>1. n \in Nat
      BY FS_CardinalityType
    <3> QED
      BY <3>1
  <2>2. PICK x \in S : Cardinality(A[x]) = i - 1
    <3>1. \A j \in 0 .. n - 1 : \E x \in S : Cardinality(A[x]) = j
      BY <1>4, Postos
    <3> QED
      BY <2>1, <3>1
  <2>3. Cardinality({y \in S : y < x}) = i - 1
    BY <1>2, <2>2
  <2>4. PorId(S)[i] \in S /\ Cardinality({y \in S : y < PorId(S)[i]}) = i - 1
    BY <1>3, <2>3
  <2> QED
    BY <1>2, <2>4
<1>6. PorId(S) = [i \in 1 .. n |-> PorId(S)[i]]
  BY <1>3
<1> QED
  BY <1>4, <1>5, <1>6, SequenciaDosPostos

-----------------------------------------------------------------------------
(* Categories for a number of passengers *)

Categorias(l) == l \in [Categoria -> Nat \ {0}]

LEMMA DivisaoPorFalta ==
    ASSUME NEW q \in Nat, NEW b \in Nat \ {0}
    PROVE  q \div b \in Nat /\ (q \div b + 1) * b >= q
  OBVIOUS

LEMMA TipoDosPlanos ==
    ASSUME NEW l, Categorias(l), NEW q \in Nat, NEW p \in Planos(l, q)
    PROVE  /\ p \in [executivo : Nat, escolar : Nat, carro : Nat]
           /\ l.executivo \in Nat /\ l.escolar \in Nat /\ l.carro \in Nat
           /\ Veiculos(p) \in Nat /\ Veiculos(p) > 0 /\ Assentos(l, p) \in Nat /\ Assentos(l, p) >= q
  BY DivisaoPorFalta DEF Planos, Categorias, Categoria, Veiculos, Assentos

LEMMA HaPlano ==
    ASSUME NEW l, Categorias(l), NEW q \in Nat
    PROVE  Planos(l, q) # {}
<1> DEFINE n == q \div l.executivo
           p == [executivo |-> n + 1, escolar |-> 0, carro |-> 0]
<1>1. l.executivo \in Nat \ {0} /\ l.escolar \in Nat \ {0} /\ l.carro \in Nat \ {0}
  BY DEF Categorias, Categoria
<1>2. n \in Nat /\ (n + 1) * l.executivo >= q
  BY <1>1, DivisaoPorFalta
<1>3. q \div l.escolar \in Nat /\ q \div l.carro \in Nat
  BY <1>1, DivisaoPorFalta
<1>4. Veiculos(p) > 0
  BY <1>2 DEF Veiculos
<1>5. Assentos(l, p) >= q
  BY <1>1, <1>2 DEF Assentos
<1>6. p \in [executivo : 0 .. n + 2, escolar : 0 .. (q \div l.escolar) + 2,
              carro : 0 .. (q \div l.carro) + 2]
  BY <1>2, <1>3
<1> QED
  BY <1>4, <1>5, <1>6 DEF Planos

LEMMA MenosVeiculos ==
    ASSUME NEW l, Categorias(l), NEW q \in Nat
    PROVE  /\ ComMenosVeiculos(l, q) # {} /\ ComMenosVeiculos(l, q) \subseteq Planos(l, q)
           /\ \A p \in ComMenosVeiculos(l, q), o \in Planos(l, q) : Veiculos(p) <= Veiculos(o)
           /\ \A p, o \in ComMenosVeiculos(l, q) : Veiculos(p) = Veiculos(o)
<1> DEFINE P == Planos(l, q)
           T == {Veiculos(o) : o \in P}
<1>1. T \in SUBSET Nat /\ T # {}
  BY HaPlano, TipoDosPlanos
<1>2. \E m \in T : \A n \in T : m <= n
  <2> HIDE DEF T
  <2> QED
    BY <1>1, MenorNatural
<1>3. Min(T) \in T /\ \A n \in T : Min(T) <= n
  <2> HIDE DEF T
  <2> QED
    BY <1>2 DEF Min
<1>4. ComMenosVeiculos(l, q) = {p \in P : Veiculos(p) = Min(T)}
  BY DEF ComMenosVeiculos
<1>5. PICK p \in P : Veiculos(p) = Min(T)
  BY <1>3
<1>6. \A o \in P : Min(T) <= Veiculos(o)
  BY <1>3
<1> HIDE DEF T, P
<1>7. ComMenosVeiculos(l, q) # {} /\ ComMenosVeiculos(l, q) \subseteq P
  BY <1>4, <1>5
<1>8. \A o \in ComMenosVeiculos(l, q) : Veiculos(o) = Min(T)
  BY <1>4
<1> QED
  BY <1>6, <1>7, <1>8 DEF P

\* One plan is better than every other with as few vehicles.
LEMMA MelhorExiste ==
    ASSUME NEW l, Categorias(l), NEW q \in Nat
    PROVE  \E p \in ComMenosVeiculos(l, q) :
               \A o \in ComMenosVeiculos(l, q) \ {p} : Melhor(l, q, p, o)
<1> DEFINE P1 == ComMenosVeiculos(l, q)
           C  == {p \in P1 : p.executivo > 0}
           P2 == IF q > l.escolar /\ C # {} THEN C ELSE P1
<1>1. P1 # {} /\ \A p, o \in P1 : Veiculos(p) = Veiculos(o)
  BY MenosVeiculos
<1>2. \A p \in P1 : /\ p \in [executivo : Nat, escolar : Nat, carro : Nat]
                     /\ Veiculos(p) \in Nat /\ Assentos(l, p) \in Nat
  BY MenosVeiculos, TipoDosPlanos
<1>3. l.escolar \in Nat
  BY DEF Categorias, Categoria
<1> HIDE DEF P1
<1>4. P2 \subseteq P1 /\ P2 # {}
  BY <1>1
<1>5. \A p, o \in P2 : ~(q > l.escolar /\ (p.executivo > 0) # (o.executivo > 0))
  BY <1>3
<1>6. \A p \in P2, o \in P1 \ P2 : q > l.escolar /\ p.executivo > 0 /\ ~(o.executivo > 0)
  BY <1>3
<1> HIDE DEF P2
<1> DEFINE A == [p \in P2 |-> Assentos(l, p)]
<1>7. PICK a \in P2 : \A o \in P2 : Assentos(l, a) <= Assentos(l, o)
  <2>1. A \in [P2 -> Nat]
    BY <1>2, <1>4
  <2>2. PICK a \in P2 : \A o \in P2 : A[a] <= A[o]
    <3> HIDE DEF A
    <3> QED
      BY <2>1, <1>4, ArgMenor
  <2> QED
    BY <2>2
<1> DEFINE P3 == {p \in P2 : Assentos(l, p) = Assentos(l, a)}
           n == Veiculos(a)
<1>8. P3 # {} /\ P3 \subseteq P1 /\ n \in Nat
  BY <1>2, <1>4, <1>7
<1>9. \A p \in P1 : p.executivo <= n /\ p.escolar <= n /\ p.executivo \in Nat /\ p.escolar \in Nat
  <2> TAKE p \in P1
  <2>1. Veiculos(p) = n
    BY <1>1, <1>4, <1>7
  <2> QED
    BY <1>2, <2>1 DEF Veiculos
<1> HIDE DEF n
<1> DEFINE E == [p \in P3 |-> p.executivo]
<1>10. PICK e \in P3 : \A o \in P3 : o.executivo <= e.executivo
  <2>1. E \in [P3 -> Nat] /\ \A o \in P3 : E[o] <= n
    BY <1>8, <1>9
  <2>2. PICK e \in P3 : \A o \in P3 : E[o] <= E[e]
    <3> HIDE DEF E, P3
    <3> QED
      BY <2>1, <1>8, ArgMaior
  <2> QED
    BY <2>2
<1> DEFINE P4 == {p \in P3 : p.executivo = e.executivo}
           S == [p \in P4 |-> p.escolar]
<1>11. PICK m \in P4 : \A o \in P4 : o.escolar <= m.escolar
  <2>1. P4 # {} /\ S \in [P4 -> Nat] /\ \A o \in P4 : S[o] <= n
    BY <1>8, <1>9, <1>10
  <2>2. PICK m \in P4 : \A o \in P4 : S[o] <= S[m]
    <3> HIDE DEF S, P4
    <3> QED
      BY <2>1, <1>8, ArgMaior
  <2> QED
    BY <2>2
<1>12. m \in P1 /\ m \in P2 /\ m \in P3
  BY <1>4
<1>13. ASSUME NEW o \in P1, o # m PROVE Melhor(l, q, m, o)
  <2>1. CASE o \notin P2
    BY <2>1, <1>6, <1>12, <1>3 DEF Melhor
  <2>2. CASE o \in P2 /\ o \notin P3
    <3>1. Assentos(l, m) < Assentos(l, o)
      BY <2>2, <1>2, <1>4, <1>7, <1>12
    <3>2. ~(q > l.escolar /\ (m.executivo > 0) # (o.executivo > 0))
      BY <1>5, <1>12, <2>2
    <3>3. Assentos(l, m) # Assentos(l, o)
      BY <3>1, <1>2, <1>12
    <3> QED
      BY <3>1, <3>2, <3>3 DEF Melhor
  <2>3. CASE o \in P3
    <3>1. Assentos(l, m) = Assentos(l, o) /\ o \in P2
      BY <2>3, <1>12
    <3>2. ~(q > l.escolar /\ (m.executivo > 0) # (o.executivo > 0))
      BY <1>5, <1>12, <3>1
    <3>3. CASE o \notin P4
      <4>1. m.executivo # o.executivo /\ o.executivo <= m.executivo
        BY <2>3, <3>3, <1>10
      <4>2. m.executivo > o.executivo
        BY <4>1, <1>9, <1>12
      <4> QED
        BY <3>1, <3>2, <4>1, <4>2 DEF Melhor
    <3>4. CASE o \in P4
      <4>1. m.executivo = o.executivo /\ o.escolar <= m.escolar
        BY <3>4, <1>11
      <4>2. m.escolar # o.escolar
        <5> SUFFICES ASSUME m.escolar = o.escolar PROVE m = o
          BY <1>13
        <5>1. Veiculos(m) = Veiculos(o)
          BY <1>1, <1>12
        <5>2. m.carro = o.carro
          BY <5>1, <4>1, <1>2, <1>12 DEF Veiculos
        <5> QED
          BY <5>2, <4>1, <1>2, <1>12
      <4>3. m.escolar > o.escolar
        BY <4>1, <4>2, <1>9, <1>12
      <4> QED
        BY <3>1, <3>2, <4>1, <4>3 DEF Melhor
    <3> QED
      BY <3>3, <3>4
  <2> QED
    BY <2>1, <2>2, <2>3
<1> QED
  BY <1>12, <1>13 DEF P1

\* PlanejarCategorias returns the best plan, of those with the fewest vehicles.
LEMMA PlanoDasCategorias ==
    ASSUME NEW l, Categorias(l), NEW q \in Nat
    PROVE  /\ PlanejarCategorias(l, q) \in Planos(l, q)
           /\ \A o \in Planos(l, q) : Veiculos(PlanejarCategorias(l, q)) <= Veiculos(o)
<1> DEFINE P == ComMenosVeiculos(l, q)
<1>1. PlanejarCategorias(l, q) = CHOOSE p \in P : \A o \in P \ {p} : Melhor(l, q, p, o)
  BY DEF PlanejarCategorias
<1>2. PlanejarCategorias(l, q) \in P
  <2> HIDE DEF P
  <2>1. \E p \in P : \A o \in P \ {p} : Melhor(l, q, p, o)
    BY MelhorExiste DEF P
  <2> QED
    BY <1>1, <2>1
<1> QED
  BY <1>2, MenosVeiculos

-----------------------------------------------------------------------------
(* Vehicles for a plan *)

\* The vehicles EmOrdem puts in order.
DeCategorias(S, cat, s) == {v \in S : cat[v] \in Range(s)}

LEMMA EmOrdemEnumera ==
    ASSUME NEW S, IsFiniteSet(S), \A v \in S : v \in Nat, NEW cat, NEW s, \A j \in DOMAIN s : j \in Nat
    PROVE  Enumera(EmOrdem(S, cat, s), DeCategorias(S, cat, s))
<1> DEFINE pos(v) == CHOOSE j \in DOMAIN s : s[j] = cat[v]
           D == DeCategorias(S, cat, s)
           n == Cardinality(D)
           Atras(x) == {y \in D : pos(y) < pos(x) \/ (pos(y) = pos(x) /\ y < x)}
           A == [x \in D |-> Atras(x)]
           O == EmOrdem(S, cat, s)
<1>1. IsFiniteSet(D) /\ n \in Nat
  BY FS_Subset, FS_CardinalityType DEF DeCategorias
<1>2. \A v \in D : v \in Nat /\ pos(v) \in Nat
  BY DEF DeCategorias, Range
<1>3. O = [i \in 1 .. n |-> CHOOSE x \in D : Cardinality(Atras(x)) = i - 1]
  BY DEF EmOrdem, Ordenar, DeCategorias
<1> HIDE DEF D, O, pos
<1>4. A \in [D -> SUBSET D] /\ \A x, y \in D :
          y \in A[x] <=> (pos(y) < pos(x) \/ (pos(y) = pos(x) /\ y < x))
  OBVIOUS
<1>5. \A x \in D : Cardinality(A[x]) = Cardinality(Atras(x))
  OBVIOUS
<1> HIDE DEF A, Atras
<1>6. OrdemEstrita(D, A)
  <2>1. \A x \in D : x \notin A[x]
    BY <1>2, <1>4
  <2>2. ASSUME NEW x \in D, NEW y \in D PROVE x = y \/ x \in A[y] \/ y \in A[x]
    <3>1. x \in Nat /\ y \in Nat /\ pos(x) \in Nat /\ pos(y) \in Nat
      BY <1>2
    <3>2. \/ x = y
          \/ pos(x) < pos(y) \/ (pos(x) = pos(y) /\ x < y)
          \/ pos(y) < pos(x) \/ (pos(y) = pos(x) /\ y < x)
      BY <3>1
    <3> QED
      BY <1>4, <3>2
  <2>3. ASSUME NEW x \in D, NEW y \in D, x \in A[y], NEW z \in A[x] PROVE z \in A[y]
    <3>1. z \in D
      BY <1>4
    <3>2. /\ pos(z) < pos(x) \/ (pos(z) = pos(x) /\ z < x)
          /\ pos(x) < pos(y) \/ (pos(x) = pos(y) /\ x < y)
      BY <1>4, <2>3, <3>1
    <3>3. /\ x \in Nat /\ y \in Nat /\ z \in Nat
          /\ pos(x) \in Nat /\ pos(y) \in Nat /\ pos(z) \in Nat
      BY <1>2, <3>1
    <3>4. pos(z) < pos(y) \/ (pos(z) = pos(y) /\ z < y)
      BY <3>2, <3>3
    <3> QED
      BY <1>4, <3>1, <3>4
  <2> QED
    BY <1>4, <2>1, <2>2, <2>3 DEF OrdemEstrita
<1>7. ASSUME NEW i \in 1 .. n PROVE O[i] \in D /\ Cardinality(A[O[i]]) = i - 1
  <2>1. i - 1 \in 0 .. n - 1
    BY <1>1
  <2>2. PICK x \in D : Cardinality(A[x]) = i - 1
    <3>1. \A j \in 0 .. n - 1 : \E x \in D : Cardinality(A[x]) = j
      BY <1>1, <1>6, Postos
    <3> QED
      BY <2>1, <3>1
  <2>3. Cardinality(Atras(x)) = i - 1
    BY <1>5, <2>2
  <2>4. O[i] \in D /\ Cardinality(Atras(O[i])) = i - 1
    BY <1>3, <2>3
  <2> QED
    BY <1>5, <2>4
<1>8. O = [i \in 1 .. n |-> O[i]]
  BY <1>3
<1>9. Enumera(O, D)
  BY <1>1, <1>6, <1>7, <1>8, SequenciaDosPostos
<1> QED
  BY <1>9 DEF O, D

\* A sequence that has nothing twice.
Distinta(s) == \A i, j \in 1 .. Len(s) : s[i] = s[j] => i = j

\* V and the first q of D, or all of D.
LEMMA PrimeirosDepois ==
    ASSUME NEW F, NEW V \in Seq(F), Distinta(V), NEW D, D \subseteq F, D \cap Range(V) = {},
           NEW o, Enumera(o, D), Cardinality(D) \in Nat, NEW k \in 0 .. Cardinality(D)
    PROVE  LET W == V \o SubSeq(o, 1, k) IN
           /\ W \in Seq(F) /\ Distinta(W) /\ Len(W) = Len(V) + k
           /\ \A i \in 1 .. Len(V) : W[i] = V[i]
           /\ \A i \in Len(V) + 1 .. Len(W) : W[i] \in D
<1> DEFINE P == SubSeq(o, 1, k)
           W == V \o P
<1>1. o \in Seq(D) /\ Len(o) = Cardinality(D) /\ \A i, j \in 1 .. Len(o) : o[i] = o[j] => i = j
  BY DEF Enumera
<1>2. P \in Seq(D) /\ Len(P) = k /\ \A i \in 1 .. k : P[i] = o[i]
  BY <1>1
<1>3. P \in Seq(F) /\ \A i \in 1 .. k : P[i] \in D
  BY <1>2
<1> HIDE DEF P
<1>4. W \in Seq(F) /\ Len(W) = Len(V) + k
  BY <1>2, <1>3
<1>5. \A i \in 1 .. Len(V) : W[i] = V[i] /\ W[i] \in Range(V)
  BY <1>2, <1>3 DEF Range
<1>6. \A i \in Len(V) + 1 .. Len(V) + k : W[i] = P[i - Len(V)] /\ i - Len(V) \in 1 .. k
  BY <1>2, <1>3
<1>7. \A i \in Len(V) + 1 .. Len(V) + k : W[i] \in D
  BY <1>3, <1>6
<1> HIDE DEF W
<1>8. ASSUME NEW i \in 1 .. Len(W), NEW j \in 1 .. Len(W), W[i] = W[j] PROVE i = j
  <2>1. CASE i \in 1 .. Len(V) /\ j \in 1 .. Len(V)
    BY <1>5, <1>8, <2>1 DEF Distinta
  <2>2. CASE i \notin 1 .. Len(V) /\ j \notin 1 .. Len(V)
    <3>1. i \in Len(V) + 1 .. Len(V) + k /\ j \in Len(V) + 1 .. Len(V) + k
      BY <1>4, <2>2
    <3>2. o[i - Len(V)] = o[j - Len(V)] /\ i - Len(V) \in 1 .. Len(o) /\ j - Len(V) \in 1 .. Len(o)
      BY <1>1, <1>2, <1>6, <1>8, <3>1
    <3>3. i - Len(V) = j - Len(V)
      BY <1>1, <3>2
    <3> QED
      BY <3>1, <3>3
  <2>3. \A m \in 1 .. Len(W) : m \notin 1 .. Len(V) => m \in Len(V) + 1 .. Len(V) + k
    BY <1>4
  <2> QED
    BY <1>5, <1>7, <1>8, <2>1, <2>2, <2>3
<1> QED
  BY <1>4, <1>5, <1>7, <1>8 DEF W, P, Distinta

LEMMA TiposDoFallback ==
    ASSUME NEW c \in Categoria
    PROVE  /\ \A j \in DOMAIN Fallback(c) : j \in Nat
           /\ Range(Fallback("executivo")) = {"executivo"}
           /\ Range(Fallback("escolar")) = {"executivo", "escolar"}
           /\ Range(Fallback("carro")) = Categoria
<1>1. Fallback("executivo") = <<"executivo">>
  BY DEF Fallback
<1>2. Fallback("escolar") = <<"escolar", "executivo">>
  BY DEF Fallback
<1>3. Fallback("carro") = <<"carro", "escolar", "executivo">>
  BY DEF Fallback
<1>4. Range(<<"executivo">>) = {"executivo"}
  BY DEF Range
<1>5. Range(<<"escolar", "executivo">>) = {"executivo", "escolar"}
  BY DEF Range
<1>6. Range(<<"carro", "escolar", "executivo">>) = {"carro", "escolar", "executivo"}
  BY DEF Range
<1>7. \A j \in DOMAIN Fallback(c) : j \in Nat
  BY <1>1, <1>2, <1>3 DEF Categoria
<1> QED
  BY <1>1, <1>2, <1>3, <1>4, <1>5, <1>6, <1>7 DEF Categoria

\* What Acrescentar may add.
Candidatos(V, c, F, cat) == DeCategorias(F \ Range(V), cat, Fallback(c))

\* W is V with vehicles of c, or larger ones, after it.
Acrescentada(W, V, c, q, F, cat) ==
    LET n == Cardinality(Candidatos(V, c, F, cat)) IN
    /\ n \in Nat
    /\ W \in Seq(F) /\ Distinta(W) /\ Len(W) = Len(V) + IF q < n THEN q ELSE n
    /\ Len(V) <= Len(W) /\ Len(W) <= Len(V) + q
    /\ \A i \in 1 .. Len(V) : W[i] = V[i]
    /\ \A i \in Len(V) + 1 .. Len(W) : cat[W[i]] \in Range(Fallback(c))

LEMMA AcrescentarDistintas ==
    ASSUME NEW F, IsFiniteSet(F), \A v \in F : v \in Nat, NEW cat, NEW c \in Categoria,
           NEW q \in Nat, NEW V \in Seq(F), Distinta(V)
    PROVE  Acrescentada(Acrescentar(V, c, q, F, cat), V, c, q, F, cat)
<1> DEFINE L == F \ Range(V)
           D == Candidatos(V, c, F, cat)
           n == Cardinality(D)
           o == EmOrdem(L, cat, Fallback(c))
           k == IF q < n THEN q ELSE n
<1>1. IsFiniteSet(L) /\ \A v \in L : v \in Nat
  BY FS_Subset
<1>2. Enumera(o, D)
  BY <1>1, EmOrdemEnumera, TiposDoFallback DEF Candidatos
<1>3. D \subseteq F /\ D \cap Range(V) = {} /\ \A v \in D : cat[v] \in Range(Fallback(c))
  BY DEF Candidatos, DeCategorias
<1>4. n \in Nat /\ k \in 0 .. n
  <2>1. IsFiniteSet(D)
    BY <1>3, FS_Subset
  <2>2. n \in Nat
    BY <2>1, FS_CardinalityType
  <2> QED
    BY <2>2
<1>5. Len(o) = n
  BY <1>2 DEF Enumera
<1>6. Acrescentar(V, c, q, F, cat) = V \o SubSeq(o, 1, k)
  BY <1>5 DEF Acrescentar
<1> HIDE DEF D, o, k, n
<1>7. LET W == V \o SubSeq(o, 1, k) IN
           /\ W \in Seq(F) /\ Distinta(W) /\ Len(W) = Len(V) + k
           /\ \A i \in 1 .. Len(V) : W[i] = V[i]
           /\ \A i \in Len(V) + 1 .. Len(W) : W[i] \in D
  BY <1>2, <1>3, <1>4, PrimeirosDepois DEF n
<1>8. k \in Nat /\ k <= q /\ Len(V) \in Nat
  BY <1>4 DEF k
<1> QED
  BY <1>3, <1>4, <1>6, <1>7, <1>8 DEF k, n, D, Acrescentada

\* p[c] of plan p, as the sequence of the three categories has them: vehicles
\* 1 .. p.executivo are executivos, the next p.escolar at least escolares.
LEMMA SelecionarEscolhe ==
    ASSUME NEW F, IsFiniteSet(F), \A v \in F : v \in Nat, NEW cat,
           NEW p \in [executivo : Nat, escolar : Nat, carro : Nat],
           Selecionar(p, F, cat) # <<>>
    PROVE  LET V == Selecionar(p, F, cat) IN
           /\ V \in Seq(F) /\ Distinta(V) /\ Len(V) = Veiculos(p)
           /\ \A i \in 1 .. p.executivo : cat[V[i]] = "executivo"
           /\ \A i \in p.executivo + 1 .. p.executivo + p.escolar : cat[V[i]] \in {"executivo", "escolar"}
           /\ \A i \in p.executivo + p.escolar + 1 .. Len(V) : cat[V[i]] \in Categoria
<1> DEFINE E == Acrescentar(<<>>, "executivo", p.executivo, F, cat)
           S == Acrescentar(E, "escolar", p.escolar, F, cat)
           V == Acrescentar(S, "carro", p.carro, F, cat)
<1>1. Selecionar(p, F, cat) = V /\ Len(V) = Veiculos(p)
  BY DEF Selecionar
<1>2. <<>> \in Seq(F) /\ Distinta(<<>>) /\ Len(<<>>) = 0
  BY DEF Distinta
<1>3. "executivo" \in Categoria /\ "escolar" \in Categoria /\ "carro" \in Categoria
  BY DEF Categoria
<1>4. p.executivo \in Nat /\ p.escolar \in Nat /\ p.carro \in Nat
  OBVIOUS
<1>e. Acrescentada(E, <<>>, "executivo", p.executivo, F, cat)
  BY <1>2, <1>3, <1>4, AcrescentarDistintas
<1>5. /\ E \in Seq(F) /\ Distinta(E) /\ Len(E) <= p.executivo
      /\ \A i \in 1 .. Len(E) : cat[E[i]] \in Range(Fallback("executivo"))
  BY <1>2, <1>4, <1>e DEF Acrescentada
<1> HIDE DEF E
<1>s. Acrescentada(S, E, "escolar", p.escolar, F, cat)
  BY <1>3, <1>4, <1>5, AcrescentarDistintas
<1>6. /\ S \in Seq(F) /\ Distinta(S) /\ Len(S) <= Len(E) + p.escolar
      /\ \A i \in 1 .. Len(E) : S[i] = E[i]
      /\ \A i \in Len(E) + 1 .. Len(S) : cat[S[i]] \in Range(Fallback("escolar"))
  BY <1>s DEF Acrescentada
<1> HIDE DEF S
<1>v. Acrescentada(V, S, "carro", p.carro, F, cat)
  BY <1>3, <1>4, <1>6, AcrescentarDistintas
<1>7. /\ V \in Seq(F) /\ Distinta(V) /\ Len(V) <= Len(S) + p.carro
      /\ \A i \in 1 .. Len(S) : V[i] = S[i]
      /\ \A i \in Len(S) + 1 .. Len(V) : cat[V[i]] \in Range(Fallback("carro"))
  BY <1>v DEF Acrescentada
<1> HIDE DEF V
<1>8. Len(E) = p.executivo /\ Len(S) = p.executivo + p.escolar
  BY <1>1, <1>4, <1>5, <1>6, <1>7 DEF Veiculos
<1>9. \A i \in 1 .. p.executivo : cat[V[i]] = "executivo"
  <2> TAKE i \in 1 .. p.executivo
  <2>1. V[i] = E[i]
    BY <1>4, <1>6, <1>7, <1>8
  <2> QED
    BY <1>3, <1>5, <1>8, <2>1, TiposDoFallback
<1>10. \A i \in p.executivo + 1 .. p.executivo + p.escolar : cat[V[i]] \in {"executivo", "escolar"}
  <2> TAKE i \in p.executivo + 1 .. p.executivo + p.escolar
  <2>1. V[i] = S[i]
    BY <1>4, <1>7, <1>8
  <2> QED
    BY <1>3, <1>6, <1>8, <2>1, TiposDoFallback
<1>11. \A i \in p.executivo + p.escolar + 1 .. Len(V) : cat[V[i]] \in Categoria
  BY <1>3, <1>7, <1>8, TiposDoFallback
<1> QED
  BY <1>1, <1>7, <1>9, <1>10, <1>11

-----------------------------------------------------------------------------
(* Passengers in vehicles *)

Capacidades(cap) ==
    /\ IsFiniteSet(DOMAIN cap)
    /\ \A i \in DOMAIN cap : i \in Nat /\ cap[i] \in Nat

\* A distribution in which nobody sits twice and no vehicle is overfull.
Cabe(cap, carga) ==
    /\ DOMAIN carga = DOMAIN cap
    /\ \A i \in DOMAIN cap : IsFiniteSet(carga[i]) /\ Cardinality(carga[i]) <= cap[i]
    /\ \A i, j \in DOMAIN cap : i = j \/ carga[i] \cap carga[j] = {}

Embarcados(carga) == UNION {carga[i] : i \in DOMAIN carga}

LEMMA RestoNatural ==
    ASSUME NEW cap, Capacidades(cap), NEW carga, Cabe(cap, carga), NEW i \in DOMAIN cap
    PROVE  /\ Cardinality(carga[i]) \in Nat /\ Resto(cap, carga, i) \in Nat
           /\ Resto(cap, carga, i) = cap[i] - Cardinality(carga[i])
<1>1. IsFiniteSet(carga[i]) /\ Cardinality(carga[i]) <= cap[i] /\ cap[i] \in Nat
  BY DEF Capacidades, Cabe
<1>2. Cardinality(carga[i]) \in Nat
  BY <1>1, FS_CardinalityType
<1> QED
  BY <1>1, <1>2 DEF Resto

\* Seats of one vehicle more.
LEMMA MaisUmVeiculo ==
    ASSUME NEW cap, Capacidades(cap), NEW carga, Cabe(cap, carga), NEW I, I \subseteq DOMAIN cap
    PROVE  /\ IsFiniteSet(Vagas(cap, carga, I)) /\ Cardinality(Vagas(cap, carga, I)) \in Nat
           /\ \A i \in (DOMAIN cap) \ I :
                  Cardinality(Vagas(cap, carga, I \cup {i}))
                    = Cardinality(Vagas(cap, carga, I)) + Resto(cap, carga, i)
<1>1. \A i \in DOMAIN cap : IsFiniteSet({i} \X (1 .. Resto(cap, carga, i)))
                          /\ Cardinality({i} \X (1 .. Resto(cap, carga, i))) = Resto(cap, carga, i)
  <2> TAKE i \in DOMAIN cap
  <2> DEFINE m == Resto(cap, carga, i)
  <2>1. m \in Nat
    BY RestoNatural
  <2> HIDE DEF m
  <2>2. IsFiniteSet(1 .. m) /\ Cardinality(1 .. m) = m
    BY <2>1, FS_Interval
  <2>3. IsFiniteSet({i}) /\ Cardinality({i}) = 1
    BY FS_Singleton
  <2>4. IsFiniteSet({i} \X (1 .. m)) /\ Cardinality({i} \X (1 .. m)) = 1 * m
    BY <2>2, <2>3, FS_Product
  <2> QED
    BY <2>1, <2>4 DEF m
<1>2. IsFiniteSet(Vagas(cap, carga, I))
  <2> DEFINE f == [i \in I |-> {i} \X (1 .. Resto(cap, carga, i))]
             T == {{i} \X (1 .. Resto(cap, carga, i)) : i \in I}
  <2>1. f \in Surjection(I, T)
    BY DEF Surjection
  <2>2. IsFiniteSet(I)
    BY FS_Subset DEF Capacidades
  <2>3. IsFiniteSet(T)
    BY <2>1, <2>2, FS_Surjection
  <2>4. \A t \in T : IsFiniteSet(t)
    BY <1>1
  <2>5. IsFiniteSet(UNION T)
    BY <2>3, <2>4, FS_UNION
  <2> QED
    BY <2>5 DEF Vagas
<1>3. Cardinality(Vagas(cap, carga, I)) \in Nat
  BY <1>2, FS_CardinalityType
<1>4. ASSUME NEW i \in (DOMAIN cap) \ I
      PROVE  Cardinality(Vagas(cap, carga, I \cup {i}))
                    = Cardinality(Vagas(cap, carga, I)) + Resto(cap, carga, i)
  <2> DEFINE A == Vagas(cap, carga, I)
             B == {i} \X (1 .. Resto(cap, carga, i))
  <2>1. Vagas(cap, carga, I \cup {i}) = A \cup B
    BY DEF Vagas
  <2>2. A \cap B = {}
    BY DEF Vagas
  <2>3. IsFiniteSet(B) /\ Cardinality(B) = Resto(cap, carga, i)
    BY <1>1
  <2>4. Resto(cap, carga, i) \in Nat
    BY RestoNatural
  <2> HIDE DEF A, B
  <2>5. Cardinality(A \cap B) = 0
    BY <2>2, FS_EmptySet
  <2>6. Cardinality(A \cup B) = Cardinality(A) + Cardinality(B) - Cardinality(A \cap B)
    BY <1>2, <2>3, FS_Union DEF A
  <2>7. Cardinality(A) \in Nat
    BY <1>3 DEF A
  <2>8. Cardinality(A \cup B) = Cardinality(A) + Resto(cap, carga, i)
    BY <2>3, <2>4, <2>5, <2>6, <2>7
  <2> QED
    BY <2>1, <2>8 DEF A
<1> QED
  BY <1>2, <1>3, <1>4

\* Every seat is free or has somebody on it.
LEMMA VagasEOcupadas ==
    ASSUME NEW cap, Capacidades(cap), NEW carga, Cabe(cap, carga), IsFiniteSet(Embarcados(carga))
    PROVE  /\ IsFiniteSet(Cadeiras(cap)) /\ Cardinality(Cadeiras(cap)) \in Nat
           /\ Cardinality(Cadeiras(cap))
                 <= Cardinality(Vagas(cap, carga, DOMAIN cap)) + Cardinality(Embarcados(carga))
<1> DEFINE resto(i) == Resto(cap, carga, i)
           O == UNION {{i} \X (resto(i) + 1 .. cap[i]) : i \in DOMAIN cap}
           E == Embarcados(carga)
           V == Vagas(cap, carga, DOMAIN cap)
           b(i) == CHOOSE f : f \in Bijection(1 .. Cardinality(carga[i]), carga[i])
           h == [x \in O |-> b(x[1])[x[2] - resto(x[1])]]
<1>1. \A i \in DOMAIN cap : /\ resto(i) \in Nat /\ cap[i] \in Nat
                             /\ Cardinality(carga[i]) \in Nat /\ Cardinality(carga[i]) = cap[i] - resto(i)
  BY RestoNatural DEF Capacidades
<1>2. \A i \in DOMAIN cap : b(i) \in Bijection(1 .. Cardinality(carga[i]), carga[i])
  <2> TAKE i \in DOMAIN cap
  <2>1. IsFiniteSet(carga[i])
    BY DEF Cabe
  <2>2. ExistsBijection(1 .. Cardinality(carga[i]), carga[i])
    BY <2>1, FS_CardinalityType
  <2> QED
    BY <2>2 DEF ExistsBijection
<1> HIDE DEF b, resto
<1>3. \A x \in O : /\ x = <<x[1], x[2]>> /\ x[1] \in DOMAIN cap /\ x[2] \in Int
                    /\ x[2] - resto(x[1]) \in 1 .. Cardinality(carga[x[1]])
  <2> TAKE x \in O
  <2>1. PICK i \in DOMAIN cap : x \in {i} \X (resto(i) + 1 .. cap[i])
    OBVIOUS
  <2>2. x[1] = i /\ x[2] \in resto(i) + 1 .. cap[i] /\ x = <<x[1], x[2]>>
    BY <2>1
  <2> QED
    BY <1>1, <2>2
<1>4. \A x \in O : h[x] \in carga[x[1]]
  BY <1>2, <1>3 DEF Bijection, Surjection
<1>5. h \in [O -> E]
  <2>1. \A x \in O : h[x] \in E
    <3> HIDE DEF h, O
    <3> QED
      BY <1>3, <1>4 DEF Cabe, Embarcados
  <2> QED
    BY <2>1
<1>6. ASSUME NEW x \in O, NEW y \in O, h[x] = h[y] PROVE x = y
  <2>1. x[1] = y[1]
    BY <1>3, <1>4, <1>6 DEF Cabe
  <2>2. x[2] - resto(x[1]) = y[2] - resto(x[1])
    <3> DEFINE f == b(x[1])
               m == Cardinality(carga[x[1]])
    <3>1. f \in Bijection(1 .. m, carga[x[1]])
      BY <1>2, <1>3
    <3>2. f[x[2] - resto(x[1])] = f[y[2] - resto(x[1])]
      BY <1>6, <2>1
    <3>3. x[2] - resto(x[1]) \in 1 .. m /\ y[2] - resto(x[1]) \in 1 .. m
      BY <1>3, <2>1
    <3>4. \A n, o \in 1 .. m : f[n] = f[o] => n = o
      <4> HIDE DEF f, m
      <4> QED
        BY <3>1 DEF Bijection, Injection, IsInjective
    <3> QED
      BY <3>2, <3>3, <3>4
  <2>3. x[2] = y[2]
    BY <1>1, <1>3, <2>2
  <2> QED
    BY <1>3, <2>1, <2>3
<1>7. h \in Injection(O, E)
  <2> HIDE DEF h, O, E
  <2> QED
    BY <1>5, <1>6 DEF Injection, IsInjective
<1>8. IsFiniteSet(O) /\ Cardinality(O) <= Cardinality(E)
  <2> HIDE DEF h, O
  <2> QED
    BY <1>7, FS_Injection
<1>9. Cadeiras(cap) = V \cup O
  <2>1. ASSUME NEW i \in DOMAIN cap
        PROVE  {i} \X (1 .. cap[i]) = ({i} \X (1 .. resto(i))) \cup ({i} \X (resto(i) + 1 .. cap[i]))
    <3>1. 1 .. cap[i] = (1 .. resto(i)) \cup (resto(i) + 1 .. cap[i])
      <4>1. cap[i] \in Nat /\ resto(i) \in Nat /\ resto(i) <= cap[i]
        BY <1>1
      <4> QED
        BY <4>1
    <3> QED
      BY <3>1
  <2>2. V = UNION {{i} \X (1 .. resto(i)) : i \in DOMAIN cap}
    BY DEF Vagas, resto
  <2> QED
    BY <2>1, <2>2 DEF Cadeiras
<1>10. IsFiniteSet(V) /\ Cardinality(V) \in Nat
  BY MaisUmVeiculo
<1>11. Cardinality(O) \in Nat /\ Cardinality(E) \in Nat
  <2> HIDE DEF O
  <2> QED
    BY <1>8, FS_CardinalityType
<1> HIDE DEF V, O, E
<1>12. /\ IsFiniteSet(V \cup O)
       /\ Cardinality(V \cup O) = Cardinality(V) + Cardinality(O) - Cardinality(V \cap O)
  BY <1>8, <1>10, FS_Union
<1>13. Cardinality(V \cap O) \in Nat /\ Cardinality(V \cup O) \in Nat
  BY <1>8, <1>12, FS_Intersection, FS_CardinalityType
<1> QED
  BY <1>8, <1>9, <1>10, <1>11, <1>12, <1>13 DEF V, E

\* A group g that sits nowhere yet goes into nova, which is carga with some of g.
Aloca(cap, carga, g, nova) ==
    /\ Cabe(cap, nova)
    /\ \A i \in DOMAIN cap : carga[i] \subseteq nova[i] /\ nova[i] \subseteq carga[i] \cup g
    /\ Cardinality(g) <= Cardinality(Vagas(cap, carga, DOMAIN cap)) =>
          \A r \in g : \E i \in DOMAIN cap : r \in nova[i]

Grupo(carga, g) ==
    /\ IsFiniteSet(g) /\ \A r \in g : r \in Nat
    /\ \A i \in DOMAIN carga : carga[i] \cap g = {}

LEMMA InteiroAloca ==
    ASSUME NEW cap, Capacidades(cap), NEW carga, Cabe(cap, carga), NEW g, Grupo(carga, g),
           Inteiro(cap, carga, g) # {}
    PROVE  Aloca(cap, carga, g, AlocarInteiro(cap, carga, g))
<1> DEFINE T == Inteiro(cap, carga, g)
           melhor(j) == \A n \in T \ {j} :
                \/ Resto(cap, carga, j) < Resto(cap, carga, n)
                \/ Resto(cap, carga, j) = Resto(cap, carga, n) /\ j < n
           i == CHOOSE j \in T : melhor(j)
           nova == [carga EXCEPT ![i] = @ \cup g]
           f == [j \in T |-> Resto(cap, carga, j)]
<1>1. AlocarInteiro(cap, carga, g) = nova
  BY DEF AlocarInteiro
<1>2. \A j \in T : /\ j \in DOMAIN cap /\ j \in Nat /\ Resto(cap, carga, j) \in Nat
                    /\ Resto(cap, carga, j) >= Cardinality(g)
  BY RestoNatural DEF Inteiro, Capacidades
<1>3. PICK a \in T : \A n \in T : Resto(cap, carga, a) <= Resto(cap, carga, n)
  <2>1. f \in [T -> Nat]
    BY <1>2
  <2>2. PICK a \in T : \A n \in T : f[a] <= f[n]
    <3> HIDE DEF f, T
    <3> QED
      BY <2>1, ArgMenor DEF T
  <2> QED
    BY <2>2
<1> DEFINE U == {j \in T : Resto(cap, carga, j) = Resto(cap, carga, a)}
<1>4. PICK m \in U : \A n \in U : m <= n
  <2>1. U \in SUBSET Nat /\ U # {}
    BY <1>2
  <2> HIDE DEF U
  <2> QED
    BY <2>1, MenorNatural
<1>5. m \in T /\ melhor(m)
  <2> SUFFICES ASSUME NEW n \in T \ {m}
               PROVE  \/ Resto(cap, carga, m) < Resto(cap, carga, n)
                      \/ Resto(cap, carga, m) = Resto(cap, carga, n) /\ m < n
    OBVIOUS
  <2>1. Resto(cap, carga, m) = Resto(cap, carga, a)
    OBVIOUS
  <2>2. CASE n \in U
    BY <1>2, <1>4, <2>1, <2>2
  <2>3. CASE n \notin U
    BY <1>2, <1>3, <2>1, <2>3
  <2> QED
    BY <2>2, <2>3
<1>6. i \in T
  <2> HIDE DEF melhor, T
  <2> QED
    BY <1>5
<1> HIDE DEF i
<1>7. Cardinality(g) \in Nat
  BY FS_CardinalityType DEF Grupo
<1>8. DOMAIN carga = DOMAIN cap /\ i \in DOMAIN cap
  BY <1>2, <1>6 DEF Cabe
<1>9. \A j \in DOMAIN cap : nova[j] = IF j = i THEN carga[j] \cup g ELSE carga[j]
  BY <1>8
<1>10. DOMAIN nova = DOMAIN cap
  BY <1>8
<1> HIDE DEF nova
<1>11. IsFiniteSet(carga[i] \cup g) /\ Cardinality(carga[i] \cup g) <= cap[i]
  <2>1. IsFiniteSet(carga[i]) /\ IsFiniteSet(g) /\ carga[i] \cap g = {}
    BY <1>8 DEF Cabe, Grupo
  <2>2. /\ IsFiniteSet(carga[i] \cup g)
        /\ Cardinality(carga[i] \cup g) = Cardinality(carga[i]) + Cardinality(g) - Cardinality(carga[i] \cap g)
    BY <2>1, FS_Union
  <2>3. Cardinality(carga[i] \cap g) = 0
    BY <2>1, FS_EmptySet
  <2>4. Resto(cap, carga, i) = cap[i] - Cardinality(carga[i]) /\ Resto(cap, carga, i) >= Cardinality(g)
    BY <1>2, <1>6, <1>8, RestoNatural
  <2>5. Cardinality(carga[i]) \in Nat /\ cap[i] \in Nat
    BY <1>8, RestoNatural DEF Capacidades
  <2> QED
    BY <1>7, <2>2, <2>3, <2>4, <2>5
<1>12. Cabe(cap, nova)
  <2>1. \A j \in DOMAIN cap : IsFiniteSet(nova[j]) /\ Cardinality(nova[j]) <= cap[j]
    BY <1>9, <1>11 DEF Cabe
  <2>2. \A j, n \in DOMAIN cap : j = n \/ nova[j] \cap nova[n] = {}
    BY <1>8, <1>9 DEF Cabe, Grupo
  <2> QED
    BY <1>10, <2>1, <2>2 DEF Cabe
<1> QED
  BY <1>1, <1>8, <1>9, <1>12 DEF Aloca

\* Everybody of a group has a place of their own in its queue.
LEMMA Fila ==
    ASSUME NEW g, IsFiniteSet(g), \A r \in g : r \in Nat
    PROVE  /\ Cardinality(g) \in Nat
           /\ \A r \in g : Lugar(g, r) \in 1 .. Cardinality(g)
           /\ \A r, q \in g : Lugar(g, r) = Lugar(g, q) => r = q
<1>1. Cardinality(g) \in Nat
  BY FS_CardinalityType
<1>2. ASSUME NEW r \in g PROVE Lugar(g, r) \in 1 .. Cardinality(g) /\ IsFiniteSet({q \in g : q <= r})
  <2> DEFINE A == {q \in g : q <= r}
  <2>1. A \in SUBSET g /\ A # {}
    OBVIOUS
  <2> HIDE DEF A
  <2>2. IsFiniteSet(A) /\ Cardinality(A) <= Cardinality(g)
    BY <2>1, FS_Subset
  <2>3. Cardinality(A) \in Nat /\ Cardinality(A) # 0
    BY <2>1, <2>2, FS_CardinalityType, FS_EmptySet
  <2> QED
    BY <1>1, <2>2, <2>3 DEF Lugar, A
<1>3. ASSUME NEW r \in g, NEW q \in g, r < q PROVE Lugar(g, r) # Lugar(g, q)
  <2> DEFINE A == {x \in g : x <= r}
             B == {x \in g : x <= q}
  <2>1. A \in SUBSET B
    BY <1>3
  <2>2. q \in B /\ q \notin A
    BY <1>3
  <2>3. IsFiniteSet(B)
    BY <1>2
  <2> HIDE DEF A, B
  <2>4. Cardinality(A) # Cardinality(B)
    BY <2>1, <2>2, <2>3, FS_Subset
  <2> QED
    BY <2>4 DEF Lugar, A, B
<1>4. \A r, q \in g : r = q \/ r < q \/ q < r
  OBVIOUS
<1> QED
  BY <1>1, <1>2, <1>3, <1>4

\* The order in which AlocarDividido fills the vehicles.
LEMMA OrdemDeAntes ==
    ASSUME NEW cap, Capacidades(cap), NEW carga, Cabe(cap, carga)
    PROVE  OrdemEstrita(DOMAIN cap, [i \in DOMAIN cap |-> Antes(cap, carga, i)])
<1> DEFINE D == DOMAIN cap
           A == [i \in D |-> Antes(cap, carga, i)]
           r(i) == Resto(cap, carga, i)
<1>1. A \in [D -> SUBSET D]
  BY DEF Antes
<1>2. \A i, j \in D : j \in A[i] <=> (r(j) > r(i) \/ (r(j) = r(i) /\ j < i))
  BY DEF Antes
<1>3. \A i \in D : i \in Nat /\ r(i) \in Nat
  BY RestoNatural DEF Capacidades
<1> HIDE DEF A, D, r
<1>4. \A x \in D : x \notin A[x]
  BY <1>2, <1>3
<1>5. ASSUME NEW x \in D, NEW y \in D PROVE x = y \/ x \in A[y] \/ y \in A[x]
  <2>1. x \in Nat /\ y \in Nat /\ r(x) \in Nat /\ r(y) \in Nat
    BY <1>3
  <2>2. \/ x = y
        \/ r(x) > r(y) \/ (r(x) = r(y) /\ x < y)
        \/ r(y) > r(x) \/ (r(y) = r(x) /\ y < x)
    BY <2>1
  <2> QED
    BY <1>2, <2>2
<1>6. ASSUME NEW x \in D, NEW y \in D, x \in A[y], NEW z \in A[x] PROVE z \in A[y]
  <2>1. z \in D
    BY <1>1
  <2>2. /\ r(z) > r(x) \/ (r(z) = r(x) /\ z < x)
        /\ r(x) > r(y) \/ (r(x) = r(y) /\ x < y)
    BY <1>2, <1>6, <2>1
  <2>3. /\ x \in Nat /\ y \in Nat /\ z \in Nat
        /\ r(x) \in Nat /\ r(y) \in Nat /\ r(z) \in Nat
    BY <1>3, <2>1
  <2>4. r(z) > r(y) \/ (r(z) = r(y) /\ z < y)
    BY <2>2, <2>3
  <2> QED
    BY <1>2, <2>1, <2>4
<1>7. OrdemEstrita(D, A)
  BY <1>1, <1>4, <1>5, <1>6 DEF OrdemEstrita
<1> QED
  BY <1>7 DEF A, D

Inicio(cap, carga, i) == Cardinality(Vagas(cap, carga, Antes(cap, carga, i)))

\* The free seats in the order in which they are filled: those of a vehicle come
\* after those of the vehicles before it, and every place of the queue has one.
LEMMA Inicios ==
    ASSUME NEW cap, Capacidades(cap), NEW carga, Cabe(cap, carga)
    PROVE  /\ \A i \in DOMAIN cap : Inicio(cap, carga, i) \in Nat
           /\ \A i, j \in DOMAIN cap : i = j \/ Inicio(cap, carga, i) + Resto(cap, carga, i) <= Inicio(cap, carga, j)
                                             \/ Inicio(cap, carga, j) + Resto(cap, carga, j) <= Inicio(cap, carga, i)
           /\ \A k \in Nat : 0 < k /\ k <= Cardinality(Vagas(cap, carga, DOMAIN cap)) =>
                  \E i \in DOMAIN cap : /\ Inicio(cap, carga, i) < k
                                        /\ k <= Inicio(cap, carga, i) + Resto(cap, carga, i)
<1> DEFINE D == DOMAIN cap
           A == [i \in D |-> Antes(cap, carga, i)]
           r(i) == Resto(cap, carga, i)
           v(I) == Cardinality(Vagas(cap, carga, I))
           n == Cardinality(D)
<1>1. OrdemEstrita(D, A) /\ IsFiniteSet(D)
  BY OrdemDeAntes DEF Capacidades
<1>2. \A i \in D : Inicio(cap, carga, i) = v(A[i]) /\ A[i] \subseteq D /\ i \notin A[i]
  <2>1. \A i \in D : Inicio(cap, carga, i) = v(A[i])
    BY DEF Inicio
  <2> HIDE DEF A, D
  <2> QED
    BY <1>1, <2>1 DEF OrdemEstrita
<1>3. \A I : I \subseteq D => /\ IsFiniteSet(Vagas(cap, carga, I)) /\ v(I) \in Nat
                               /\ \A i \in D \ I : v(I \cup {i}) = v(I) + r(i)
  BY MaisUmVeiculo
<1>4. ASSUME NEW I, NEW J, I \subseteq J, J \subseteq D PROVE v(I) <= v(J)
  <2>1. Vagas(cap, carga, I) \in SUBSET Vagas(cap, carga, J)
    BY <1>4 DEF Vagas
  <2>2. IsFiniteSet(Vagas(cap, carga, J))
    BY <1>3, <1>4
  <2> QED
    BY <2>1, <2>2, FS_Subset
<1>5. \A i \in D : r(i) \in Nat
  BY RestoNatural
<1>6. v(D) = Cardinality(Vagas(cap, carga, DOMAIN cap))
  OBVIOUS
<1>7. v({}) = 0
  <2>1. Vagas(cap, carga, {}) = {}
    BY DEF Vagas
  <2> QED
    BY <2>1, FS_EmptySet
<1>8. \A i \in D : r(i) = Resto(cap, carga, i)
  OBVIOUS
<1> HIDE DEF A, D, r, v
<1>9. ASSUME NEW i \in D, NEW j \in D, i \in A[j] PROVE v(A[i]) + r(i) <= v(A[j])
  <2>1. A[i] \cup {i} \subseteq A[j]
    BY <1>1, <1>9 DEF OrdemEstrita
  <2>2. v(A[i] \cup {i}) = v(A[i]) + r(i)
    BY <1>2, <1>3
  <2>3. v(A[i] \cup {i}) <= v(A[j])
    BY <1>2, <1>4, <2>1
  <2> QED
    BY <2>2, <2>3
<1>10. \A i \in D : v(A[i]) \in Nat
  BY <1>2, <1>3
<1>11. \A i, j \in D : i = j \/ v(A[i]) + r(i) <= v(A[j]) \/ v(A[j]) + r(j) <= v(A[i])
  BY <1>1, <1>9 DEF OrdemEstrita
<1>12. ASSUME NEW k \in Nat, 0 < k, k <= v(D)
       PROVE  \E i \in D : v(A[i]) < k /\ k <= v(A[i]) + r(i)
  <2> DEFINE T == {i \in D : k <= v(A[i]) + r(i)}
             f == [i \in T |-> Cardinality(A[i])]
  <2>1. /\ n \in Nat
        /\ \A x \in D : Cardinality(A[x]) \in 0 .. n - 1
        /\ \A x, y \in D : x \in A[y] => Cardinality(A[x]) < Cardinality(A[y])
        /\ \A x, y \in D : Cardinality(A[x]) = Cardinality(A[y]) => x = y
        /\ \A i \in 0 .. n - 1 : \E x \in D : Cardinality(A[x]) = i
    BY <1>1, Postos
  <2>2. n # 0
    <3>1. D # {}
      BY <1>7, <1>12
    <3> QED
      BY <1>1, <3>1, FS_EmptySet
  <2>3. PICK u \in D : Cardinality(A[u]) = n - 1
    <3>1. n - 1 \in 0 .. n - 1
      BY <2>1, <2>2
    <3> QED
      BY <2>1, <3>1
  <2>4. A[u] \cup {u} = D
    <3>1. A[u] \in SUBSET D /\ IsFiniteSet(A[u]) /\ u \notin A[u]
      BY <1>1, <1>2, FS_Subset
    <3>2. Cardinality(A[u] \cup {u}) = Cardinality(A[u]) + 1
      BY <3>1, FS_AddElement
    <3>3. Cardinality(A[u] \cup {u}) = n
      BY <2>1, <2>3, <3>2
    <3>4. A[u] \cup {u} \in SUBSET D
      BY <3>1
    <3> QED
      BY <1>1, <3>3, <3>4, FS_Subset
  <2>5. u \in T
    <3>1. v(A[u] \cup {u}) = v(A[u]) + r(u)
      BY <1>2, <1>3
    <3> QED
      BY <1>12, <2>4, <3>1
  <2>6. f \in [T -> Nat]
    BY <2>1
  <2>7. PICK i \in T : \A o \in T : Cardinality(A[i]) <= Cardinality(A[o])
    <3>1. PICK i \in T : \A o \in T : f[i] <= f[o]
      <4> HIDE DEF f, T
      <4> QED
        BY <2>5, <2>6, ArgMenor
    <3> QED
      BY <3>1
  <2>8. v(A[i]) < k
    <3>1. CASE Cardinality(A[i]) = 0
      <4>1. A[i] = {}
        BY <1>1, <1>2, <3>1, FS_Subset, FS_EmptySet
      <4> QED
        BY <1>7, <1>12, <4>1
    <3>2. CASE Cardinality(A[i]) # 0
      <4>1. Cardinality(A[i]) \in 0 .. n - 1 /\ Cardinality(A[i]) - 1 \in 0 .. n - 1
        BY <2>1, <3>2
      <4>2. PICK j \in D : Cardinality(A[j]) = Cardinality(A[i]) - 1
        BY <2>1, <4>1
      <4>3. j \in A[i]
        <5>1. i # j /\ ~(Cardinality(A[i]) < Cardinality(A[j]))
          BY <4>1, <4>2
        <5>2. i \notin A[j]
          BY <2>1, <5>1
        <5> QED
          BY <1>1, <5>1, <5>2 DEF OrdemEstrita
      <4>4. A[j] \cup {j} \in SUBSET A[i]
        BY <1>1, <4>3 DEF OrdemEstrita
      <4>5. Cardinality(A[j] \cup {j}) = Cardinality(A[i])
        <5>1. IsFiniteSet(A[j]) /\ j \notin A[j]
          BY <1>1, <1>2, FS_Subset
        <5>2. Cardinality(A[j] \cup {j}) = Cardinality(A[j]) + 1
          BY <5>1, FS_AddElement
        <5> QED
          BY <4>1, <4>2, <5>2
      <4>6. A[j] \cup {j} = A[i]
        <5>1. IsFiniteSet(A[i])
          BY <1>1, <1>2, FS_Subset
        <5> QED
          BY <4>4, <4>5, <5>1, FS_Subset
      <4>7. v(A[i]) = v(A[j]) + r(j)
        BY <1>2, <1>3, <4>6
      <4>8. j \notin T
        BY <2>7, <4>1, <4>2
      <4> QED
        BY <1>5, <1>10, <4>7, <4>8
    <3> QED
      BY <3>1, <3>2
  <2> QED
    BY <2>8
<1>13. \A k \in Nat : 0 < k /\ k <= v(D) => \E i \in D : v(A[i]) < k /\ k <= v(A[i]) + r(i)
  BY <1>12
<1>14. \A i \in D : Inicio(cap, carga, i) = v(A[i]) /\ Resto(cap, carga, i) = r(i)
  BY <1>2, <1>8
<1>15. DOMAIN cap = D
  BY DEF D
<1>16. \A i \in D : Inicio(cap, carga, i) \in Nat
  BY <1>10, <1>14
<1>17. \A i, j \in D : i = j \/ Inicio(cap, carga, i) + Resto(cap, carga, i) <= Inicio(cap, carga, j)
                             \/ Inicio(cap, carga, j) + Resto(cap, carga, j) <= Inicio(cap, carga, i)
  BY <1>11, <1>14
<1>18. \A k \in Nat : 0 < k /\ k <= v(D) =>
          \E i \in D : Inicio(cap, carga, i) < k /\ k <= Inicio(cap, carga, i) + Resto(cap, carga, i)
  BY <1>13, <1>14
<1> QED
  BY <1>6, <1>15, <1>16, <1>17, <1>18

LEMMA DivididoAloca ==
    ASSUME NEW cap, Capacidades(cap), NEW carga, Cabe(cap, carga), NEW g, Grupo(carga, g)
    PROVE  Aloca(cap, carga, g, AlocarDividido(cap, carga, g))
<1> DEFINE D == DOMAIN cap
           r(i) == Resto(cap, carga, i)
           s(i) == Inicio(cap, carga, i)
           l(x) == Lugar(g, x)
           novos(i) == {x \in g : s(i) < l(x) /\ l(x) <= s(i) + r(i)}
           nova == AlocarDividido(cap, carga, g)
<1>1. nova = [i \in D |-> carga[i] \cup novos(i)]
  BY DEF AlocarDividido, Inicio
<1>2. /\ Cardinality(g) \in Nat
      /\ \A x \in g : l(x) \in 1 .. Cardinality(g)
      /\ \A x, y \in g : l(x) = l(y) => x = y
  BY Fila DEF Grupo
<1>3. \A i \in D : r(i) \in Nat /\ s(i) \in Nat /\ cap[i] \in Nat
                   /\ Cardinality(carga[i]) \in Nat /\ r(i) = cap[i] - Cardinality(carga[i])
  BY RestoNatural, Inicios DEF Capacidades
<1>4. \A i, j \in D : i = j \/ s(i) + r(i) <= s(j) \/ s(j) + r(j) <= s(i)
  BY Inicios
<1>5. \A k \in Nat : 0 < k /\ k <= Cardinality(Vagas(cap, carga, DOMAIN cap)) =>
          \E i \in D : s(i) < k /\ k <= s(i) + r(i)
  BY Inicios
<1>6. D = DOMAIN cap
  OBVIOUS
<1>7. /\ \A i \in D : IsFiniteSet(carga[i]) /\ carga[i] \cap g = {}
      /\ \A i, j \in D : i = j \/ carga[i] \cap carga[j] = {}
  BY DEF Cabe, Grupo
<1> HIDE DEF D, r, s, l, nova
<1>8. \A i \in D : \A x \in novos(i) : x \in g /\ l(x) \in Nat /\ s(i) < l(x) /\ l(x) <= s(i) + r(i)
  BY <1>2
<1>9. ASSUME NEW i \in D PROVE IsFiniteSet(novos(i)) /\ Cardinality(novos(i)) <= r(i)
  <2> DEFINE N == novos(i)
             m == r(i)
             T == 1 .. m
             f == [x \in N |-> l(x) - s(i)]
  <2>1. m \in Nat /\ s(i) \in Nat
    BY <1>3
  <2>2. f \in [N -> T]
    <3>1. \A x \in N : l(x) - s(i) \in T
      BY <1>8, <2>1
    <3> QED
      BY <3>1
  <2>3. \A x, y \in N : f[x] = f[y] => x = y
    <3> TAKE x, y \in N
    <3>1. l(x) \in Nat /\ l(y) \in Nat /\ x \in g /\ y \in g
      BY <1>8
    <3> HAVE f[x] = f[y]
    <3>2. l(x) - s(i) = l(y) - s(i)
      OBVIOUS
    <3>3. l(x) = l(y)
      BY <2>1, <3>1, <3>2
    <3> QED
      BY <1>2, <3>1, <3>3
  <2>4. f \in Injection(N, T)
    <3> HIDE DEF f, N, T
    <3> QED
      BY <2>2, <2>3 DEF Injection, IsInjective
  <2>5. IsFiniteSet(T) /\ Cardinality(T) = m
    <3> HIDE DEF m
    <3> QED
      BY <2>1, FS_Interval
  <2>6. IsFiniteSet(N) /\ Cardinality(N) <= Cardinality(T)
    <3> HIDE DEF f, N, T
    <3> QED
      BY <2>4, <2>5, FS_Injection
  <2> QED
    BY <2>5, <2>6
<1>10. ASSUME NEW i \in D
       PROVE  IsFiniteSet(carga[i] \cup novos(i)) /\ Cardinality(carga[i] \cup novos(i)) <= cap[i]
  <2> DEFINE N == novos(i)
  <2>1. carga[i] \cap N = {}
    BY <1>7
  <2>2. IsFiniteSet(N) /\ Cardinality(N) <= r(i) /\ IsFiniteSet(carga[i])
    BY <1>7, <1>9
  <2> HIDE DEF N
  <2>3. /\ IsFiniteSet(carga[i] \cup N)
        /\ Cardinality(carga[i] \cup N) = Cardinality(carga[i]) + Cardinality(N) - Cardinality(carga[i] \cap N)
    BY <2>2, FS_Union
  <2>4. Cardinality(carga[i] \cap N) = 0 /\ Cardinality(N) \in Nat
    BY <2>1, <2>2, FS_EmptySet, FS_CardinalityType
  <2>5. Cardinality(carga[i] \cup N) <= cap[i]
    BY <1>3, <2>2, <2>3, <2>4
  <2> QED
    BY <2>3, <2>5 DEF N
<1>11. ASSUME NEW i \in D, NEW j \in D, i # j
       PROVE  (carga[i] \cup novos(i)) \cap (carga[j] \cup novos(j)) = {}
  <2>1. novos(i) \cap novos(j) = {}
    <3> SUFFICES ASSUME NEW x \in novos(i), x \in novos(j) PROVE FALSE
      OBVIOUS
    <3>1. /\ l(x) \in Nat /\ s(i) < l(x) /\ l(x) <= s(i) + r(i)
          /\ s(j) < l(x) /\ l(x) <= s(j) + r(j)
      BY <1>8
    <3>2. s(i) + r(i) <= s(j) \/ s(j) + r(j) <= s(i)
      BY <1>4, <1>11
    <3>3. s(i) \in Nat /\ s(j) \in Nat /\ r(i) \in Nat /\ r(j) \in Nat
      BY <1>3
    <3> QED
      BY <3>1, <3>2, <3>3
  <2> QED
    BY <1>7, <1>11, <2>1
<1>12. Cabe(cap, nova)
  <2>1. DOMAIN nova = D /\ \A i \in D : nova[i] = carga[i] \cup novos(i)
    BY <1>1
  <2> HIDE DEF novos
  <2>2. \A i \in D : IsFiniteSet(nova[i]) /\ Cardinality(nova[i]) <= cap[i]
    BY <1>10, <2>1
  <2>3. \A i, j \in D : i = j \/ nova[i] \cap nova[j] = {}
    BY <1>11, <2>1
  <2> QED
    BY <1>6, <2>1, <2>2, <2>3 DEF Cabe
<1>13. \A i \in D : carga[i] \subseteq nova[i] /\ nova[i] \subseteq carga[i] \cup g
  BY <1>1
<1>14. ASSUME Cardinality(g) <= Cardinality(Vagas(cap, carga, DOMAIN cap)), NEW x \in g
       PROVE  \E i \in D : x \in nova[i]
  <2>1. l(x) \in Nat /\ 0 < l(x) /\ l(x) <= Cardinality(g)
    BY <1>2
  <2>2. l(x) <= Cardinality(Vagas(cap, carga, DOMAIN cap))
    <3>1. Cardinality(Vagas(cap, carga, DOMAIN cap)) \in Nat
      BY MaisUmVeiculo
    <3> QED
      BY <1>2, <1>14, <2>1, <3>1
  <2>3. PICK i \in D : s(i) < l(x) /\ l(x) <= s(i) + r(i)
    BY <1>5, <2>1, <2>2
  <2>4. x \in novos(i)
    BY <2>3
  <2> QED
    BY <1>1, <2>4
<1> QED
  BY <1>6, <1>12, <1>13, <1>14 DEF Aloca, nova

\* Alocar keeps the passengers where they are and seats a group that fits.
LEMMA AlocarAloca ==
    ASSUME NEW cap, Capacidades(cap), NEW carga, Cabe(cap, carga), NEW g, Grupo(carga, g)
    PROVE  Aloca(cap, carga, g, Alocar(cap, carga, g))
<1>1. CASE Inteiro(cap, carga, g) # {}
  BY <1>1, InteiroAloca DEF Alocar
<1>2. CASE Inteiro(cap, carga, g) = {}
  BY <1>2, DivididoAloca DEF Alocar
<1> QED
  BY <1>1, <1>2

\* Reservas of a finite set, each with a destino.
Passageiros(R, dest) ==
    /\ IsFiniteSet(R) /\ \A r \in R : r \in Nat
    /\ \A r \in R : dest[r] \in Nat

LEMMA DestinosEnumera ==
    ASSUME NEW R, NEW dest, Passageiros(R, dest)
    PROVE  Enumera(Destinos(R, dest), {dest[r] : r \in R})
<1> DEFINE n(d) == Cardinality({r \in R : dest[r] = d})
           D == {dest[r] : r \in R}
           m == Cardinality(D)
           Atras(x) == {y \in D : n(y) > n(x) \/ (n(y) = n(x) /\ y < x)}
           A == [x \in D |-> Atras(x)]
           O == Destinos(R, dest)
           f == [r \in R |-> dest[r]]
<1>1. IsFiniteSet(D)
  <2>1. f \in Surjection(R, D)
    BY DEF Surjection
  <2> HIDE DEF f, D
  <2> QED
    BY <2>1, FS_Surjection DEF Passageiros
<1>2. \A d \in D : d \in Nat /\ n(d) \in Nat
  <2> TAKE d \in D
  <2>1. d \in Nat
    BY DEF Passageiros
  <2> DEFINE G == {r \in R : dest[r] = d}
  <2>2. G \in SUBSET R
    OBVIOUS
  <2> HIDE DEF G
  <2>3. Cardinality(G) \in Nat
    BY <2>2, FS_Subset, FS_CardinalityType DEF Passageiros
  <2> QED
    BY <2>1, <2>3 DEF G
<1>3. O = [i \in 1 .. m |-> CHOOSE x \in D : Cardinality(Atras(x)) = i - 1]
  BY DEF Destinos, Ordenar
<1>4. m \in Nat
  <2> HIDE DEF D
  <2> QED
    BY <1>1, FS_CardinalityType
<1> HIDE DEF D, O, n
<1>5. A \in [D -> SUBSET D] /\ \A x, y \in D :
          y \in A[x] <=> (n(y) > n(x) \/ (n(y) = n(x) /\ y < x))
  OBVIOUS
<1>6. \A x \in D : Cardinality(A[x]) = Cardinality(Atras(x))
  OBVIOUS
<1> HIDE DEF A, Atras
<1>7. OrdemEstrita(D, A)
  <2>1. \A x \in D : x \notin A[x]
    BY <1>2, <1>5
  <2>2. ASSUME NEW x \in D, NEW y \in D PROVE x = y \/ x \in A[y] \/ y \in A[x]
    <3>1. x \in Nat /\ y \in Nat /\ n(x) \in Nat /\ n(y) \in Nat
      BY <1>2
    <3>2. \/ x = y
          \/ n(x) > n(y) \/ (n(x) = n(y) /\ x < y)
          \/ n(y) > n(x) \/ (n(y) = n(x) /\ y < x)
      BY <3>1
    <3> QED
      BY <1>5, <3>2
  <2>3. ASSUME NEW x \in D, NEW y \in D, x \in A[y], NEW z \in A[x] PROVE z \in A[y]
    <3>1. z \in D
      BY <1>5
    <3>2. /\ n(z) > n(x) \/ (n(z) = n(x) /\ z < x)
          /\ n(x) > n(y) \/ (n(x) = n(y) /\ x < y)
      BY <1>5, <2>3, <3>1
    <3>3. /\ x \in Nat /\ y \in Nat /\ z \in Nat
          /\ n(x) \in Nat /\ n(y) \in Nat /\ n(z) \in Nat
      BY <1>2, <3>1
    <3>4. n(z) > n(y) \/ (n(z) = n(y) /\ z < y)
      BY <3>2, <3>3
    <3> QED
      BY <1>5, <3>1, <3>4
  <2> QED
    BY <1>5, <2>1, <2>2, <2>3 DEF OrdemEstrita
<1>8. ASSUME NEW i \in 1 .. m PROVE O[i] \in D /\ Cardinality(A[O[i]]) = i - 1
  <2>1. i - 1 \in 0 .. m - 1
    BY <1>4
  <2>2. PICK x \in D : Cardinality(A[x]) = i - 1
    <3>1. \A j \in 0 .. m - 1 : \E x \in D : Cardinality(A[x]) = j
      BY <1>1, <1>7, Postos
    <3> QED
      BY <2>1, <3>1
  <2>3. Cardinality(Atras(x)) = i - 1
    BY <1>6, <2>2
  <2>4. O[i] \in D /\ Cardinality(Atras(O[i])) = i - 1
    BY <1>3, <2>3
  <2> QED
    BY <1>6, <2>4
<1>9. O = [i \in 1 .. m |-> O[i]]
  BY <1>3
<1>10. Enumera(O, D)
  BY <1>1, <1>7, <1>8, <1>9, SequenciaDosPostos
<1> QED
  BY <1>10 DEF O, D

\* The group of a destino.
ComDestino(R, dest, d) == {r \in R : dest[r] = d}

\* f[n] is the distribution after n groups, in the order o.
AosPoucos(f, o, R, dest, cap) ==
    /\ Len(o) \in Nat
    /\ f[0] = [i \in DOMAIN cap |-> {}]
    /\ \A n \in 1 .. Len(o) : f[n] = Alocar(cap, f[n - 1], ComDestino(R, dest, o[n]))

\* What Repartir computes exists: its first value, and every other from the one before.
LEMMA RepartirPassos ==
    ASSUME NEW R, NEW dest, Passageiros(R, dest), NEW cap
    PROVE  AosPoucos(Repartir(R, dest, cap), Destinos(R, dest), R, dest, cap)
<1> DEFINE o == Destinos(R, dest)
           N == Len(o)
           V == [DOMAIN cap -> SUBSET R]
           g(n) == ComDestino(R, dest, o[n])
           a == [i \in DOMAIN cap |-> {}]
           G == [n \in 1 .. N |-> [c \in V |-> Alocar(cap, c, g(n))]]
           Passo(f) == f = [n \in 0 .. N |-> IF n = 0 THEN a ELSE Alocar(cap, f[n - 1], g(n))]
           F == Repartir(R, dest, cap)
<1>1. N \in Nat
  BY DestinosEnumera DEF Enumera
<1>2. F = CHOOSE f : Passo(f)
  BY DEF Repartir, ComDestino
<1> HIDE DEF o, F
<1>3. \A c \in V, n \in 1 .. N : Alocar(cap, c, g(n)) \in V
  <2> TAKE c \in V, n \in 1 .. N
  <2>1. AlocarInteiro(cap, c, g(n)) \in V
    BY DEF AlocarInteiro, ComDestino
  <2>2. AlocarDividido(cap, c, g(n)) \in V
    BY DEF AlocarDividido, ComDestino
  <2> QED
    BY <2>1, <2>2 DEF Alocar
<1>4. G \in [1 .. N -> [V -> V]] /\ a \in V
  BY <1>3
<1>5. PICK f \in [0 .. N -> V] : f[0] = a /\ \A n \in 1 .. N : f[n] = G[n][f[n - 1]]
  <2> HIDE DEF G, V, a, N
  <2>1. PICK f : Recorre(f, N, V, a, G)
    BY <1>1, <1>4, RecursaoFinita
  <2> QED
    BY <2>1 DEF Recorre
<1>6. \A n \in 1 .. N : G[n][f[n - 1]] = Alocar(cap, f[n - 1], g(n))
  <2> TAKE n \in 1 .. N
  <2>1. n - 1 \in 0 .. N
    BY <1>1
  <2>2. f[n - 1] \in V
    BY <1>5, <2>1
  <2> QED
    BY <2>2
<1>7. Passo(f)
  <2> HIDE DEF G, V, a, N, g
  <2>1. \A n \in 0 .. N : n # 0 => n \in 1 .. N
    BY <1>1
  <2>2. \A n \in 0 .. N : f[n] = IF n = 0 THEN a ELSE Alocar(cap, f[n - 1], g(n))
    BY <1>5, <1>6, <2>1
  <2> QED
    BY <1>5, <2>2
<1>8. Passo(F)
  <2> HIDE DEF Passo
  <2> QED
    BY <1>2, <1>7
<1>9. \A n \in 0 .. N : F[n] = IF n = 0 THEN a ELSE Alocar(cap, F[n - 1], g(n))
  <2> HIDE DEF N, a, g
  <2> QED
    BY <1>8
<1>10. F[0] = a /\ \A n \in 1 .. N : F[n] = Alocar(cap, F[n - 1], g(n))
  <2>1. 0 \in 0 .. N /\ \A n \in 1 .. N : n \in 0 .. N /\ n # 0
    BY <1>1
  <2> HIDE DEF N, a, g
  <2> QED
    BY <1>9, <2>1
<1>11. AosPoucos(F, o, R, dest, cap)
  BY <1>1, <1>10 DEF AosPoucos
<1> QED
  BY <1>11 DEF o, F

\* A distribution of R: nobody sits twice, no vehicle is overfull, and if the
\* seats suffice everybody has one.
Reparte(R, cap, D) ==
    /\ D \in [DOMAIN cap -> SUBSET R]
    /\ Cabe(cap, D)
    /\ Cardinality(R) <= Cardinality(Cadeiras(cap)) =>
           \A r \in R : \E i \in DOMAIN cap : r \in D[i]

\* Who has been served after n destinos, in the order o.
Servidos(R, dest, o, n) == {r \in R : \E m \in 1 .. n : dest[r] = o[m]}

\* After n destinos the distribution f[n] holds only who has been served, all of them
\* if there are seats for everybody; the n-th destino is new and was only added.
Etapa(f, o, R, dest, cap, n) ==
    /\ f[n] \in [DOMAIN cap -> SUBSET R] /\ Cabe(cap, f[n])
    /\ Embarcados(f[n]) \subseteq Servidos(R, dest, o, n)
    /\ Cardinality(R) <= Cardinality(Cadeiras(cap)) => Servidos(R, dest, o, n) \subseteq Embarcados(f[n])
    /\ n # 0 =>
          /\ Servidos(R, dest, o, n - 1) \cap ComDestino(R, dest, o[n]) = {}
          /\ Servidos(R, dest, o, n) = Servidos(R, dest, o, n - 1) \cup ComDestino(R, dest, o[n])
          /\ Grupo(f[n - 1], ComDestino(R, dest, o[n]))
          /\ f[n] = Alocar(cap, f[n - 1], ComDestino(R, dest, o[n]))
          /\ Aloca(cap, f[n - 1], ComDestino(R, dest, o[n]), f[n])

LEMMA EtapasDeRepartir ==
    ASSUME NEW R, NEW dest, Passageiros(R, dest), NEW cap, Capacidades(cap)
    PROVE  /\ Len(Destinos(R, dest)) \in Nat
           /\ \A n \in 0 .. Len(Destinos(R, dest)) :
                  Etapa(Repartir(R, dest, cap), Destinos(R, dest), R, dest, cap, n)
           /\ Servidos(R, dest, Destinos(R, dest), Len(Destinos(R, dest))) = R
<1> DEFINE o == Destinos(R, dest)
           N == Len(o)
           f == Repartir(R, dest, cap)
           g(n) == ComDestino(R, dest, o[n])
           S(n) == {r \in R : \E m \in 1 .. n : dest[r] = o[m]}
           cheia == Cardinality(R) <= Cardinality(Cadeiras(cap))
           nova(n) == /\ S(n - 1) \cap g(n) = {} /\ S(n) = S(n - 1) \cup g(n)
                      /\ Grupo(f[n - 1], g(n)) /\ f[n] = Alocar(cap, f[n - 1], g(n))
                      /\ Aloca(cap, f[n - 1], g(n), f[n])
           certa(n) == /\ f[n] \in [DOMAIN cap -> SUBSET R] /\ Cabe(cap, f[n])
                       /\ Embarcados(f[n]) \subseteq S(n)
                       /\ cheia => S(n) \subseteq Embarcados(f[n])
                       /\ n # 0 => nova(n)
           T == {n \in Nat : n <= N => certa(n)}
<1>1. /\ N \in Nat
      /\ f[0] = [i \in DOMAIN cap |-> {}]
      /\ \A n \in 1 .. N : f[n] = Alocar(cap, f[n - 1], g(n))
  <2>1. AosPoucos(f, o, R, dest, cap)
    BY RepartirPassos
  <2> HIDE DEF f, o
  <2> QED
    BY <2>1 DEF AosPoucos
<1>2. /\ \A i, j \in 1 .. N : o[i] = o[j] => i = j
      /\ \A r \in R : \E m \in 1 .. N : o[m] = dest[r]
  <2>1. Enumera(o, {dest[r] : r \in R})
    BY DestinosEnumera
  <2> HIDE DEF o
  <2> QED
    BY <2>1 DEF Enumera
<1>3. IsFiniteSet(R) /\ Cardinality(R) \in Nat /\ \A r \in R : r \in Nat
  BY FS_CardinalityType DEF Passageiros
<1> HIDE DEF o, N, f
<1>4. 0 \in T
  <2>1. Cabe(cap, f[0])
    <3>1. \A i \in DOMAIN cap : IsFiniteSet(f[0][i]) /\ Cardinality(f[0][i]) = 0 /\ f[0][i] = {} /\ cap[i] \in Nat
      BY <1>1, FS_EmptySet DEF Capacidades
    <3> QED
      BY <1>1, <3>1 DEF Cabe
  <2>2. Embarcados(f[0]) = {} /\ S(0) = {} /\ f[0] \in [DOMAIN cap -> SUBSET R]
    BY <1>1 DEF Embarcados
  <2> QED
    BY <2>1, <2>2
<1>5. ASSUME NEW n \in T PROVE n + 1 \in T
  <2> SUFFICES ASSUME n + 1 <= N PROVE certa(n + 1)
    <3>1. n + 1 \in Nat
      OBVIOUS
    <3> QED
      BY <3>1
  <2> DEFINE c == f[n]
             G == g(n + 1)
             d == f[n + 1]
  <2>1. n \in Nat /\ n + 1 \in 1 .. N /\ (n + 1) - 1 = n /\ n <= N
    BY <1>1
  <2>2. /\ c \in [DOMAIN cap -> SUBSET R] /\ Cabe(cap, c)
        /\ Embarcados(c) \subseteq S(n) /\ (cheia => S(n) \subseteq Embarcados(c))
    BY <2>1
  <2>3. d = Alocar(cap, c, G)
    BY <1>1, <2>1
  <2>4. S(n) \cap G = {} /\ S(n + 1) = S(n) \cup G
    <3>1. \A m \in 1 .. n : m \in 1 .. N /\ m # n + 1
      BY <1>1, <2>1
    <3>2. S(n) \cap G = {}
      BY <1>2, <2>1, <3>1 DEF ComDestino
    <3>3. \A m : m \in 1 .. (n + 1) <=> m \in 1 .. n \/ m = n + 1
      BY <2>1
    <3> QED
      BY <3>2, <3>3 DEF ComDestino
  <2>5. IsFiniteSet(S(n)) /\ IsFiniteSet(G) /\ IsFiniteSet(Embarcados(c)) /\ Embarcados(c) \subseteq R
    <3>1. S(n) \in SUBSET R /\ G \in SUBSET R /\ Embarcados(c) \in SUBSET R
      BY <2>2 DEF ComDestino
    <3> HIDE DEF S, G, c
    <3> QED
      BY <1>3, <3>1, FS_Subset
  <2>6. Grupo(c, G)
    <3>1. \A i \in DOMAIN c : c[i] \cap G = {}
      BY <2>2, <2>4 DEF Embarcados
    <3>2. \A r \in G : r \in Nat
      BY <1>3 DEF ComDestino
    <3> QED
      BY <2>5, <3>1, <3>2 DEF Grupo
  <2>7. Aloca(cap, c, G, d)
    <3> HIDE DEF c, G, d
    <3> QED
      BY <2>2, <2>3, <2>6, AlocarAloca
  <2>8. /\ Cabe(cap, d) /\ DOMAIN d = DOMAIN cap
        /\ \A i \in DOMAIN cap : c[i] \subseteq d[i] /\ d[i] \subseteq c[i] \cup G
        /\ Cardinality(G) <= Cardinality(Vagas(cap, c, DOMAIN cap)) =>
              \A r \in G : \E i \in DOMAIN cap : r \in d[i]
    BY <2>7 DEF Aloca, Cabe
  <2>9. d \in [DOMAIN cap -> SUBSET R]
    <3>1. \A e \in [DOMAIN cap -> SUBSET R], h \in SUBSET R : Alocar(cap, e, h) \in [DOMAIN cap -> SUBSET R]
      BY DEF Alocar, AlocarInteiro, AlocarDividido
    <3>2. G \in SUBSET R
      BY DEF ComDestino
    <3> HIDE DEF c, G, d
    <3> QED
      BY <2>2, <2>3, <3>1, <3>2
  <2>10. DOMAIN c = DOMAIN cap
    BY <2>2
  <2>11. Embarcados(d) \subseteq S(n + 1)
    <3> HIDE DEF c, d, G, S
    <3> QED
      BY <2>2, <2>4, <2>8, <2>10 DEF Embarcados
  <2>12. ASSUME cheia PROVE S(n + 1) \subseteq Embarcados(d)
    <3>1. S(n) = Embarcados(c)
      BY <2>2, <2>12
    <3>2. Cardinality(S(n)) + Cardinality(G) <= Cardinality(R)
      <4> DEFINE A == S(n)
      <4>1. A \cap G = {} /\ A \cup G \in SUBSET R /\ IsFiniteSet(A) /\ IsFiniteSet(G)
        BY <2>4, <2>5 DEF ComDestino
      <4> HIDE DEF A, G
      <4>2. Cardinality(A \cup G) = Cardinality(A) + Cardinality(G) - Cardinality(A \cap G)
        BY <4>1, FS_Union
      <4>3. Cardinality(A \cap G) = 0 /\ Cardinality(A) \in Nat /\ Cardinality(G) \in Nat
        BY <4>1, FS_EmptySet, FS_CardinalityType
      <4>4. Cardinality(A \cup G) <= Cardinality(R)
        BY <1>3, <4>1, FS_Subset
      <4> QED
        BY <4>2, <4>3, <4>4 DEF A
    <3>3. /\ Cardinality(Cadeiras(cap)) \in Nat
          /\ Cardinality(Cadeiras(cap))
                <= Cardinality(Vagas(cap, c, DOMAIN cap)) + Cardinality(Embarcados(c))
      <4> HIDE DEF c
      <4> QED
        BY <2>2, <2>5, VagasEOcupadas
    <3>4. Cardinality(Vagas(cap, c, DOMAIN cap)) \in Nat
      <4> HIDE DEF c
      <4> QED
        BY <2>2, MaisUmVeiculo
    <3>5. Cardinality(S(n)) \in Nat /\ Cardinality(G) \in Nat
      <4> HIDE DEF S, G
      <4> QED
        BY <2>5, FS_CardinalityType
    <3>6. Cardinality(G) <= Cardinality(Vagas(cap, c, DOMAIN cap))
      <4> DEFINE w == Cardinality(Vagas(cap, c, DOMAIN cap))
                 s == Cardinality(S(n))
                 k == Cardinality(G)
                 z == Cardinality(Cadeiras(cap))
      <4>1. s + k <= Cardinality(R) /\ z <= w + s /\ Cardinality(R) <= z
        BY <2>12, <3>1, <3>2, <3>3
      <4>2. w \in Nat /\ s \in Nat /\ k \in Nat /\ z \in Nat
        BY <3>3, <3>4, <3>5
      <4> HIDE DEF w, s, k, z
      <4>3. k <= w
        BY <1>3, <4>1, <4>2
      <4> QED
        BY <4>3 DEF w, k
    <3>7. \A r \in G : \E i \in DOMAIN cap : r \in d[i]
      BY <2>8, <3>6
    <3> HIDE DEF c, d, G, S
    <3> QED
      BY <2>4, <2>8, <2>10, <3>1, <3>7 DEF Embarcados
  <2>13. nova(n + 1)
    <3> HIDE DEF S, g
    <3> QED
      BY <2>1, <2>3, <2>4, <2>6, <2>7
  <2> QED
    BY <2>8, <2>9, <2>11, <2>12, <2>13
<1>6. T = Nat
  <2> HIDE DEF T
  <2>1. T \in SUBSET Nat
    BY DEF T
  <2> QED
    BY <1>4, <1>5, <2>1, InducaoNatural
<1>7. \A n \in 0 .. N : certa(n)
  BY <1>1, <1>6
<1>8. S(N) = R
  BY <1>2
<1> QED
  BY <1>1, <1>7, <1>8 DEF Etapa, Servidos, f, N, o

\* Distribuir is one, whatever the vehicles and the destinos are.
THEOREM DistribuirReparte ==
    ASSUME NEW R, NEW dest, Passageiros(R, dest), NEW cap, Capacidades(cap)
    PROVE  Reparte(R, cap, Distribuir(R, dest, cap))
<1> DEFINE o == Destinos(R, dest)
           N == Len(o)
           f == Repartir(R, dest, cap)
<1>1. N \in Nat /\ Etapa(f, o, R, dest, cap, N) /\ Servidos(R, dest, o, N) = R
  BY EtapasDeRepartir
<1>2. Distribuir(R, dest, cap) = f[N]
  BY DEF Distribuir
<1> HIDE DEF o, N, f
<1>3. /\ f[N] \in [DOMAIN cap -> SUBSET R] /\ Cabe(cap, f[N])
      /\ Cardinality(R) <= Cardinality(Cadeiras(cap)) => R \subseteq Embarcados(f[N])
  BY <1>1 DEF Etapa
<1>4. R \subseteq Embarcados(f[N]) => \A r \in R : \E i \in DOMAIN cap : r \in f[N][i]
  BY <1>3 DEF Embarcados
<1> QED
  BY <1>2, <1>3, <1>4 DEF Reparte

-----------------------------------------------------------------------------
(* Seats of a selection *)

LEMMA UniaoDisjunta ==
    ASSUME NEW S, IsFiniteSet(S), NEW T, IsFiniteSet(T), S \cap T = {}
    PROVE  /\ IsFiniteSet(S \cup T) /\ Cardinality(S) \in Nat /\ Cardinality(T) \in Nat
           /\ Cardinality(S \cup T) = Cardinality(S) + Cardinality(T)
<1>1. IsFiniteSet(S \cup T) /\ Cardinality(S \cup T) = Cardinality(S) + Cardinality(T) - Cardinality(S \cap T)
  BY FS_Union
<1>2. Cardinality(S \cap T) = 0 /\ Cardinality(S) \in Nat /\ Cardinality(T) \in Nat
  BY FS_EmptySet, FS_CardinalityType
<1> QED
  BY <1>1, <1>2

LEMMA Retangulo ==
    ASSUME NEW a, a \in Nat, NEW b, b \in Nat, NEW m, m \in Nat
    PROVE  /\ IsFiniteSet((a + 1 .. a + b) \X (1 .. m))
           /\ Cardinality((a + 1 .. a + b) \X (1 .. m)) = b * m
<1>1. IsFiniteSet(a + 1 .. a + b) /\ Cardinality(a + 1 .. a + b) = b
  <2>1. a + 1 \in Int /\ a + b \in Int
    OBVIOUS
  <2>2. /\ IsFiniteSet(a + 1 .. a + b)
        /\ Cardinality(a + 1 .. a + b) = IF a + 1 > a + b THEN 0 ELSE (a + b) - (a + 1) + 1
    BY <2>1, FS_Interval
  <2> QED
    BY <2>2
<1>2. IsFiniteSet(1 .. m) /\ Cardinality(1 .. m) = m
  BY FS_Interval
<1> DEFINE X == a + 1 .. a + b
           Y == 1 .. m
<1>3. IsFiniteSet(X) /\ IsFiniteSet(Y) /\ Cardinality(X) = b /\ Cardinality(Y) = m
  BY <1>1, <1>2
<1>4. IsFiniteSet(X \X Y) /\ Cardinality(X \X Y) = b * m
  <2> HIDE DEF X, Y
  <2>1. IsFiniteSet(X \X Y) /\ Cardinality(X \X Y) = Cardinality(X) * Cardinality(Y)
    BY <1>3, FS_Product
  <2> QED
    BY <1>3, <2>1
<1> QED
  BY <1>4

LEMMA CadeirasFinitas ==
    ASSUME NEW cap, Capacidades(cap)
    PROVE  IsFiniteSet(Cadeiras(cap)) /\ Cardinality(Cadeiras(cap)) \in Nat
<1> DEFINE c == [i \in DOMAIN cap |-> {}]
<1>1. Cabe(cap, c) /\ Embarcados(c) = {}
  <2>1. DOMAIN c = DOMAIN cap /\ \A i \in DOMAIN cap : c[i] = {}
    OBVIOUS
  <2>2. IsFiniteSet({}) /\ Cardinality({}) = 0
    BY FS_EmptySet
  <2> HIDE DEF c
  <2>3. \A i \in DOMAIN cap : IsFiniteSet(c[i]) /\ Cardinality(c[i]) <= cap[i]
    BY <2>1, <2>2 DEF Capacidades
  <2>4. \A i, j \in DOMAIN cap : c[i] \cap c[j] = {}
    BY <2>1
  <2>5. Embarcados(c) = {}
    BY <2>1 DEF Embarcados
  <2> QED
    BY <2>1, <2>3, <2>4, <2>5 DEF Cabe
<1>2. IsFiniteSet(Embarcados(c))
  BY <1>1, FS_EmptySet
<1> QED
  BY <1>1, <1>2, VagasEOcupadas

\* The seats of the selected vehicles are no fewer than those of the plan.
LEMMA CadeirasDaSelecao ==
    ASSUME NEW l, Categorias(l), l.carro <= l.escolar, l.escolar <= l.executivo,
           NEW F, IsFiniteSet(F), \A v \in F : v \in Nat, NEW cat,
           NEW p \in [executivo : Nat, escolar : Nat, carro : Nat],
           Selecionar(p, F, cat) # <<>>,
           NEW cap, cap = [j \in DOMAIN Selecionar(p, F, cat) |-> l[cat[Selecionar(p, F, cat)[j]]]]
    PROVE  /\ Capacidades(cap) /\ Cardinality(Cadeiras(cap)) \in Nat
           /\ Assentos(l, p) <= Cardinality(Cadeiras(cap))
<1> DEFINE V == Selecionar(p, F, cat)
           a == p.executivo
           b == p.escolar
           c == p.carro
           n == Len(V)
           A == (0 + 1 .. 0 + a) \X (1 .. l.executivo)
           B == (a + 1 .. a + b) \X (1 .. l.escolar)
           C == ((a + b) + 1 .. (a + b) + c) \X (1 .. l.carro)
<1>1. /\ V \in Seq(F) /\ n = a + b + c
      /\ \A i \in 1 .. a : cat[V[i]] = "executivo"
      /\ \A i \in a + 1 .. a + b : cat[V[i]] \in {"executivo", "escolar"}
      /\ \A i \in a + b + 1 .. n : cat[V[i]] \in Categoria
  <2>1. /\ V \in Seq(F) /\ Distinta(V) /\ Len(V) = Veiculos(p)
        /\ \A i \in 1 .. p.executivo : cat[V[i]] = "executivo"
        /\ \A i \in p.executivo + 1 .. p.executivo + p.escolar : cat[V[i]] \in {"executivo", "escolar"}
        /\ \A i \in p.executivo + p.escolar + 1 .. Len(V) : cat[V[i]] \in Categoria
    BY SelecionarEscolhe
  <2> QED
    BY <2>1 DEF Veiculos
<1>2. a \in Nat /\ b \in Nat /\ c \in Nat
  OBVIOUS
<1>3. /\ l.executivo \in Nat /\ l.escolar \in Nat /\ l.carro \in Nat
      /\ l["executivo"] = l.executivo /\ l["escolar"] = l.escolar /\ l["carro"] = l.carro
      /\ l.carro <= l.escolar /\ l.escolar <= l.executivo
  BY DEF Categorias, Categoria
<1>4. cap = [j \in DOMAIN V |-> l[cat[V[j]]]]
  OBVIOUS
<1> HIDE DEF V, a, b, c, n
<1>5. DOMAIN cap = 1 .. n /\ n \in Nat /\ \A j \in 1 .. n : cap[j] = l[cat[V[j]]]
  BY <1>1, <1>2, <1>4 DEF n
<1>6. /\ \A j \in 1 .. a : j \in 1 .. n /\ cap[j] = l.executivo
      /\ \A j \in a + 1 .. a + b : j \in 1 .. n /\ cap[j] \in Nat /\ cap[j] >= l.escolar
      /\ \A j \in (a + b) + 1 .. (a + b) + c : j \in 1 .. n /\ cap[j] \in Nat /\ cap[j] >= l.carro
  <2>1. \A j \in 1 .. a : j \in 1 .. n /\ cap[j] = l.executivo
    BY <1>1, <1>2, <1>3, <1>5
  <2>2. \A j \in a + 1 .. a + b : j \in 1 .. n /\ cap[j] \in Nat /\ cap[j] >= l.escolar
    <3> TAKE j \in a + 1 .. a + b
    <3>1. j \in 1 .. n
      BY <1>1, <1>2
    <3>2. cap[j] = l.executivo \/ cap[j] = l.escolar
      BY <1>1, <1>3, <1>5, <3>1
    <3> QED
      BY <1>3, <3>1, <3>2
  <2>3. \A j \in (a + b) + 1 .. (a + b) + c : j \in 1 .. n /\ cap[j] \in Nat /\ cap[j] >= l.carro
    <3> TAKE j \in (a + b) + 1 .. (a + b) + c
    <3>1. j \in 1 .. n /\ j \in a + b + 1 .. n
      BY <1>1, <1>2
    <3>2. cap[j] = l.executivo \/ cap[j] = l.escolar \/ cap[j] = l.carro
      BY <1>1, <1>3, <1>5, <3>1 DEF Categoria
    <3> QED
      BY <1>3, <3>1, <3>2
  <2> QED
    BY <2>1, <2>2, <2>3
<1>7. \A j \in 1 .. n : j \in 1 .. a \/ j \in a + 1 .. a + b \/ j \in (a + b) + 1 .. (a + b) + c
  BY <1>1, <1>2
<1>8. Capacidades(cap)
  <2>1. \A j \in 1 .. n : j \in Nat /\ cap[j] \in Nat
    <3> TAKE j \in 1 .. n
    <3>1. cap[j] \in Nat
      BY <1>3, <1>6, <1>7
    <3> QED
      BY <1>5, <3>1
  <2>2. IsFiniteSet(1 .. n)
    BY <1>5, FS_Interval
  <2> QED
    BY <1>5, <2>1, <2>2 DEF Capacidades
<1>9. IsFiniteSet(Cadeiras(cap)) /\ Cardinality(Cadeiras(cap)) \in Nat
  BY <1>8, CadeirasFinitas
<1>10. A \cup B \cup C \subseteq Cadeiras(cap)
  <2>1. \A x \in 1 .. n, y \in Nat : 1 <= y /\ y <= cap[x] => <<x, y>> \in Cadeiras(cap)
    <3> TAKE x \in 1 .. n, y \in Nat
    <3> HAVE 1 <= y /\ y <= cap[x]
    <3>1. cap[x] \in Nat
      BY <1>5, <1>8 DEF Capacidades
    <3>2. <<x, y>> \in {x} \X (1 .. cap[x])
      BY <3>1
    <3> QED
      BY <1>5, <3>2 DEF Cadeiras
  <2>2. \A z \in A : z \in Cadeiras(cap)
    <3> TAKE z \in A
    <3>1. PICK x \in 1 .. a, y \in 1 .. l.executivo : z = <<x, y>>
      BY <1>2
    <3>3. x \in 1 .. n /\ cap[x] = l.executivo
      BY <1>6
    <3>2. x \in 1 .. n /\ y \in Nat /\ 1 <= y /\ y <= cap[x]
      BY <1>3, <3>3
    <3> QED
      BY <2>1, <3>1, <3>2
  <2>3. \A z \in B : z \in Cadeiras(cap)
    <3> TAKE z \in B
    <3>1. PICK x \in a + 1 .. a + b, y \in 1 .. l.escolar : z = <<x, y>>
      OBVIOUS
    <3>3. x \in 1 .. n /\ cap[x] \in Nat /\ cap[x] >= l.escolar
      BY <1>6
    <3>2. x \in 1 .. n /\ y \in Nat /\ 1 <= y /\ y <= cap[x]
      BY <1>3, <3>3
    <3> QED
      BY <2>1, <3>1, <3>2
  <2>4. \A z \in C : z \in Cadeiras(cap)
    <3> TAKE z \in C
    <3>1. PICK x \in (a + b) + 1 .. (a + b) + c, y \in 1 .. l.carro : z = <<x, y>>
      OBVIOUS
    <3>3. x \in 1 .. n /\ cap[x] \in Nat /\ cap[x] >= l.carro
      BY <1>6
    <3>2. x \in 1 .. n /\ y \in Nat /\ 1 <= y /\ y <= cap[x]
      BY <1>3, <3>3
    <3> QED
      BY <2>1, <3>1, <3>2
  <2> QED
    BY <2>2, <2>3, <2>4
<1>11. /\ IsFiniteSet(A) /\ Cardinality(A) = a * l.executivo
       /\ IsFiniteSet(B) /\ Cardinality(B) = b * l.escolar
       /\ IsFiniteSet(C) /\ Cardinality(C) = c * l.carro
  <2>1. 0 \in Nat /\ a + b \in Nat
    BY <1>2
  <2>2. IsFiniteSet(A) /\ Cardinality(A) = a * l.executivo
    BY <1>2, <1>3, <2>1, Retangulo
  <2>3. IsFiniteSet(B) /\ Cardinality(B) = b * l.escolar
    BY <1>2, <1>3, Retangulo
  <2>4. IsFiniteSet(C) /\ Cardinality(C) = c * l.carro
    BY <1>2, <1>3, <2>1, Retangulo
  <2> QED
    BY <2>2, <2>3, <2>4
<1>12. A \cap B = {} /\ (A \cup B) \cap C = {}
  BY <1>2
<1> HIDE DEF A, B, C
<1>13. IsFiniteSet(A \cup B) /\ Cardinality(A \cup B) = a * l.executivo + b * l.escolar
  BY <1>11, <1>12, UniaoDisjunta
<1>14. Cardinality((A \cup B) \cup C) = (a * l.executivo + b * l.escolar) + c * l.carro
  <2>1. Cardinality((A \cup B) \cup C) = Cardinality(A \cup B) + Cardinality(C)
    <3> DEFINE T == A \cup B
    <3>1. IsFiniteSet(T) /\ T \cap C = {}
      BY <1>12, <1>13
    <3> HIDE DEF T
    <3>2. Cardinality(T \cup C) = Cardinality(T) + Cardinality(C)
      BY <1>11, <3>1, UniaoDisjunta
    <3> QED
      BY <3>2 DEF T
  <2> QED
    BY <1>11, <1>13, <2>1
<1>15. Cardinality((A \cup B) \cup C) <= Cardinality(Cadeiras(cap))
  BY <1>9, <1>10, FS_Subset
<1>16. Assentos(l, p) = (a * l.executivo + b * l.escolar) + c * l.carro
  BY <1>3 DEF Assentos, a, b, c
<1> QED
  BY <1>8, <1>9, <1>14, <1>15, <1>16

-----------------------------------------------------------------------------
(* Counting part by part *)

Parte(S, f, c) == {x \in S : f[x] = c}

LEMMA HaInjecao ==
    ASSUME NEW A, IsFiniteSet(A), NEW B, IsFiniteSet(B), Cardinality(A) <= Cardinality(B)
    PROVE  Injection(A, B) # {}
<1> DEFINE a == Cardinality(A)
           b == Cardinality(B)
<1>1. a \in Nat /\ b \in Nat /\ a <= b /\ ExistsBijection(1 .. b, B)
  BY FS_CardinalityType
<1>2. PICK g : g \in Bijection(1 .. b, B)
  BY <1>1 DEF ExistsBijection
<1>3. ExistsBijection(A, 1 .. a)
  <2>1. IsFiniteSet(1 .. a) /\ Cardinality(1 .. a) = a
    BY <1>1, FS_Interval
  <2> QED
    BY <2>1, FS_SameCardinalityBij
<1>4. PICK h : h \in Bijection(A, 1 .. a)
  BY <1>3 DEF ExistsBijection
<1> HIDE DEF a, b
<1>5. /\ h \in [A -> 1 .. a] /\ \A x, y \in A : h[x] = h[y] => x = y
      /\ g \in [1 .. b -> B] /\ \A x, y \in 1 .. b : g[x] = g[y] => x = y
  BY <1>2, <1>4 DEF Bijection, Injection, IsInjective
<1> DEFINE f == [x \in A |-> g[h[x]]]
<1>6. \A x \in A : h[x] \in 1 .. b
  BY <1>1, <1>5
<1>7. f \in [A -> B] /\ \A x, y \in A : f[x] = f[y] => x = y
  BY <1>5, <1>6
<1>8. f \in Injection(A, B)
  BY <1>7 DEF Injection, IsInjective
<1> QED
  BY <1>8

\* If no part of S has more elements than the part of T with the same label, S has no
\* more elements than T.
LEMMA PartePorParte ==
    ASSUME NEW S, IsFiniteSet(S), NEW T, IsFiniteSet(T), NEW f, NEW g,
           \A x \in S : Cardinality(Parte(S, f, f[x])) <= Cardinality(Parte(T, g, f[x]))
    PROVE  Cardinality(S) <= Cardinality(T)
<1> DEFINE C    == {f[x] : x \in S}
           h(c) == CHOOSE i : i \in Injection(Parte(S, f, c), Parte(T, g, c))
           F    == [x \in S |-> h(f[x])[x]]
<1>1. ASSUME NEW c \in C PROVE h(c) \in Injection(Parte(S, f, c), Parte(T, g, c))
  <2>1. PICK x \in S : f[x] = c
    OBVIOUS
  <2>2. Cardinality(Parte(S, f, c)) <= Cardinality(Parte(T, g, c))
    BY <2>1
  <2>3. Parte(S, f, c) \subseteq S /\ Parte(T, g, c) \subseteq T
    BY DEF Parte
  <2>4. IsFiniteSet(Parte(S, f, c)) /\ IsFiniteSet(Parte(T, g, c))
    BY <2>3, FS_Subset
  <2>5. Injection(Parte(S, f, c), Parte(T, g, c)) # {}
    BY <2>2, <2>4, HaInjecao
  <2> QED
    BY <2>5
<1>2. ASSUME NEW c \in C
      PROVE  /\ h(c) \in [Parte(S, f, c) -> Parte(T, g, c)]
             /\ \A x, y \in Parte(S, f, c) : h(c)[x] = h(c)[y] => x = y
  BY <1>1 DEF Injection, IsInjective
<1>3. \A x \in S : x \in Parte(S, f, f[x]) /\ f[x] \in C
  BY DEF Parte
<1> HIDE DEF h, C
<1>4. \A x \in S : F[x] \in Parte(T, g, f[x])
  BY <1>2, <1>3
<1>5. \A x \in S : F[x] \in T /\ g[F[x]] = f[x]
  BY <1>4 DEF Parte
<1>6. ASSUME NEW x \in S, NEW y \in S, F[x] = F[y] PROVE x = y
  <2>1. f[x] = f[y]
    BY <1>5, <1>6
  <2>2. x \in Parte(S, f, f[x]) /\ y \in Parte(S, f, f[x]) /\ f[x] \in C
    BY <1>3, <2>1
  <2>3. h(f[x])[x] = h(f[x])[y]
    BY <1>6, <2>1
  <2> QED
    BY <1>2, <2>2, <2>3
<1>7. F \in [S -> T]
  BY <1>5
<1>8. F \in Injection(S, T)
  <2> HIDE DEF F
  <2> QED
    BY <1>6, <1>7 DEF Injection, IsInjective
<1> QED
  BY <1>8, FS_Injection

-----------------------------------------------------------------------------
(* The allocation of every number of passengers over every fleet *)

LEMMA LugaresDasCategorias ==
    /\ Categorias(LugaresReais)
    /\ LugaresReais.executivo = 46 /\ LugaresReais.escolar = 24 /\ LugaresReais.carro = 7
  BY DEF Categorias, LugaresReais, Categoria

\* The plan of alocacao.go seats everybody in the fewest vehicles.
LEMMA PlanosSaoMinimos == PlanoMinimo
<1> DEFINE l == LugaresReais
<1> SUFFICES ASSUME NEW q \in 1 .. MaxAlunos
             PROVE  /\ Assentos(l, PlanejarCategorias(l, q)) >= q
                    /\ Veiculos(PlanejarCategorias(l, q)) = (q + 46 - 1) \div 46
  BY LugaresDasCategorias DEF PlanoMinimo
<1> DEFINE p == PlanejarCategorias(l, q)
           n == (q + 46 - 1) \div 46
           o == [executivo |-> n, escolar |-> 0, carro |-> 0]
<1>1. q \in Nat /\ q > 0
  BY FrotaAssumption
<1>2. Categorias(l) /\ l.executivo = 46 /\ l.escolar = 24 /\ l.carro = 7
  BY LugaresDasCategorias
<1> HIDE DEF l
<1>3. p \in Planos(l, q) /\ \A x \in Planos(l, q) : Veiculos(p) <= Veiculos(x)
  BY <1>1, <1>2, PlanoDasCategorias
<1>4. /\ p \in [executivo : Nat, escolar : Nat, carro : Nat]
      /\ Veiculos(p) \in Nat /\ Assentos(l, p) >= q
  BY <1>1, <1>2, <1>3, TipoDosPlanos
<1>5. /\ n \in Nat /\ n > 0 /\ n * 46 >= q /\ (n - 1) * 46 < q
      /\ q \div 46 \in Nat /\ n <= q \div 46 + 2
      /\ q \div 24 \in Nat /\ q \div 7 \in Nat
  BY <1>1
<1>6. o \in Planos(l, q)
  <2> HIDE DEF n
  <2>1. Veiculos(o) > 0
    BY <1>5 DEF Veiculos
  <2>2. Assentos(l, o) >= q
    BY <1>2, <1>5 DEF Assentos
  <2>3. o \in [executivo : 0 .. (q \div 46) + 2, escolar : 0 .. (q \div 24) + 2,
               carro : 0 .. (q \div 7) + 2]
    BY <1>5
  <2> QED
    BY <1>2, <2>1, <2>2, <2>3 DEF Planos
<1>7. Veiculos(p) <= n
  <2>1. Veiculos(o) = n
    BY <1>5 DEF Veiculos
  <2> QED
    BY <1>3, <1>6, <2>1
<1>8. Veiculos(p) >= n
  <2> HIDE DEF p, n
  <2>1. PICK a \in Nat, b \in Nat, c \in Nat : a = p.executivo /\ b = p.escolar /\ c = p.carro
    BY <1>4
  <2>2. a * 46 + b * 24 + c * 7 >= q
    BY <1>2, <1>4, <2>1 DEF Assentos
  <2>3. Veiculos(p) = a + b + c
    BY <2>1 DEF Veiculos
  <2>4. (a + b + c) * 46 >= q
    BY <1>1, <2>2
  <2> QED
    BY <1>1, <1>5, <2>3, <2>4
<1> QED
  BY <1>4, <1>5, <1>7, <1>8

\* A sequence without repetition has as many elements as places.
LEMMA ElementosDistintos ==
    ASSUME NEW F, IsFiniteSet(F), NEW V \in Seq(F), Distinta(V)
    PROVE  /\ Len(V) \in Nat /\ Range(V) \subseteq F
           /\ IsFiniteSet(Range(V)) /\ Cardinality(Range(V)) = Len(V)
<1>1. Len(V) \in Nat /\ DOMAIN V = 1 .. Len(V) /\ V \in [1 .. Len(V) -> F]
  OBVIOUS
<1>2. Range(V) \subseteq F
  BY <1>1 DEF Range
<1>3. V \in Bijection(1 .. Len(V), Range(V))
  <2>1. V \in [1 .. Len(V) -> Range(V)] /\ \A y \in Range(V) : \E i \in 1 .. Len(V) : V[i] = y
    BY <1>1 DEF Range
  <2> QED
    BY <2>1 DEF Bijection, Injection, Surjection, IsInjective, Distinta
<1>4. IsFiniteSet(1 .. Len(V)) /\ Cardinality(1 .. Len(V)) = Len(V)
  BY <1>1, FS_Interval
<1>5. IsFiniteSet(Range(V)) /\ Cardinality(Range(V)) = Cardinality(1 .. Len(V))
  BY <1>3, <1>4, FS_Bijection DEF ExistsBijection
<1> QED
  BY <1>1, <1>2, <1>4, <1>5

\* How many vehicles of F are of a category of C.
Quantos(F, cat, C) == Cardinality({v \in F : cat[v] \in C})

\* Who may still be taken for c, when V were: those of the categories of c, less V.
LEMMA CandidatosRestantes ==
    ASSUME NEW F, IsFiniteSet(F), NEW cat, NEW V \in Seq(F), Distinta(V), NEW c, NEW C,
           Range(Fallback(c)) = C, \A i \in 1 .. Len(V) : cat[V[i]] \in C
    PROVE  /\ Quantos(F, cat, C) \in Nat /\ Len(V) \in Nat /\ Len(V) <= Quantos(F, cat, C)
           /\ Cardinality(Candidatos(V, c, F, cat)) = Quantos(F, cat, C) - Len(V)
<1> DEFINE T == {v \in F : cat[v] \in C}
           D == Candidatos(V, c, F, cat)
<1>1. IsFiniteSet(T)
  BY FS_Subset
<1>2. /\ Len(V) \in Nat /\ IsFiniteSet(Range(V)) /\ Cardinality(Range(V)) = Len(V)
      /\ Range(V) \subseteq F
  BY ElementosDistintos
<1>3. Range(V) \subseteq T
  <2>1. \A x \in Range(V) : \E i \in 1 .. Len(V) : V[i] = x
    BY DEF Range
  <2> QED
    BY <1>2, <2>1
<1>4. D = T \ Range(V)
  BY DEF Candidatos, DeCategorias
<1>5. IsFiniteSet(D)
  BY <1>1, <1>4, FS_Subset
<1>6. D \cup Range(V) = T /\ D \cap Range(V) = {}
  BY <1>3, <1>4
<1> HIDE DEF D, T
<1>7. /\ Cardinality(D) \in Nat /\ Cardinality(D \cup Range(V)) = Cardinality(D) + Cardinality(Range(V))
  BY <1>2, <1>5, <1>6, UniaoDisjunta
<1>8. Cardinality(T) = Cardinality(D) + Len(V)
  BY <1>2, <1>6, <1>7
<1>9. Cardinality(T) \in Nat /\ Len(V) <= Cardinality(T) /\ Cardinality(D) = Cardinality(T) - Len(V)
  BY <1>2, <1>7, <1>8
<1> QED
  BY <1>2, <1>9 DEF D, T, Quantos

\* There are enough vehicles at least as large as those of the plan.
Viavel(p, F, cat) ==
    /\ p.executivo <= Quantos(F, cat, {"executivo"})
    /\ p.executivo + p.escolar <= Quantos(F, cat, {"executivo", "escolar"})
    /\ Veiculos(p) <= Quantos(F, cat, Categoria)

LEMMA QuantosCrescem ==
    ASSUME NEW F, IsFiniteSet(F), NEW cat, NEW B, NEW C, B \subseteq C
    PROVE  /\ Quantos(F, cat, B) \in Nat /\ Quantos(F, cat, C) \in Nat
           /\ Quantos(F, cat, B) <= Quantos(F, cat, C)
<1> DEFINE S == {v \in F : cat[v] \in B}
           T == {v \in F : cat[v] \in C}
<1>1. IsFiniteSet(T) /\ S \subseteq T /\ IsFiniteSet(S)
  BY FS_Subset
<1>2. Cardinality(S) \in Nat /\ Cardinality(T) \in Nat /\ Cardinality(S) <= Cardinality(T)
  BY <1>1, FS_Subset, FS_CardinalityType
<1> QED
  BY <1>2 DEF Quantos

\* The greedy selection finds vehicles exactly when some assignment does.
LEMMA SelecionarQuando ==
    ASSUME NEW F, IsFiniteSet(F), \A v \in F : v \in Nat, NEW cat,
           NEW p \in [executivo : Nat, escolar : Nat, carro : Nat], Veiculos(p) > 0
    PROVE  Selecionar(p, F, cat) # <<>> <=> Viavel(p, F, cat)
<1> DEFINE E == Acrescentar(<<>>, "executivo", p.executivo, F, cat)
           S == Acrescentar(E, "escolar", p.escolar, F, cat)
           V == Acrescentar(S, "carro", p.carro, F, cat)
           e == {"executivo"}
           ee == {"executivo", "escolar"}
<1>1. Selecionar(p, F, cat) = IF Len(V) = Veiculos(p) THEN V ELSE <<>>
  BY DEF Selecionar
<1>2. <<>> \in Seq(F) /\ Distinta(<<>>) /\ Len(<<>>) = 0
  BY DEF Distinta
<1>3. "executivo" \in Categoria /\ "escolar" \in Categoria /\ "carro" \in Categoria
  BY DEF Categoria
<1>4. /\ p.executivo \in Nat /\ p.escolar \in Nat /\ p.carro \in Nat
      /\ Veiculos(p) = p.executivo + p.escolar + p.carro
  BY DEF Veiculos
<1>5. /\ Range(Fallback("executivo")) = e /\ Range(Fallback("escolar")) = ee
      /\ Range(Fallback("carro")) = Categoria /\ e \subseteq ee /\ ee \subseteq Categoria
  BY <1>3, TiposDoFallback
<1> HIDE DEF e, ee
<1>6. Acrescentada(E, <<>>, "executivo", p.executivo, F, cat)
  BY <1>2, <1>3, <1>4, AcrescentarDistintas
<1>7. Cardinality(Candidatos(<<>>, "executivo", F, cat)) = Quantos(F, cat, e) /\ Quantos(F, cat, e) \in Nat
  <2>1. \A i \in 1 .. Len(<<>>) : cat[<<>>[i]] \in e
    BY <1>2
  <2>2. /\ Cardinality(Candidatos(<<>>, "executivo", F, cat)) = Quantos(F, cat, e) - Len(<<>>)
        /\ Quantos(F, cat, e) \in Nat
    BY <1>2, <1>5, <2>1, CandidatosRestantes
  <2> QED
    BY <1>2, <2>2
<1>8. /\ E \in Seq(F) /\ Distinta(E) /\ \A i \in 1 .. Len(E) : cat[E[i]] \in e
      /\ Len(E) = IF p.executivo < Quantos(F, cat, e) THEN p.executivo ELSE Quantos(F, cat, e)
  BY <1>2, <1>4, <1>5, <1>6, <1>7 DEF Acrescentada
<1> HIDE DEF E
<1>9. Acrescentada(S, E, "escolar", p.escolar, F, cat)
  BY <1>3, <1>4, <1>8, AcrescentarDistintas
<1>10. /\ Cardinality(Candidatos(E, "escolar", F, cat)) = Quantos(F, cat, ee) - Len(E)
       /\ Quantos(F, cat, ee) \in Nat /\ Len(E) \in Nat
  <2>1. \A i \in 1 .. Len(E) : cat[E[i]] \in ee
    BY <1>5, <1>8
  <2> QED
    BY <1>5, <1>8, <2>1, CandidatosRestantes
<1>11. /\ S \in Seq(F) /\ Distinta(S) /\ \A i \in 1 .. Len(S) : cat[S[i]] \in ee
       /\ Len(S) = Len(E) + IF p.escolar < Quantos(F, cat, ee) - Len(E) THEN p.escolar
                                                                      ELSE Quantos(F, cat, ee) - Len(E)
  <2>1. /\ S \in Seq(F) /\ Distinta(S) /\ Len(E) <= Len(S)
        /\ \A i \in 1 .. Len(E) : S[i] = E[i]
        /\ \A i \in Len(E) + 1 .. Len(S) : cat[S[i]] \in ee
    BY <1>5, <1>9 DEF Acrescentada
  <2>2. \A i \in 1 .. Len(S) : cat[S[i]] \in ee
    <3> TAKE i \in 1 .. Len(S)
    <3>1. i \in 1 .. Len(E) \/ i \in Len(E) + 1 .. Len(S)
      BY <1>10, <2>1
    <3> QED
      BY <1>5, <1>8, <2>1, <3>1
  <2> QED
    BY <1>9, <1>10, <2>1, <2>2 DEF Acrescentada
<1> HIDE DEF S
<1>12. Acrescentada(V, S, "carro", p.carro, F, cat)
  BY <1>3, <1>4, <1>11, AcrescentarDistintas
<1>13. /\ Cardinality(Candidatos(S, "carro", F, cat)) = Quantos(F, cat, Categoria) - Len(S)
       /\ Quantos(F, cat, Categoria) \in Nat /\ Len(S) \in Nat
  <2>1. \A i \in 1 .. Len(S) : cat[S[i]] \in Categoria
    BY <1>5, <1>11
  <2> QED
    BY <1>5, <1>11, <2>1, CandidatosRestantes
<1>14. /\ V \in Seq(F)
       /\ Len(V) = Len(S) + IF p.carro < Quantos(F, cat, Categoria) - Len(S)
                                THEN p.carro ELSE Quantos(F, cat, Categoria) - Len(S)
  BY <1>12, <1>13 DEF Acrescentada
<1> HIDE DEF V
<1>15. Selecionar(p, F, cat) # <<>> <=> Len(V) = Veiculos(p)
  <2>1. Len(V) = Veiculos(p) => V # <<>>
    BY <1>2, <1>4
  <2> QED
    BY <1>1, <2>1
<1>16. /\ Quantos(F, cat, e) <= Quantos(F, cat, ee)
       /\ Quantos(F, cat, ee) <= Quantos(F, cat, Categoria)
  BY <1>5, QuantosCrescem
<1>17. Len(V) = Veiculos(p)
        <=> /\ p.executivo <= Quantos(F, cat, e)
            /\ p.executivo + p.escolar <= Quantos(F, cat, ee)
            /\ Veiculos(p) <= Quantos(F, cat, Categoria)
  <2> DEFINE a == p.executivo
             b == p.escolar
             c == p.carro
             n == Quantos(F, cat, e)
             m == Quantos(F, cat, ee)
             t == Quantos(F, cat, Categoria)
             x == Len(E)
             y == Len(S)
             z == Len(V)
  <2>1. /\ a \in Nat /\ b \in Nat /\ c \in Nat /\ n \in Nat /\ m \in Nat /\ t \in Nat
        /\ x \in Nat /\ y \in Nat /\ n <= m /\ m <= t
    BY <1>4, <1>7, <1>10, <1>13, <1>16
  <2>2. /\ x = IF a < n THEN a ELSE n
        /\ y = x + IF b < m - x THEN b ELSE m - x
        /\ z = y + IF c < t - y THEN c ELSE t - y
    BY <1>8, <1>11, <1>14
  <2>3. Veiculos(p) = a + b + c
    BY <1>4
  <2> HIDE DEF a, b, c, n, m, t, x, y, z
  <2>4. x <= n /\ x <= m /\ y <= m /\ y <= t
    BY <2>1, <2>2
  <2>5. z = a + b + c <=> a <= n /\ a + b <= m /\ a + b + c <= t
    BY <2>1, <2>2, <2>4
  <2> QED
    BY <2>3, <2>5 DEF a, b, c, n, m, t, z
<1> QED
  BY <1>15, <1>17 DEF Viavel, e, ee

LEMMA SelecoesCompletas == SelecaoCompleta
<1> SUFFICES ASSUME NEW F \in SUBSET DOMAIN Frota, NEW p \in [Categoria -> 0 .. 2], Veiculos(p) > 0
             PROVE  LET V == Selecionar(p, F, Frota) IN
                    /\ (V # <<>>) <=> Viavel(p, F, Frota)
                    /\ Viavel(p, F, Frota) =>
                          /\ Cardinality(Range(V)) = Veiculos(p)
                          /\ Cardinality(Cadeiras([j \in DOMAIN V |-> LugaresReais[Frota[V[j]]]]))
                                >= Assentos(LugaresReais, p)
  BY DEF SelecaoCompleta, Viavel, Quantos
<1> DEFINE V == Selecionar(p, F, Frota)
           cap == [j \in DOMAIN V |-> LugaresReais[Frota[V[j]]]]
<1>1. IsFiniteSet(F) /\ \A v \in F : v \in Nat
  BY FrotaAssumption, FS_Subset
<1>2. p \in [executivo : Nat, escolar : Nat, carro : Nat]
  BY DEF Categoria
<1>3. V # <<>> <=> Viavel(p, F, Frota)
  BY <1>1, <1>2, SelecionarQuando
<1>4. ASSUME Viavel(p, F, Frota)
      PROVE  /\ Cardinality(Range(V)) = Veiculos(p)
             /\ Cardinality(Cadeiras(cap)) >= Assentos(LugaresReais, p)
  <2>1. V \in Seq(F) /\ Distinta(V) /\ Len(V) = Veiculos(p)
    BY <1>1, <1>2, <1>3, <1>4, SelecionarEscolhe
  <2>2. Cardinality(Range(V)) = Veiculos(p)
    <3> HIDE DEF V
    <3> QED
      BY <1>1, <2>1, ElementosDistintos
  <2>3. /\ Categorias(LugaresReais) /\ LugaresReais.carro <= LugaresReais.escolar
        /\ LugaresReais.escolar <= LugaresReais.executivo
    BY LugaresDasCategorias
  <2>4. /\ Cardinality(Cadeiras(cap)) \in Nat
        /\ Assentos(LugaresReais, p) <= Cardinality(Cadeiras(cap))
    <3>1. cap = [j \in DOMAIN Selecionar(p, F, Frota) |-> LugaresReais[Frota[Selecionar(p, F, Frota)[j]]]]
      OBVIOUS
    <3> HIDE DEF cap
    <3> QED
      BY <1>1, <1>2, <1>3, <1>4, <2>3, <3>1, CadeirasDaSelecao
  <2>5. Assentos(LugaresReais, p) \in Nat
    BY <1>2, LugaresDasCategorias DEF Assentos
  <2> QED
    BY <2>2, <2>4, <2>5
<1> QED
  BY <1>3, <1>4

\* The allocation of alocacao.go and alocacao_service.go: a plan seats everybody in the
\* fewest vehicles there can be, and the vehicles are found whenever there are enough of
\* sufficient size.
THEOREM AlocarEscolheBem == AlocacaoCompleta
  BY PlanosSaoMinimos, SelecoesCompletas DEF AlocacaoCompleta

-----------------------------------------------------------------------------
(* Groups are split only when they must be *)

\* Every step of a distribution is one.
Etapas(f, o, R, dest, cap, N) == \A n \in 0 .. N : Etapa(f, o, R, dest, cap, n)

\* What was distributed after n destinos stays where it is: f[n] is the part of the
\* last distribution that carries who had been served by then.
LEMMA EtapasFicam ==
    ASSUME NEW R, NEW dest, NEW cap, NEW o, NEW f, NEW N, N \in Nat,
           Etapas(f, o, R, dest, cap, N)
    PROVE  \A m \in 0 .. N : \A i \in DOMAIN cap : f[m][i] = f[N][i] \cap Servidos(R, dest, o, m)
<1> DEFINE S(m) == Servidos(R, dest, o, m)
           fica(n) == \A m \in 0 .. n : \A i \in DOMAIN cap : f[m][i] = f[n][i] \cap S(m)
           T == {n \in Nat : n <= N => fica(n)}
<1>0. \A n \in 0 .. N : Etapa(f, o, R, dest, cap, n)
  BY DEF Etapas
<1>1. \A n \in 0 .. N : \A i \in DOMAIN cap : f[n][i] \subseteq S(n)
  <2> TAKE n \in 0 .. N
  <2> TAKE i \in DOMAIN cap
  <2>1. DOMAIN f[n] = DOMAIN cap /\ Embarcados(f[n]) \subseteq S(n)
    BY <1>0 DEF Etapa
  <2> QED
    BY <2>1 DEF Embarcados
<1>2. 0 \in T
  <2>1. \A m \in 0 .. 0 : m = 0 /\ m \in 0 .. N
    OBVIOUS
  <2>2. fica(0)
    BY <1>1, <2>1
  <2> QED
    BY <2>2
<1>3. ASSUME NEW n \in T PROVE n + 1 \in T
  <2> SUFFICES ASSUME n + 1 <= N PROVE fica(n + 1)
    <3>1. n + 1 \in Nat
      OBVIOUS
    <3> QED
      BY <3>1
  <2> DEFINE G == ComDestino(R, dest, o[n + 1])
  <2>1. n \in Nat /\ n + 1 \in 0 .. N /\ (n + 1) - 1 = n /\ n + 1 # 0 /\ n <= N
    OBVIOUS
  <2>2. S(n) \cap G = {} /\ Aloca(cap, f[n], G, f[n + 1])
    <3>1. Etapa(f, o, R, dest, cap, n + 1)
      BY <1>0, <2>1
    <3> QED
      BY <2>1, <3>1 DEF Etapa
  <2>3. \A i \in DOMAIN cap : f[n][i] \subseteq f[n + 1][i] /\ f[n + 1][i] \subseteq f[n][i] \cup G
    BY <2>2 DEF Aloca
  <2>4. \A m \in 0 .. n : S(m) \subseteq S(n)
    BY <2>1 DEF Servidos
  <2>5. fica(n)
    BY <2>1
  <2> HIDE DEF S, G
  <2>6. \A m \in 0 .. n : \A i \in DOMAIN cap : f[m][i] = f[n + 1][i] \cap S(m)
    BY <2>2, <2>3, <2>4, <2>5
  <2>7. \A i \in DOMAIN cap : f[n + 1][i] = f[n + 1][i] \cap S(n + 1)
    BY <1>1, <2>1
  <2>8. \A m \in 0 .. (n + 1) : m \in 0 .. n \/ m = n + 1
    BY <2>1
  <2> QED
    BY <2>6, <2>7, <2>8
<1>4. T = Nat
  <2>1. T \in SUBSET Nat
    OBVIOUS
  <2> HIDE DEF T
  <2> QED
    BY <1>2, <1>3, <2>1, InducaoNatural
<1>5. fica(N)
  BY <1>4
<1> QED
  BY <1>5

\* A group that D splits found no vehicle with room for all of it, after A were seated.
SoSeNaoCabe(g, A, D, cap) ==
    (\E i \in DOMAIN cap : g \cap D[i] # {} /\ g \cap D[i] # g) =>
        \A i \in DOMAIN cap : cap[i] - Cardinality(D[i] \cap A) < Cardinality(g)

\* No destino is split by Distribuir while a vehicle has room for the whole of it.
THEOREM DistribuirInteiros ==
    ASSUME NEW R, NEW dest, Passageiros(R, dest), NEW cap, Capacidades(cap),
           NEW n, n \in 1 .. Len(Destinos(R, dest))
    PROVE  SoSeNaoCabe(ComDestino(R, dest, Destinos(R, dest)[n]),
                       Servidos(R, dest, Destinos(R, dest), n - 1), Distribuir(R, dest, cap), cap)
<1> DEFINE o == Destinos(R, dest)
           N == Len(o)
           f == Repartir(R, dest, cap)
           D == Distribuir(R, dest, cap)
           g == ComDestino(R, dest, o[n])
           c == f[n - 1]
<1>1. N \in Nat /\ \A m \in 0 .. N : Etapa(f, o, R, dest, cap, m)
  BY EtapasDeRepartir
<1>2. D = f[N]
  BY DEF Distribuir
<1>0. n \in 1 .. N
  OBVIOUS
<1> SUFFICES SoSeNaoCabe(g, Servidos(R, dest, o, n - 1), D, cap)
  OBVIOUS
<1> HIDE DEF D, N, f, o
<1>3. n \in 0 .. N /\ n - 1 \in 0 .. N /\ n # 0
  BY <1>1, <1>0
<1>4. \A m \in 0 .. N : \A i \in DOMAIN cap : f[m][i] = D[i] \cap Servidos(R, dest, o, m)
  <2>1. N \in Nat /\ Etapas(f, o, R, dest, cap, N)
    BY <1>1 DEF Etapas
  <2>2. \A m \in 0 .. N : \A i \in DOMAIN cap : f[m][i] = f[N][i] \cap Servidos(R, dest, o, m)
    BY <2>1, EtapasFicam
  <2> QED
    BY <1>2, <2>2
<1>5. /\ Cabe(cap, c) /\ Cabe(cap, f[n]) /\ Grupo(c, g)
      /\ f[n] = Alocar(cap, c, g)
      /\ g \subseteq Servidos(R, dest, o, n)
  <2>1. Etapa(f, o, R, dest, cap, n) /\ Etapa(f, o, R, dest, cap, n - 1)
    BY <1>1, <1>3
  <2> QED
    BY <1>3, <2>1 DEF Etapa
<1>6. \A i \in DOMAIN cap : g \cap D[i] = g \cap f[n][i]
  BY <1>3, <1>4, <1>5
<1> HIDE DEF g, c
<1>7. CASE Inteiro(cap, c, g) # {}
  <2>1. f[n] = AlocarInteiro(cap, c, g)
    BY <1>5, <1>7 DEF Alocar
  <2>2. PICK j : f[n] = [c EXCEPT ![j] = @ \cup g]
    BY <2>1 DEF AlocarInteiro
  <2>3. DOMAIN c = DOMAIN cap /\ \A i \in DOMAIN cap : c[i] \cap g = {}
    BY <1>5 DEF Cabe, Grupo
  <2>4. \A i \in DOMAIN cap : g \cap f[n][i] = {} \/ g \cap f[n][i] = g
    BY <2>2, <2>3
  <2> QED
    BY <1>6, <2>4 DEF SoSeNaoCabe
<1>8. CASE Inteiro(cap, c, g) = {}
  <2>1. \A i \in DOMAIN cap : cap[i] - Cardinality(D[i] \cap Servidos(R, dest, o, n - 1)) < Cardinality(g)
    <3> TAKE i \in DOMAIN cap
    <3>1. ~(Resto(cap, c, i) >= Cardinality(g))
      BY <1>8 DEF Inteiro
    <3>2. Resto(cap, c, i) \in Nat /\ Resto(cap, c, i) = cap[i] - Cardinality(c[i])
      BY <1>5, RestoNatural
    <3>3. Cardinality(g) \in Nat
      BY <1>5, FS_CardinalityType DEF Grupo
    <3>4. c[i] = D[i] \cap Servidos(R, dest, o, n - 1)
      BY <1>3, <1>4 DEF c
    <3> QED
      BY <3>1, <3>2, <3>3, <3>4
  <2> QED
    BY <2>1 DEF SoSeNaoCabe
<1> QED
  BY <1>7, <1>8

\* The distribution of planejamento_service.go over the inputs the runs enumerate: an
\* instance of DistribuirReparte and DistribuirInteiros.
THEOREM DistribuirDireito == DistribuicaoCorreta
<1> SUFFICES ASSUME NEW dest \in DestinosDeQuatro, NEW cap \in [1 .. 3 -> 0 .. 3]
             PROVE  LET D == Distribuir(1 .. 4, dest, cap)
                        G(d) == {r \in 1 .. 4 : dest[r] = d}
                        ordem == Destinos(1 .. 4, dest)
                        antes(n) == UNION {G(ordem[m]) : m \in 1 .. n - 1}
                    IN  /\ \A i \in 1 .. 3 : Cardinality(D[i]) <= cap[i]
                        /\ \A i, j \in 1 .. 3 : i # j => D[i] \cap D[j] = {}
                        /\ Cardinality(Cadeiras(cap)) >= 4 => D[1] \cup D[2] \cup D[3] = 1 .. 4
                        /\ \A n \in DOMAIN ordem :
                            (\E i \in 1 .. 3 : G(ordem[n]) \cap D[i] \notin {{}, G(ordem[n])}) =>
                                \A i \in 1 .. 3 :
                                    cap[i] - Cardinality(D[i] \cap antes(n)) < Cardinality(G(ordem[n]))
  BY DEF DistribuicaoCorreta
<1> DEFINE R == 1 .. 4
           D == Distribuir(R, dest, cap)
           o == Destinos(R, dest)
           G(d) == {r \in R : dest[r] = d}
           antes(n) == UNION {G(o[m]) : m \in 1 .. n - 1}
<1>0. \A k \in Nat : IsFiniteSet(1 .. k) /\ Cardinality(1 .. k) = k
  <2> TAKE k \in Nat
  <2>1. k \in Int /\ 1 \in Int /\ (1 > k => k = 0) /\ k - 1 + 1 = k
    OBVIOUS
  <2> QED
    BY <2>1, FS_Interval
<1>1. IsFiniteSet(R) /\ Cardinality(R) = 4
  <2>1. 4 \in Nat
    OBVIOUS
  <2> QED
    BY <1>0, <2>1, Zenon
<1>2. Passageiros(R, dest)
  BY <1>1 DEF Passageiros, DestinosDeQuatro
<1>3. Capacidades(cap) /\ DOMAIN cap = 1 .. 3
  <2>0. 3 \in Nat
    OBVIOUS
  <2>1. IsFiniteSet(1 .. 3)
    BY <1>0, <2>0, Zenon
  <2> QED
    BY <2>1 DEF Capacidades
<1>4. Reparte(R, cap, D)
  BY <1>2, <1>3, DistribuirReparte
<1>5. \A n \in 1 .. Len(o) : SoSeNaoCabe(ComDestino(R, dest, o[n]), Servidos(R, dest, o, n - 1), D, cap)
  BY <1>2, <1>3, DistribuirInteiros
<1>6. DOMAIN o = 1 .. Len(o)
  BY <1>2, DestinosEnumera DEF Enumera
<1>7. \A n : antes(n) = Servidos(R, dest, o, n - 1)
  BY DEF Servidos
<1>8. \A d : G(d) = ComDestino(R, dest, d)
  BY DEF ComDestino
<1>9. Cardinality(Cadeiras(cap)) \in Nat
  BY <1>3, CadeirasFinitas
<1> HIDE DEF D, o, G, antes
<1>10. /\ \A i \in 1 .. 3 : Cardinality(D[i]) <= cap[i]
       /\ \A i, j \in 1 .. 3 : i # j => D[i] \cap D[j] = {}
       /\ D \in [1 .. 3 -> SUBSET R]
  BY <1>3, <1>4 DEF Reparte, Cabe
<1>11. ASSUME Cardinality(Cadeiras(cap)) >= 4 PROVE D[1] \cup D[2] \cup D[3] = R
  <2>1. \A r \in R : \E i \in 1 .. 3 : r \in D[i]
    BY <1>1, <1>3, <1>4, <1>9, <1>11 DEF Reparte
  <2>2. \A i \in 1 .. 3 : i = 1 \/ i = 2 \/ i = 3
    OBVIOUS
  <2>3. \A r \in R : r \in D[1] \cup D[2] \cup D[3]
    BY <2>1, <2>2
  <2>4. D[1] \subseteq R /\ D[2] \subseteq R /\ D[3] \subseteq R
    BY <1>10
  <2> QED
    BY <2>3, <2>4
<1>12. \A n \in DOMAIN o :
          (\E i \in 1 .. 3 : G(o[n]) \cap D[i] \notin {{}, G(o[n])}) =>
              \A i \in 1 .. 3 : cap[i] - Cardinality(D[i] \cap antes(n)) < Cardinality(G(o[n]))
  <2> TAKE n \in DOMAIN o
  <2>1. SoSeNaoCabe(G(o[n]), antes(n), D, cap)
    BY <1>5, <1>6, <1>7, <1>8
  <2> QED
    BY <1>3, <2>1 DEF SoSeNaoCabe
<1> QED
  BY <1>10, <1>11, <1>12 DEF D, o, G, antes
=============================================================================
