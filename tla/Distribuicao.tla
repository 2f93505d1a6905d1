---------------------------- MODULE Distribuicao ----------------------------
(***************************************************************************)
(* The arithmetic of a plan: how many vehicles of which category carry a   *)
(* number of passengers (internal/veiculos/alocacao.go), which of the free *)
(* vehicles those are (alocacao_service.go) and who rides in which         *)
(* (internal/viagens/planejamento_service.go).                             *)
(*                                                                         *)
(* Ids are naturals, because the code breaks ties by id.  The seats of the *)
(* categories are a parameter l, a function on Categoria: LugaresReais are *)
(* those of the code, smaller ones keep the state machines small.          *)
(***************************************************************************)
EXTENDS Integers, Sequences, FiniteSets, SequencesExt, FiniteSetsExt

Categoria    == {"executivo", "escolar", "carro"}
LugaresReais == [executivo |-> 46, escolar |-> 24, carro |-> 7]

CONSTANTS
    MaxAlunos,     \* bound: largest number of passengers for which plans are checked
    Frota          \* fleet for which selections are checked: category of every vehicle

ASSUME FrotaAssumption ==
    /\ MaxAlunos \in Nat
    /\ IsFiniteSet(DOMAIN Frota) /\ DOMAIN Frota \subseteq Nat
    /\ Frota \in [DOMAIN Frota -> Categoria]

\* The elements of S in the strict order op (SetToSortSeq, in polynomial time).
Ordenar(S, op(_,_)) ==
    [i \in 1 .. Cardinality(S) |->
        CHOOSE x \in S : Cardinality({y \in S : op(y, x)}) = i - 1]
PorId(S) == Ordenar(S, LAMBDA a, b : a < b)

-----------------------------------------------------------------------------
(* Categories for a number of passengers *)

Veiculos(p)    == p.executivo + p.escolar + p.carro
Assentos(l, p) == p.executivo * l.executivo + p.escolar * l.escolar + p.carro * l.carro

\* The combinations the three loops try: at least one vehicle, enough seats.
Planos(l, q) ==
    {p \in [executivo : 0 .. (q \div l.executivo) + 2,
            escolar   : 0 .. (q \div l.escolar) + 2,
            carro     : 0 .. (q \div l.carro) + 2] :
        Veiculos(p) > 0 /\ Assentos(l, p) >= q}

\* isBetterPlano: what is compared first is the number of vehicles ...
ComMenosVeiculos(l, q) ==
    LET P == Planos(l, q)
        n == Min({Veiculos(o) : o \in P})
    IN  {p \in P : Veiculos(p) = n}

\* ... then an executivo for a large group, fewer seats, more executivos, more
\* escolares.
Melhor(l, q, p, o) ==
    IF q > l.escolar /\ (p.executivo > 0) # (o.executivo > 0) THEN p.executivo > 0
    ELSE IF Assentos(l, p) # Assentos(l, o) THEN Assentos(l, p) < Assentos(l, o)
    ELSE IF p.executivo # o.executivo THEN p.executivo > o.executivo
    ELSE p.escolar > o.escolar

PlanejarCategorias(l, q) ==
    LET P == ComMenosVeiculos(l, q)
    IN  CHOOSE p \in P : \A o \in P \ {p} : Melhor(l, q, p, o)

-----------------------------------------------------------------------------
(* Vehicles for a plan *)

\* Mutation: an escolar has no larger substitute.
FallbackSemEscolar(c) ==
    CASE c = "carro"     -> <<"carro", "escolar", "executivo">>
      [] c = "escolar"   -> <<"escolar">>
      [] c = "executivo" -> <<"executivo">>

Fallback(c) ==
    CASE c = "carro"     -> <<"carro", "escolar", "executivo">>
      [] c = "escolar"   -> <<"escolar", "executivo">>
      [] c = "executivo" -> <<"executivo">>

\* The vehicles of a set by category in the order of s, then by id.
EmOrdem(S, cat, s) ==
    LET pos(v) == CHOOSE j \in DOMAIN s : s[j] = cat[v]
    IN  Ordenar({v \in S : cat[v] \in Range(s)},
            LAMBDA a, b : pos(a) < pos(b) \/ (pos(a) = pos(b) /\ a < b))

\* The first free vehicles of category c and of its larger substitutes, q of them
\* at most, go after those of V.
Acrescentar(V, c, q, disponiveis, cat) ==
    LET livres == EmOrdem(disponiveis \ Range(V), cat, Fallback(c))
    IN  V \o SubSeq(livres, 1, IF q < Len(livres) THEN q ELSE Len(livres))

\* selecionarVeiculosDoPlano: category by category of the plan, no vehicle twice.
\* Without enough of them, none.
Selecionar(plano, disponiveis, cat) ==
    LET E == Acrescentar(<<>>, "executivo", plano.executivo, disponiveis, cat)
        S == Acrescentar(E, "escolar", plano.escolar, disponiveis, cat)
        V == Acrescentar(S, "carro", plano.carro, disponiveis, cat)
    IN  IF Len(V) = Veiculos(plano) THEN V ELSE <<>>

-----------------------------------------------------------------------------
(* Passengers in vehicles *)

\* agruparReservasPorDestino: the destinos of R, the most demanded first.
Destinos(R, dest) ==
    LET n(d) == Cardinality({r \in R : dest[r] = d})
    IN  Ordenar({dest[r] : r \in R},
            LAMBDA d, e : n(d) > n(e) \/ (n(d) = n(e) /\ d < e))

Resto(cap, carga, i) == cap[i] - Cardinality(carga[i])

\* Mutation: a group goes whole into a vehicle, fit or not.
InteiroSemLimite(cap, carga, g) == DOMAIN cap

\* Vehicles with room for a whole group.
Inteiro(cap, carga, g) == {i \in DOMAIN cap : Resto(cap, carga, i) >= Cardinality(g)}

\* alocarGrupoInteiroPorDestino: the vehicle in which least room is left.
AlocarInteiro(cap, carga, g) ==
    LET i == CHOOSE j \in Inteiro(cap, carga, g) :
                \A n \in Inteiro(cap, carga, g) \ {j} :
                    \/ Resto(cap, carga, j) < Resto(cap, carga, n)
                    \/ Resto(cap, carga, j) = Resto(cap, carga, n) /\ j < n
    IN  [carga EXCEPT ![i] = @ \cup g]

\* Mutation: what does not fit in the first vehicle is forgotten.
AlocarEmUm(cap, carga, g) ==
    LET i == CHOOSE j \in DOMAIN cap :
                \A n \in DOMAIN cap : Resto(cap, carga, n) <= Resto(cap, carga, j)
    IN  [carga EXCEPT ![i] = @ \cup {r \in g :
            Cardinality({q \in g : q <= r}) <= Resto(cap, carga, i)}]

\* The free seats of vehicles I, and the vehicles that are filled before i: those
\* with more room.
Vagas(cap, carga, I) == UNION {{i} \X (1 .. Resto(cap, carga, i)) : i \in I}
Antes(cap, carga, i) ==
    {j \in DOMAIN cap : \/ Resto(cap, carga, j) > Resto(cap, carga, i)
                        \/ Resto(cap, carga, j) = Resto(cap, carga, i) /\ j < i}

\* Place of r in the queue of its group.
Lugar(g, r) == Cardinality({q \in g : q <= r})

\* alocarGrupoDivididoPorCapacidade: fill the vehicle with most room, then the
\* next; whoever finds no seat is left out.
AlocarDividido(cap, carga, g) ==
    LET inicio(i) == Cardinality(Vagas(cap, carga, Antes(cap, carga, i)))
    IN  [i \in DOMAIN cap |-> carga[i] \cup
            {r \in g : inicio(i) < Lugar(g, r) /\ Lugar(g, r) <= inicio(i) + Resto(cap, carga, i)}]

Alocar(cap, carga, g) == IF Inteiro(cap, carga, g) # {} THEN AlocarInteiro(cap, carga, g)
                                                         ELSE AlocarDividido(cap, carga, g)

\* The passengers of each vehicle when n destinos have been served.
Repartir(R, dest, cap) ==
    LET ordem == Destinos(R, dest)
        feita[n \in 0 .. Len(ordem)] ==
            IF n = 0 THEN [i \in DOMAIN cap |-> {}]
                     ELSE Alocar(cap, feita[n - 1], {r \in R : dest[r] = ordem[n]})
    IN  feita

\* distribuirReservasPorDestinoECapacidade
Distribuir(R, dest, cap) == Repartir(R, dest, cap)[Len(Destinos(R, dest))]

-----------------------------------------------------------------------------
(* Properties, over bounded inputs *)

\* The seats of vehicles with cap[i] seats each.
Cadeiras(cap) == UNION {{i} \X (1 .. cap[i]) : i \in DOMAIN cap}

\* A plan seats everybody in the fewest vehicles there can be, those that
\* executivos alone would need, although the loops stop at a bound per category.
PlanoMinimo ==
    \A q \in 1 .. MaxAlunos :
        LET p == PlanejarCategorias(LugaresReais, q) IN
        /\ Assentos(LugaresReais, p) >= q
        /\ Veiculos(p) = (q + LugaresReais.executivo - 1) \div LugaresReais.executivo

\* Greedy selection gives up only when no assignment exists: there are too few
\* vehicles as large as some of the planned ones.  What it selects are as many
\* vehicles as planned, none twice, with no fewer seats.
SelecaoCompleta ==
    \A F \in SUBSET DOMAIN Frota, p \in [Categoria -> 0 .. 2] :
        LET n(C) == Cardinality({v \in F : Frota[v] \in C})
            V    == Selecionar(p, F, Frota)
            viavel == /\ p.executivo <= n({"executivo"})
                      /\ p.executivo + p.escolar <= n({"executivo", "escolar"})
                      /\ Veiculos(p) <= n(Categoria)
        IN
        Veiculos(p) > 0 =>
            /\ (V # <<>>) <=> viavel
            /\ viavel => /\ Cardinality(Range(V)) = Veiculos(p)
                         /\ Cardinality(Cadeiras([j \in DOMAIN V |-> LugaresReais[Frota[V[j]]]]))
                                >= Assentos(LugaresReais, p)

\* The allocation of alocacao.go and alocacao_service.go as a whole.
AlocacaoCompleta == PlanoMinimo /\ SelecaoCompleta

\* Four reservas in up to three destinos, up to a renaming of the reservas.
DestinosDeQuatro == {f \in [1 .. 4 -> 1 .. 3] : \A i \in 1 .. 3 : f[i] <= f[i + 1]}

\* No vehicle is overfull; if there are seats for all, everybody has exactly one;
\* a destino is split only if no vehicle had room for all of it when the larger
\* groups were seated.
DistribuicaoCorreta ==
    \A dest \in DestinosDeQuatro, cap \in [1 .. 3 -> 0 .. 3] :
        LET D == Distribuir(1 .. 4, dest, cap)
            G(d) == {r \in 1 .. 4 : dest[r] = d}
            ordem == Destinos(1 .. 4, dest)
            antes(n) == UNION {G(ordem[m]) : m \in 1 .. n - 1}
        IN
        /\ \A i \in 1 .. 3 : Cardinality(D[i]) <= cap[i]
        /\ \A i, j \in 1 .. 3 : i # j => D[i] \cap D[j] = {}
        /\ Cardinality(Cadeiras(cap)) >= 4 => D[1] \cup D[2] \cup D[3] = 1 .. 4
        /\ \A n \in DOMAIN ordem :
            (\E i \in 1 .. 3 : G(ordem[n]) \cap D[i] \notin {{}, G(ordem[n])}) =>
                \A i \in 1 .. 3 :
                    cap[i] - Cardinality(D[i] \cap antes(n)) < Cardinality(G(ordem[n]))
=============================================================================
