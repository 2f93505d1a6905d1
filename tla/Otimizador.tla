----------------------------- MODULE Otimizador -----------------------------
(***************************************************************************)
(* The order in which a dynamic route visits its destinos                  *)
(* (internal/geo/otimizador.go) and the matrix it is computed from         *)
(* (internal/geo/osrm_client.go, calculador_service.go).                   *)
(*                                                                         *)
(* Destinos are 1 .. n, durations are naturals.  An entrada is what the    *)
(* code calls OtimizacaoRotaMatrizInput: the durations between destinos,   *)
(* those from the origin to each (zero on the way back) and those from     *)
(* each to the end (zero on the way out).                                  *)
(***************************************************************************)
EXTENDS Integers, Sequences, FiniteSets, SequencesExt

CONSTANT Duracoes    \* bound: durations for which orders are checked

ASSUME DuracoesAssumption == Duracoes \subseteq Nat

Indices(e)     == DOMAIN e.origem
Permutacoes(e) == {p \in [Indices(e) -> Indices(e)] : Range(p) = Indices(e)}

\* The loop of custoTotalMatriz: the cost to the k-th destino of an order ...
Trajeto(e, ordem) ==
    LET ate[k \in 1 .. Len(ordem)] ==
            IF k = 1 THEN e.origem[ordem[1]]
                     ELSE ate[k - 1] + e.entre[ordem[k - 1]][ordem[k]]
    IN  ate

\* ... and then to the end.
Custo(e, ordem) ==
    LET n == Len(ordem) IN Trajeto(e, ordem)[n] + e.final[ordem[n]]

\* The least index of those of least cost: a later one must be better to replace it.
Primeiro(S, custo) ==
    CHOOSE d \in S : \A o \in S : custo[d] < custo[o] \/ (custo[d] = custo[o] /\ d <= o)

-----------------------------------------------------------------------------
(* The matrix OSRM answers for <<stop>> \o destinos, or destinos \o <<stop>> *)

\* normalizeTable: an error when a pair has no route ("nulo").
TabelaValida(t) == \A i \in DOMAIN t : \A j \in DOMAIN t : t[i][j] # "nulo"

\* recortarCustosDestinos
Recortar(t, inicio, n) == [i \in 1 .. n |-> [j \in 1 .. n |-> t[inicio + i][inicio + j]]]
Zeros(n) == [i \in 1 .. n |-> 0]

\* Mutation: the end of the route is read by row, which is the way back.
EntradaVoltaPorLinha(t) ==
    LET n == Len(t) - 1
    IN  [entre |-> Recortar(t, 0, n), origem |-> Zeros(n),
         final |-> [i \in 1 .. n |-> t[n + 1][i]]]

\* montarInputIda: the last stop comes first.
EntradaIda(t) ==
    LET n == Len(t) - 1
    IN  [entre |-> Recortar(t, 1, n), origem |-> [i \in 1 .. n |-> t[1][i + 1]],
         final |-> Zeros(n)]

\* montarInputVolta: the last stop, where the way back enters the route, is last.
EntradaVolta(t) ==
    LET n == Len(t) - 1
    IN  [entre |-> Recortar(t, 0, n), origem |-> Zeros(n),
         final |-> [i \in 1 .. n |-> t[i][n + 1]]]

-----------------------------------------------------------------------------
(* Up to twelve destinos: Held and Karp's table *)

\* A set that was visited and where the visit stopped (mask and atual).
Estados(e) == {x \in (SUBSET Indices(e)) \X Indices(e) : x[2] \in x[1]}

\* What it costs to have visited S and then u, by the destino before u.
Candidatos(e, dp, S, u) == [d \in S |-> dp[<<S, d>>] + e.entre[d][u]]

\* dp: the least cost of every state.
Tabela(e) ==
    LET dp[x \in Estados(e)] ==
            LET antes == x[1] \ {x[2]}
                c     == Candidatos(e, dp, antes, x[2])
            IN  IF antes = {} THEN e.origem[x[2]] ELSE c[Primeiro(antes, c)]
    IN  dp

\* From every state back through its parents.
Caminho(e, dp) ==
    LET volta[x \in Estados(e)] ==
            LET antes == x[1] \ {x[2]}
                c     == Candidatos(e, dp, antes, x[2])
            IN  IF antes = {} THEN <<x[2]>>
                ELSE Append(volta[<<antes, Primeiro(antes, c)>>], x[2])
    IN  volta

\* ordenarHeldKarp: the best last destino, then its parents in the table.
HeldKarp(e) ==
    LET todos == Indices(e)
        dp    == Tabela(e)
        fim   == Primeiro(todos, [d \in todos |-> dp[<<todos, d>>] + e.final[d]])
    IN  Caminho(e, dp)[<<todos, fim>>]

-----------------------------------------------------------------------------
(* More than twelve: nearest neighbour from every destino, improved by 2-opt *)

\* ordenarVizinhoMaisProximoMatriz: feita[k] are the first k destinos.
Vizinhos(e, inicio) ==
    LET feita[k \in Indices(e)] ==
            IF k = 1 THEN <<inicio>>
            ELSE LET antes == feita[k - 1]
                 IN  Append(antes, Primeiro(Indices(e) \ Range(antes), e.entre[antes[k - 1]]))
    IN  feita
VizinhoMaisProximo(e, inicio) == Vizinhos(e, inicio)[Cardinality(Indices(e))]

\* reverseIndices on the segment i .. j.
Inverter(p, i, j) == [k \in DOMAIN p |-> IF i <= k /\ k <= j THEN p[i + j - k] ELSE p[k]]

\* The reversal is kept if it is better.
Trocar(e, p, i, j) ==
    LET candidate == Inverter(p, i, j) IN IF Custo(e, candidate) < Custo(e, p) THEN candidate ELSE p

\* The inner loop of melhorar2OptMatriz: segments from i to each j after it.
Linha(e, p, i) ==
    LET feita[j \in 0 .. Len(p)] == IF j <= i THEN p ELSE Trocar(e, feita[j - 1], i, j)
    IN  feita

\* Its outer loop.
Rodada(e, p) ==
    LET feita[i \in 0 .. Len(p) - 1] ==
            IF i = 0 THEN p ELSE Linha(e, feita[i - 1], i)[Len(p)]
    IN  feita

\* melhorar2OptMatriz: rounds until one improves nothing.
DoisOpt(e) ==
    LET melhor[p \in Permutacoes(e)] ==
            LET outra == Rodada(e, p)[Len(p) - 1]
            IN  IF outra = p THEN p ELSE melhor[outra]
    IN  melhor

\* ordenarHeuristicaMatriz
Heuristica(e) ==
    LET de == [d \in Indices(e) |-> DoisOpt(e)[VizinhoMaisProximo(e, d)]]
    IN  de[Primeiro(Indices(e), [d \in Indices(e) |-> Custo(e, de[d])])]

\* OrdenarDestinosPorMatriz
Ordenada(e, limite) == IF Cardinality(Indices(e)) <= limite THEN HeldKarp(e) ELSE Heuristica(e)

-----------------------------------------------------------------------------
(* Properties, over bounded inputs *)

Ordens == {p \in [1 .. 3 -> 1 .. 3] : Range(p) = 1 .. 3}

\* Durations between three destinos, and of the stop with each, up to renaming.
Entre  == [{q \in (1 .. 3) \X (1 .. 3) : q[1] # q[2]} -> Duracoes]
Parada == {s \in [1 .. 3 -> Duracoes] : s[1] <= s[2] /\ s[2] <= s[3]}

\* The table with the stop at place x: s is what the trip drives, the other
\* direction of the stop is one unit more, in the opposite order.
TabelaCom(m, s, x) ==
    LET d(i) == IF i < x THEN i ELSE i - 1
        lado(i) == IF x = 1 THEN s[d(i)] ELSE s[4 - d(i)] + 1
        outro(i) == IF x = 1 THEN s[4 - d(i)] + 1 ELSE s[d(i)]
    IN  [i \in 1 .. 4 |-> [j \in 1 .. 4 |->
            IF i = j THEN 0
            ELSE IF i = x THEN lado(j)
            ELSE IF j = x THEN outro(i)
            ELSE m[<<d(i), d(j)>>]]]

\* The exact order is a shortest way from the stop through all destinos (and
\* back from them to the stop), each once; durations may differ by direction.
OrdemOtima ==
    \A m \in Entre, s \in Parada :
        LET ti    == TabelaCom(m, s, 1)
            tv    == TabelaCom(m, s, 4)
            ida   == HeldKarp(EntradaIda(ti))
            volta == HeldKarp(EntradaVolta(tv))
            dIda(o)   == ti[1][o[1] + 1] + ti[o[1] + 1][o[2] + 1] + ti[o[2] + 1][o[3] + 1]
            dVolta(o) == tv[o[1]][o[2]] + tv[o[2]][o[3]] + tv[o[3]][4]
        IN  /\ Range(ida) = 1 .. 3 /\ Range(volta) = 1 .. 3
            /\ \A p \in Ordens : dIda(ida) <= dIda(p) /\ dVolta(volta) <= dVolta(p)

\* The heuristic order visits every destino once, no reversal of a segment
\* makes it shorter, and it is no longer than from any nearest neighbour.
OrdemBoa ==
    \A m \in Entre, s \in Parada :
        LET e == EntradaIda(TabelaCom(m, s, 1))
            h == Heuristica(e)
        IN  /\ Range(h) = 1 .. 3
            /\ \A i, j \in 1 .. 3 : i < j => Custo(e, h) <= Custo(e, Inverter(h, i, j))
            /\ \A d \in 1 .. 3 : Custo(e, h) <= Custo(e, VizinhoMaisProximo(e, d))

RotaOtimizada == OrdemOtima /\ OrdemBoa
=============================================================================
