----------------------------- MODULE MCCadastro -----------------------------
(* The registry on small databases: one with clients, vinculos and the    *)
(* rows they need; one with rows of before and after the cut as well.     *)
EXTENDS Cadastro, TLC

N == <<"municipio", 10>>
P == <<"parada", 1>>
R == <<"rota", 2>>
D == <<"destino", 3>>
V == <<"veiculo", 4>>
M == <<"motorista", 5>>
A == <<"cliente", 6>>
B == <<"cliente", 7>>
U == <<"vinculo", 8>>
W == <<"vinculo", 9>>

Pessoa(k, n, f) ==
    [SemDados EXCEPT !.nome = n, !.fone = f,
                     !.arq = [c \in Colunas(k[1]) |-> Definitivo(k, c)]]

Cadastrados ==
    (N :> SemDados) @@ (P :> SemDados) @@ (R :> [SemDados EXCEPT !.ref = {P}])
    @@ (D :> [SemDados EXCEPT !.ref = {N}]) @@ (V :> SemDados)
    @@ (M :> [Pessoa(M, 0, "f1") EXCEPT !.ref = {N}]) @@ (A :> Pessoa(A, 1, SemFone)) @@ (B :> Pessoa(B, 2, SemFone))
    @@ (U :> [Pessoa(U, 0, SemFone) EXCEPT !.ref = {A, D, R}])
    @@ (W :> [Pessoa(W, 0, SemFone) EXCEPT !.ref = {B, D, R}, !.arq["comprovante"] = Espera(-9, "comprovante")])

Em(d, refs) == [SemDados EXCEPT !.data = d, !.ref = refs]

\* A ciclo of day 0 and one of day 2, each with a reserva aboard; a reserva of
\* day 0 that boarded nowhere; an execucao of day 1.
Operados ==
    Cadastrados
    @@ (<<"ciclo", 10>> :> Em(0, {R, V, M})) @@ (<<"ciclo", 11>> :> Em(2, {R, V, M}))
    @@ (<<"reserva", 12>> :> Em(0, {A, U, D, R})) @@ (<<"reserva", 13>> :> Em(2, {B, W, D, R}))
    @@ (<<"reserva", 14>> :> Em(0, {A, U, D, R}))
    @@ (<<"alocada", 15>> :> Em(0, {<<"ciclo", 10>>, <<"reserva", 12>>}))
    @@ (<<"alocada", 16>> :> Em(0, {<<"ciclo", 11>>, <<"reserva", 13>>}))
    @@ (<<"execucao", 17>> :> Em(1, {}))

MCAnteriores == {Cadastrados, Operados}
Simetria == Permutations(Tarefa)
=============================================================================
