------------------------------ MODULE Retencao ------------------------------
(***************************************************************************)
(* The monthly clean-up (internal/retencao): one call removes, statement   *)
(* by statement and at most Lote rows each, the ciclos, then the reservas, *)
(* then the execucoes of before the cut.  Other requests, and midnight,    *)
(* come between its statements.                                            *)
(***************************************************************************)
EXTENDS Catalogo

CONSTANTS
    Meses,          \* how long rows are kept
    Lote,           \* loteMaximo
    Inicio, MaxHoje \* bound: first and last day

ASSUME RetencaoAssumption ==
    {Meses, Lote} \subseteq Nat \ {0} /\ {Inicio, MaxHoje} \subseteq Nat

\* A reserva aboard a trip was of its date when it was planned, half an hour before
\* departure; a PUT may move it since, but not to a departure that is closer.
ASSUME DatasAssumption ==
    \A b \in Anteriores : \A a \in DOMAIN b : \A r \in b[a].ref :
        a[1] = "alocada" /\ r[1] = "reserva" =>
            \E c \in b[a].ref : c[1] = "ciclo" /\ b[c].data <= b[r].data

VARIABLES
    hoje,
    limpeza         \* the call under way, or the resumo of the last one

retencao == <<hoje, limpeza>>

SemLimpeza == [passo |-> 0, corte |-> 0, saturado |-> FALSE, resumo |-> "nenhum"]

RetencaoInit == hoje = Inicio /\ limpeza = SemLimpeza

\* Mutation: the reservas go first.
OrdemTrocada == <<"reserva", "ciclo", "execucao">>

Ordem == <<"ciclo", "reserva", "execucao">>

Antiga(k, corte) == k[1] \in {"ciclo", "reserva", "execucao"} /\ banco[k].data < corte

\* The oldest of the rows K, as ORDER BY data_viagem LIMIT n chooses them.
Lotes(K) ==
    {L \in SUBSET K :
        /\ Cardinality(L) = IF Cardinality(K) < Lote THEN Cardinality(K) ELSE Lote
        /\ \A a \in L, b \in K \ L : banco[a].data <= banco[b].data}

\* NOT EXISTS: no trip holds the reserva.
Solta(k) == \A a \in De("alocada") : k \notin banco[a].ref

CiclosAntigos(c)    == {k \in De("ciclo") : Antiga(k, c)}
ReservasAntigas(c)  == {k \in De("reserva") : Antiga(k, c) /\ Solta(k)}
ExecucoesAntigas(c) == {k \in De("execucao") : Antiga(k, c)}

Antigas(t, c) ==
    CASE t = "ciclo" -> CiclosAntigos(c)
      [] t = "reserva" -> ReservasAntigas(c)
      [] t = "execucao" -> ExecucoesAntigas(c)

\* corte: midnight of Meses ago, read once.
Corte == hoje - Meses

Limpar ==
    /\ limpeza.passo = 0
    /\ limpeza' = [SemLimpeza EXCEPT !.passo = 1, !.corte = Corte]
    /\ UNCHANGED <<catalogo, hoje>>

\* The statement of the present step.
Remover ==
    /\ limpeza.passo # 0
    /\ \E L \in Lotes(Antigas(Ordem[limpeza.passo], limpeza.corte)) :
          LET s == limpeza.saturado \/ Cardinality(L) >= Lote IN
          /\ Excluir(L)
          /\ limpeza' = [limpeza EXCEPT
                !.saturado = s,
                !.passo = (@ + 1) % 4,
                !.resumo = IF limpeza.passo # 3 THEN "nenhum" ELSE IF s THEN "saturado" ELSE "completo"]
    /\ UNCHANGED hoje

\* A statement fails: the call returns its error.
FalharLimpeza ==
    /\ limpeza.passo # 0
    /\ limpeza' = [SemLimpeza EXCEPT !.resumo = "erro"]
    /\ UNCHANGED <<catalogo, hoje>>

Amanhecer ==
    /\ hoje < MaxHoje
    /\ hoje' = hoje + 1
    /\ UNCHANGED <<catalogo, limpeza>>

RetencaoTypeOK ==
    limpeza \in [passo : 0..3, corte : Int, saturado : BOOLEAN,
                 resumo : {"nenhum", "erro", "saturado", "completo"}]

\* retencao_service.go:32-33, 54: the foreign keys do not keep anything back and no
\* statement of the call fails because of them, so a call that ends without an
\* error and without LoteSaturado has left nothing of before the cut.
LimpezaCompleta ==
    /\ limpeza.resumo = "completo" => ~\E k \in Linhas : Antiga(k, limpeza.corte)
    /\ limpeza.passo # 0 =>
          \A L \in Lotes(Antigas(Ordem[limpeza.passo], limpeza.corte)) : Removivel(L)
=============================================================================
