-------------------------- MODULE ReservaInscricao --------------------------
(***************************************************************************)
(* Requests and planners of ReservaPlanejamento implement Inscricao.       *)
(*                                                                         *)
(* fechamento is history, no program variable: it keeps who was confirmed  *)
(* in a key at the instant its execution was inserted.                     *)
(***************************************************************************)
EXTENDS ReservaPlanejamento

VARIABLE fechamento

\* TentarIniciar inserts the row of the key; a retry finds it there.
Anotar ==
    fechamento' = [k \in Chave |-> IF execucao[k] = "ausente" /\ execucao'[k] # "ausente"
                                   THEN Confirmadas(k) ELSE fechamento[k]]

SpecFechamento ==
    /\ Init /\ fechamento = [k \in Chave |-> {}]
    /\ [][Next /\ Anotar]_<<vars, fechamento>>

SpecFechamentoJusta == SpecFechamento /\ Justica

situacaoDe(status) ==
    CASE status = "ausente"     -> "aberta"
      [] status = "concluido"   -> "planejada"
      [] status = "sem_demanda" -> "vazia"
      [] OTHER                  -> "fechada"

Embarcadas(k) == {r \in Reserva : alocada[r] = k}

Lista == INSTANCE Inscricao
             WITH inscritos  <- [k \in Chave |-> Confirmadas(k)],
                  situacao   <- [k \in Chave |-> situacaoDe(execucao[k])],
                  chamada    <- fechamento,
                  embarcados <- [k \in Chave |-> Embarcadas(k)]

\* However requests, planners, crashes and retries interleave: nobody enters a
\* key whose planning has begun, its trips are made once, carry everybody who is
\* still confirmed and nobody who was not confirmed when it began, and it ends as
\* concluded or without demand only accordingly, for good.
ImplementaInscricao == Lista!SpecInscricao
=============================================================================
