---------------------- MODULE ProcessadorPlanejamento ----------------------
(***************************************************************************)
(* The automatic planner: concurrent calls of                              *)
(* ProcessadorPlanejamento.Processar over the table execucoes_planejamento *)
(* (internal/viagens/processador_planejamento.go,                          *)
(* internal/viagens/execucao_planejamento_repository.go).                  *)
(*                                                                         *)
(* Every call reads the clock once, lists the due keys, and for each key   *)
(* claims the key's row (TentarIniciar), plans it (Planejar: read the      *)
(* demand and the free resources, then write in one transaction) and ends  *)
(* the row (Finalizar or Falhar).  A claim is a lease: it lapses           *)
(* DuracaoBloqueio after the instant the call read at its start.  A call   *)
(* may stop between any two steps: the process dies, or its caller hangs   *)
(* up after DuracaoChamada and the request context is cancelled.           *)
(*                                                                         *)
(* Keys are those of the direction "ida", all of one date and shift, so    *)
(* they compete for the same vehicles and drivers.                         *)
(***************************************************************************)
EXTENDS Integers

CONSTANTS
    Chave,                   \* planning keys
    Chamada,                 \* calls of Processar that may run at once
    Partida,                 \* departure instant of every key
    AntecedenciaFechamento,  \* a key closes this long before departure
    DuracaoBloqueio,         \* length of a claim
    IntervaloRetryInicial,   \* first retry interval
    IntervaloRetryMaximo,    \* cap of the retry interval
    DuracaoChamada,          \* the caller hangs up after this long
    AtrasoReserva,           \* longest time from validarPrazo to the INSERT of a reserva
    Horizonte                \* bound on the clock

ASSUME ConfiguracaoAssumption ==
    /\ Partida \in [Chave -> Nat]
    /\ AntecedenciaFechamento \in Nat \ {0}
    /\ DuracaoBloqueio \in Nat \ {0}
    /\ IntervaloRetryInicial \in Nat \ {0}
    /\ IntervaloRetryMaximo \in Nat
    /\ IntervaloRetryInicial <= IntervaloRetryMaximo
    /\ DuracaoChamada \in Nat
    /\ AtrasoReserva \in Nat
    /\ Horizonte \in Nat

VARIABLES
    relogio,     \* the clock, in minutes
    reservada,   \* reservada[k]: k has a confirmed reserva, so ListCandidatos returns it
    execucao,    \* the row of execucoes_planejamento of every key
    plano,       \* plano[k]: the ciclos, viagens and viagem_reservas of k are committed
    pc,          \* what a call does next
    agora,       \* the instant a call read when it started
    pendentes,   \* due candidates a call has not tried yet
    alvo,        \* key a call holds a claim of
    tentativa,   \* number of that claim, returned by TentarIniciar
    vistos,      \* keys that were planned when the call read the free resources
    resultado    \* outcome Finalizar will write

tabelas == <<reservada, execucao, plano>>
locais  == <<agora, pendentes, alvo, tentativa, vistos, resultado>>
vars    == <<relogio, tabelas, pc, locais>>

Nulo    == -1              \* SQL NULL of a timestamp
Nenhuma == "nenhuma"       \* no key

Terminal    == {"concluido", "sem_demanda"}
Status      == {"ausente", "processando", "falhou"} \cup Terminal
ComClaim    == {"ler", "gravar", "finalizar", "falhar"}
Instante    == Nat \cup {Nulo}

Execucao == [status: Status, tentativas: Nat, bloqueioExpiraEm: Instante,
             proximaTentativaEm: Instante, iniciadoEm: Instante,
             finalizadoEm: Instante, ultimoErro: BOOLEAN]

SemExecucao == [status |-> "ausente", tentativas |-> 0, bloqueioExpiraEm |-> Nulo,
                proximaTentativaEm |-> Nulo, iniciadoEm |-> Nulo,
                finalizadoEm |-> Nulo, ultimoErro |-> FALSE]

-----------------------------------------------------------------------------
(* Times *)

Fechamento(k) == Partida[k] - AntecedenciaFechamento

Devida(k, t) == Fechamento(k) <= t /\ t < Partida[k]

\* The loop of intervaloRetry doubles the interval once per earlier attempt
\* until the cap: here in closed form.
IntervaloRetry(n) ==
    LET dobrado == IntervaloRetryInicial * 2^(n - 1) IN
    IF dobrado \in IntervaloRetryInicial..IntervaloRetryMaximo THEN dobrado ELSE IntervaloRetryMaximo

\* The request context of the call is still alive.
NoPrazo(c) == relogio <= agora[c] + DuracaoChamada

-----------------------------------------------------------------------------
(* The statements of execucao_planejamento_repository.go *)

\* Mutations of PodeIniciar: a claim that never lapses, one that anybody takes
\* over, a retry that does not wait for its time, an ended key planned again.
PodeIniciarSemRetomada(k, t) ==
    \/ execucao[k].status = "ausente"
    \/ execucao[k].status = "falhou" /\ execucao[k].proximaTentativaEm <= t
PodeIniciarSemEspera(k, t)  == execucao[k].status \notin Terminal
PodeIniciarSemBackoff(k, t) ==
    \/ execucao[k].status \in {"ausente", "falhou"}
    \/ execucao[k].status = "processando" /\ execucao[k].bloqueioExpiraEm <= t
PodeIniciarEncerrada(k, t)  == execucao[k].status # "processando"

\* WHERE clause of the upsert of TentarIniciar.
PodeIniciar(k, t) ==
    \/ execucao[k].status = "ausente"
    \/ execucao[k].status = "falhou" /\ execucao[k].proximaTentativaEm <= t
    \/ execucao[k].status = "processando" /\ execucao[k].bloqueioExpiraEm <= t

\* Mutation: a claim one unit long.
IniciadaCurta(k, t) ==
    [status |-> "processando", tentativas |-> execucao[k].tentativas + 1,
     bloqueioExpiraEm |-> t + 1, proximaTentativaEm |-> Nulo,
     iniciadoEm |-> t, finalizadoEm |-> Nulo, ultimoErro |-> FALSE]

\* SET and VALUES of the upsert.
Iniciada(k, t) ==
    [status |-> "processando", tentativas |-> execucao[k].tentativas + 1,
     bloqueioExpiraEm |-> t + DuracaoBloqueio, proximaTentativaEm |-> Nulo,
     iniciadoEm |-> t, finalizadoEm |-> Nulo, ultimoErro |-> FALSE]

\* SET clause shared by Finalizar and Falhar.
Encerrada(k, novoStatus, erro, proxima, fim) ==
    [status |-> novoStatus, tentativas |-> execucao[k].tentativas,
     bloqueioExpiraEm |-> Nulo, proximaTentativaEm |-> proxima,
     iniciadoEm |-> execucao[k].iniciadoEm, finalizadoEm |-> fim, ultimoErro |-> erro]

\* finalizado_em is NOW(), the instant of the UPDATE.
Finalizada(k, r) == Encerrada(k, r, FALSE, Nulo, relogio)

\* Mutation: the failure is stamped with NOW().
FalhadaComNow(k, t, n) == Encerrada(k, "falhou", TRUE, t + IntervaloRetry(n), relogio)

\* finalizado_em and the retry count from t, the instant the call started at.
Falhada(k, t, n) == Encerrada(k, "falhou", TRUE, t + IntervaloRetry(n), t)

-----------------------------------------------------------------------------
Init ==
    /\ relogio = 0
    /\ reservada = [k \in Chave |-> FALSE]
    /\ execucao = [k \in Chave |-> SemExecucao]
    /\ plano = [k \in Chave |-> FALSE]
    /\ pc = [c \in Chamada |-> "ocioso"]
    /\ agora = [c \in Chamada |-> 0]
    /\ pendentes = [c \in Chamada |-> {}]
    /\ alvo = [c \in Chamada |-> Nenhuma]
    /\ tentativa = [c \in Chamada |-> 0]
    /\ vistos = [c \in Chamada |-> {}]
    /\ resultado = [c \in Chamada |-> "nenhum"]

\* A minute passes.
Tick ==
    /\ relogio < Horizonte
    /\ relogio' = relogio + 1
    /\ UNCHANGED <<tabelas, pc, locais>>

\* consultarDisponibilidade at t: before the key closes.
Disponivel(k, t) == t < Fechamento(k)

\* Mutation: the request does not look for an execution of the key.
CriarReservaSempre(k) ==
    /\ ~reservada[k] /\ Disponivel(k, relogio - AtrasoReserva)
    /\ reservada' = [reservada EXCEPT ![k] = TRUE]
    /\ UNCHANGED <<relogio, execucao, plano, pc, locais>>

\* A student books the key.  The commit refuses once the key has a row in
\* execucoes_planejamento; validarPrazo ran up to AtrasoReserva earlier.
CriarReserva(k) ==
    /\ ~reservada[k]
    /\ execucao[k].status = "ausente"
    /\ Disponivel(k, relogio - AtrasoReserva)
    /\ reservada' = [reservada EXCEPT ![k] = TRUE]
    /\ UNCHANGED <<relogio, execucao, plano, pc, locais>>

\* The last confirmed reserva of the key is cancelled: allowed at any time.
CancelarReservas(k) ==
    /\ reservada[k]
    /\ reservada' = [reservada EXCEPT ![k] = FALSE]
    /\ UNCHANGED <<relogio, execucao, plano, pc, locais>>

-----------------------------------------------------------------------------
(* Steps of a call *)

\* The handler calls Processar, which reads the clock once.
Chamar(c) ==
    /\ pc[c] = "ocioso"
    /\ pc' = [pc EXCEPT ![c] = "listar"]
    /\ agora' = [agora EXCEPT ![c] = relogio]
    /\ UNCHANGED <<relogio, tabelas, pendentes, alvo, tentativa, vistos, resultado>>

\* ListCandidatos, and the window test of the loop, which uses only agora.
Listar(c) ==
    /\ pc[c] = "listar" /\ NoPrazo(c)
    /\ pendentes' = [pendentes EXCEPT ![c] =
                        {k \in Chave : reservada[k] /\ Devida(k, agora[c])}]
    /\ pc' = [pc EXCEPT ![c] = "varrer"]
    /\ UNCHANGED <<relogio, tabelas, agora, alvo, tentativa, vistos, resultado>>

\* TentarIniciar inserts the row or takes it over: adquirida = true.
Adquirir(c, k) ==
    /\ pc[c] = "varrer" /\ NoPrazo(c)
    /\ k \in pendentes[c]
    /\ PodeIniciar(k, agora[c])
    /\ execucao' = [execucao EXCEPT ![k] = Iniciada(k, agora[c])]
    /\ pendentes' = [pendentes EXCEPT ![c] = @ \ {k}]
    /\ alvo' = [alvo EXCEPT ![c] = k]
    /\ tentativa' = [tentativa EXCEPT ![c] = execucao[k].tentativas + 1]
    /\ pc' = [pc EXCEPT ![c] = "ler"]
    /\ UNCHANGED <<relogio, reservada, plano, agora, vistos, resultado>>

\* TentarIniciar affects no row: the call goes on to the next candidate.
Recusar(c, k) ==
    /\ pc[c] = "varrer" /\ NoPrazo(c)
    /\ k \in pendentes[c]
    /\ ~PodeIniciar(k, agora[c])
    /\ pendentes' = [pendentes EXCEPT ![c] = @ \ {k}]
    /\ UNCHANGED <<relogio, tabelas, pc, agora, alvo, tentativa, vistos, resultado>>

\* TentarIniciar fails in the database: reported, and on to the next one.
IniciarErro(c, k) ==
    /\ pc[c] = "varrer" /\ NoPrazo(c)
    /\ k \in pendentes[c]
    /\ pendentes' = [pendentes EXCEPT ![c] = @ \ {k}]
    /\ UNCHANGED <<relogio, tabelas, pc, agora, alvo, tentativa, vistos, resultado>>

\* Mutation: without demand the call ends its key without an outcome.
LerSemResultado(c) ==
    /\ pc[c] = "ler" /\ NoPrazo(c)
    /\ pc' = [pc EXCEPT ![c] = IF reservada[alvo[c]] THEN "gravar" ELSE "finalizar"]
    /\ vistos' = [vistos EXCEPT ![c] = {k \in Chave : plano[k]}]
    /\ UNCHANGED <<relogio, tabelas, agora, pendentes, alvo, tentativa, resultado>>

\* Planejar, first half: the confirmed reservas, the free vehicles and drivers.
Ler(c) ==
    /\ pc[c] = "ler" /\ NoPrazo(c)
    /\ IF reservada[alvo[c]]
       THEN /\ vistos' = [vistos EXCEPT ![c] = {k \in Chave : plano[k]}]
            /\ pc' = [pc EXCEPT ![c] = "gravar"]
            /\ UNCHANGED resultado
       ELSE /\ resultado' = [resultado EXCEPT ![c] = "sem_demanda"]
            /\ pc' = [pc EXCEPT ![c] = "finalizar"]
            /\ UNCHANGED vistos
    /\ UNCHANGED <<relogio, tabelas, agora, pendentes, alvo, tentativa>>

\* A vehicle or driver the call chose was given to another key meanwhile.
ConflitoDeRecursos(c) == \E k \in Chave \ vistos[c] : k # alvo[c] /\ plano[k]

\* Planejar, second half: the transaction of CreatePlanejamentoIda.
Gravar(c) ==
    /\ pc[c] = "gravar" /\ NoPrazo(c)
    /\ ~plano[alvo[c]]
    /\ plano' = [plano EXCEPT ![alvo[c]] = TRUE]
    /\ resultado' = [resultado EXCEPT ![c] = "concluido"]
    /\ pc' = [pc EXCEPT ![c] = "finalizar"]
    /\ UNCHANGED <<relogio, reservada, execucao, agora, pendentes, alvo, tentativa, vistos>>

\* The transaction commits but its answer is lost: an error for the call.
GravarSemResposta(c) ==
    /\ pc[c] = "gravar" /\ NoPrazo(c)
    /\ ~plano[alvo[c]]
    /\ plano' = [plano EXCEPT ![alvo[c]] = TRUE]
    /\ pc' = [pc EXCEPT ![c] = "falhar"]
    /\ UNCHANGED <<relogio, reservada, execucao, locais>>

\* A unique index refuses the transaction (ErrAlreadyExists): a reserva is
\* already in a trip, or a vehicle or driver is taken.  Processar reads it as
\* "already planned".
GravarJaExiste(c) ==
    /\ pc[c] = "gravar" /\ NoPrazo(c)
    /\ plano[alvo[c]] \/ ConflitoDeRecursos(c)
    /\ resultado' = [resultado EXCEPT ![c] = "concluido"]
    /\ pc' = [pc EXCEPT ![c] = "finalizar"]
    /\ UNCHANGED <<relogio, tabelas, agora, pendentes, alvo, tentativa, vistos>>

\* Mutation: every error of Planejar is taken for "already planned".
PlanejarErroConcluido(c) ==
    /\ pc[c] \in {"ler", "gravar"} /\ NoPrazo(c)
    /\ resultado' = [resultado EXCEPT ![c] = "concluido"]
    /\ pc' = [pc EXCEPT ![c] = "finalizar"]
    /\ UNCHANGED <<relogio, tabelas, agora, pendentes, alvo, tentativa, vistos>>

\* Any other error of Planejar, rolled back: no vehicle, no driver, the database.
PlanejarErro(c) ==
    /\ pc[c] \in {"ler", "gravar"} /\ NoPrazo(c)
    /\ pc' = [pc EXCEPT ![c] = "falhar"]
    /\ UNCHANGED <<relogio, tabelas, locais>>

\* The call is done with its key and goes on with the loop.
ProximoCandidato(c) ==
    /\ pc' = [pc EXCEPT ![c] = "varrer"]
    /\ alvo' = [alvo EXCEPT ![c] = Nenhuma]
    /\ tentativa' = [tentativa EXCEPT ![c] = 0]
    /\ vistos' = [vistos EXCEPT ![c] = {}]
    /\ resultado' = [resultado EXCEPT ![c] = "nenhum"]
    /\ UNCHANGED <<agora, pendentes>>

\* Mutation: the UPDATE outlives the context of its request.
FinalizarSemPrazo(c) ==
    /\ pc[c] = "finalizar"
    /\ execucao[alvo[c]].status = "processando"
    /\ execucao' = [execucao EXCEPT ![alvo[c]] = Finalizada(alvo[c], resultado[c])]
    /\ ProximoCandidato(c)
    /\ UNCHANGED <<relogio, reservada, plano>>

\* UPDATE ... WHERE id = @id AND status = 'processando'.
Finalizar(c) ==
    /\ pc[c] = "finalizar" /\ NoPrazo(c)
    /\ execucao[alvo[c]].status = "processando"
    /\ execucao' = [execucao EXCEPT ![alvo[c]] = Finalizada(alvo[c], resultado[c])]
    /\ ProximoCandidato(c)
    /\ UNCHANGED <<relogio, reservada, plano>>

\* FalharExecucao, after its own test that the retry is later than the failure.
Falhar(c) ==
    /\ pc[c] = "falhar" /\ NoPrazo(c)
    /\ execucao[alvo[c]].status = "processando"
    /\ execucao' = [execucao EXCEPT ![alvo[c]] = Falhada(alvo[c], agora[c], tentativa[c])]
    /\ ProximoCandidato(c)
    /\ UNCHANGED <<relogio, reservada, plano>>

\* Finalizar or Falhar fails in the database, or affects no row because the row
\* is no longer 'processando' (ErrExecucaoNaoProcessando): the call goes on, and
\* a claim it held stays until it lapses.
EncerrarErro(c) ==
    /\ pc[c] \in {"finalizar", "falhar"} /\ NoPrazo(c)
    /\ ProximoCandidato(c)
    /\ UNCHANGED <<relogio, tabelas>>

Encerra(c) ==
    /\ pc' = [pc EXCEPT ![c] = "ocioso"]
    /\ agora' = [agora EXCEPT ![c] = 0]
    /\ pendentes' = [pendentes EXCEPT ![c] = {}]
    /\ alvo' = [alvo EXCEPT ![c] = Nenhuma]
    /\ tentativa' = [tentativa EXCEPT ![c] = 0]
    /\ vistos' = [vistos EXCEPT ![c] = {}]
    /\ resultado' = [resultado EXCEPT ![c] = "nenhum"]
    /\ UNCHANGED <<relogio, tabelas>>

\* The loop ends and the handler answers.
Retornar(c) ==
    /\ pc[c] = "varrer" /\ pendentes[c] = {}
    /\ Encerra(c)

\* The process dies, the listing fails, or the context is cancelled: the call
\* stops where it is and the tables stay as they are.
Interromper(c) ==
    /\ pc[c] # "ocioso"
    /\ Encerra(c)

-----------------------------------------------------------------------------
\* Steps in which nothing goes wrong.
Passo(c) ==
    \/ Chamar(c) \/ Listar(c) \/ Ler(c) \/ Gravar(c) \/ GravarJaExiste(c)
    \/ Finalizar(c) \/ Falhar(c) \/ Retornar(c)
    \/ \E k \in Chave : Adquirir(c, k) \/ Recusar(c, k)

\* Steps in which the database, the caller or the process fails.
Falha(c) ==
    \/ PlanejarErro(c) \/ GravarSemResposta(c) \/ EncerrarErro(c) \/ Interromper(c)
    \/ \E k \in Chave : IniciarErro(c, k)

Passageiros == \E k \in Chave : CriarReserva(k) \/ CancelarReservas(k)

Next ==
    \/ Tick
    \/ Passageiros
    \/ \E c \in Chamada : Passo(c) \/ Falha(c)

Spec == Init /\ [][Next]_vars
-----------------------------------------------------------------------------
(* Properties *)

TypeOK ==
    /\ relogio \in Nat
    /\ reservada \in [Chave -> BOOLEAN]
    /\ execucao \in [Chave -> Execucao]
    /\ plano \in [Chave -> BOOLEAN]
    /\ pc \in [Chamada -> {"ocioso", "listar", "varrer"} \cup ComClaim]
    /\ agora \in [Chamada -> Nat]
    /\ pendentes \in [Chamada -> SUBSET Chave]
    /\ alvo \in [Chamada -> Chave \cup {Nenhuma}]
    /\ tentativa \in [Chamada -> Nat]
    /\ vistos \in [Chamada -> SUBSET Chave]
    /\ resultado \in [Chamada -> {"nenhum"} \cup Terminal]
    /\ \A c \in Chamada : pc[c] \in ComClaim => alvo[c] \in Chave
    /\ \A c \in Chamada : pc[c] = "finalizar" => resultado[c] \in Terminal

\* No UPDATE of a call, however late it comes, is refused by the constraint
\* chk_execucoes_planejamento_estado of the table.
EstadoExecucao ==
    \A k \in Chave : LET e == execucao[k] IN
        \/ e = SemExecucao
        \/ /\ e.status = "processando" /\ ~e.ultimoErro
           /\ e.bloqueioExpiraEm > e.iniciadoEm
           /\ e.proximaTentativaEm = Nulo /\ e.finalizadoEm = Nulo
           /\ e.tentativas > 0
        \/ /\ e.status \in Terminal /\ ~e.ultimoErro
           /\ e.bloqueioExpiraEm = Nulo /\ e.proximaTentativaEm = Nulo
           /\ e.finalizadoEm # Nulo /\ e.tentativas > 0
        \/ /\ e.status = "falhou" /\ e.ultimoErro
           /\ e.bloqueioExpiraEm = Nulo /\ e.finalizadoEm # Nulo
           /\ e.proximaTentativaEm > e.finalizadoEm /\ e.tentativas > 0

\* The call holds a claim and could still write.
Planejando(c) == pc[c] \in ComClaim /\ NoPrazo(c)

\* Two calls never plan the same key at once: "isso impede processamento
\* duplicado por chamadas concorrentes" (docs/architecture.md:65).
ExclusaoPorChave ==
    \A c, d \in Chamada :
        Planejando(c) /\ Planejando(d) /\ alvo[c] = alvo[d] => c = d

\* While a call can still end its key, the row of the key is the claim that
\* call took: no other claim has replaced it and nobody has ended it.
ClaimVivo ==
    \A c \in Chamada : Planejando(c) =>
        LET e == execucao[alvo[c]] IN
        /\ e.status = "processando"
        /\ e.tentativas = tentativa[c]
        /\ e.iniciadoEm = agora[c]

\* Any row that leaves 'processando' is ended by the call whose claim it carries.
EncerraProprio ==
    \A k \in Chave :
        execucao[k].status = "processando" /\ execucao'[k].status # "processando" =>
            \E c \in Chamada : /\ pc[c] \in {"finalizar", "falhar"}
                              /\ alvo[c] = k
                              /\ tentativa[c] = execucao[k].tentativas

\* A step that takes a row out of 'processando' is the Finalizar or Falhar of
\* the call whose claim the row carries, never that of an earlier claim.
EncerraProprioClaim == [][EncerraProprio]_vars

\* Attempts are spaced: the n-th claim of a key starts at least n - 1 first
\* intervals after the key closed, and before departure.
TentativasEspacadas ==
    \A k \in Chave : execucao[k].status # "ausente" =>
        /\ Fechamento(k) + (execucao[k].tentativas - 1) * IntervaloRetryInicial
              <= execucao[k].iniciadoEm
        /\ execucao[k].iniciadoEm < Partida[k]

\* An execution that ended is never opened again, whatever calls are still
\* running or are started later.
TerminalEstavel ==
    [][\A k \in Chave : execucao[k].status \in Terminal => execucao'[k] = execucao[k]]_vars

\* 'concluido' says that the trips of the key exist.
ConcluidoTemPlano ==
    \A k \in Chave : execucao[k].status = "concluido" => plano[k]

\* When an execution ends without demand, no student is left with a confirmed
\* reserva for the key.
SemDemandaSemReserva ==
    \A k \in Chave : execucao[k].status = "sem_demanda" => ~reservada[k]

=============================================================================
