------------------------ MODULE ReservaPlanejamento ------------------------
(***************************************************************************)
(* Students booking while the planner works: the requests of               *)
(* internal/reservas against the claim, the snapshot and the transaction   *)
(* of the planner (internal/viagens).                                      *)
(*                                                                         *)
(* A request that confirms a reserva validates its deadline first, then    *)
(* takes the advisory lock of the key, checks that no execution of the key *)
(* exists, writes and commits.  The planner takes the same lock only to    *)
(* insert the execution; it lists the reservas and writes the trips later, *)
(* without it.  A PUT does all this holding the row of the reserva, and    *)
(* validates through a second connection of the pool.                      *)
(*                                                                         *)
(* There is no clock: departures can be edited at any time, so the         *)
(* deadline test of a request may come out either way at any time, and so  *)
(* may the planner's window test.  Nothing below relies on either.         *)
(*                                                                         *)
(* One planner per key at a time (ExclusaoPorChave of                      *)
(* ProcessadorPlanejamento); leases and backoff are there, here a retry    *)
(* may come at any time.  Keys are of the direction "ida" and of one rota  *)
(* interna; every reserva is of a vinculo of its own.                      *)
(***************************************************************************)
EXTENDS Integers, FiniteSets

CONSTANTS
    Vaga,              \* date and shift
    Municipio,
    Reserva,
    Pedido,            \* requests that may run at once
    Conexoes,          \* size of the connection pool
    destinoDe,         \* destino of every reserva, a snapshot of its vinculo
    municipioInicial,  \* municipio of every destino at the start
    Remarca,           \* do PUTs change the date or the shift?
    MudaMunicipio      \* does the admin edit the municipio of a destino?

Destino == DOMAIN municipioInicial
Chave   == Vaga \X Municipio

ASSUME AmbienteAssumption ==
    /\ destinoDe \in [Reserva -> Destino]
    /\ municipioInicial \in [Destino -> Municipio]
    /\ Vaga # {}
    /\ Conexoes \in Nat \ {0}
    /\ Remarca \in BOOLEAN /\ MudaMunicipio \in BOOLEAN

ASSUME FinitosAssumption ==
    IsFiniteSet(Pedido) /\ IsFiniteSet(Vaga) /\ IsFiniteSet(Municipio)

VARIABLES
    municipio,    \* municipio of every destino
    reserva,      \* the table reservas
    alocada,      \* alocada[r]: key of the trip with an active viagem_reservas row of r
    execucao,     \* status in execucoes_planejamento
    planejador,   \* what the planner of a key does next
    lidas,        \* reservas the planner of a key has listed
    resultado,    \* status the planner of a key will write
    pc,           \* what a request does next
    pedido        \* what a request is about to write, and the key it locks

banco       == <<municipio, reserva, alocada, execucao>>
doPlano     == <<planejador, lidas, resultado>>
doPedido    == <<pc, pedido>>
vars        == <<banco, doPlano, doPedido>>

Nenhuma == <<>>       \* no key, no reserva

Terminal == {"concluido", "sem_demanda"}
Status   == {"ausente", "processando", "falhou"} \cup Terminal

ChaveDe(r)     == <<reserva[r].vaga, municipio[destinoDe[r]]>>
Confirmadas(k) == {r \in Reserva : reserva[r].status = "confirmada" /\ ChaveDe(r) = k}

QualquerVaga == CHOOSE v \in Vaga : TRUE

SemPedido == [tipo |-> "nenhum", reserva |-> Nenhuma, vaga |-> QualquerVaga,
              status |-> "cancelada", chave |-> Nenhuma]

-----------------------------------------------------------------------------
(* Locks and connections, held from the step that takes them to the commit *)

EmTransacao == {p \in Pedido : pc[p] \in {"selecionar", "validar", "travar", "verificar", "gravar"}}

\* Connections free in the pool.
Livres == Conexoes - Cardinality(EmTransacao)
                   - Cardinality({k \in Chave : planejador[k] \in {"travar", "iniciar", "gravar"}})

\* pg_advisory_xact_lock of the key.
Travada(k) ==
    \/ planejador[k] = "iniciar"
    \/ \E p \in Pedido : pc[p] \in {"verificar", "gravar"} /\ pedido[p].chave = k

\* SELECT ... FOR UPDATE of the row of a reserva, by the PUT that edits it.
LinhaPresa(r) ==
    \E p \in EmTransacao : /\ pedido[p].tipo = "editar" /\ pc[p] # "selecionar"
                           /\ pedido[p].reserva = r

\* Mutation: the row of the destino is read without FOR SHARE.
DestinoSolto(d) == FALSE

\* SELECT municipio_id ... FOR SHARE of the row of a destino.
DestinoPreso(d) ==
    \E p \in Pedido : pc[p] \in {"verificar", "gravar"} /\ destinoDe[pedido[p].reserva] = d

-----------------------------------------------------------------------------
Init ==
    /\ municipio = municipioInicial
    /\ reserva = [r \in Reserva |-> [vaga |-> QualquerVaga, status |-> "ausente"]]
    /\ alocada = [r \in Reserva |-> Nenhuma]
    /\ execucao = [k \in Chave |-> "ausente"]
    /\ planejador = [k \in Chave |-> "ocioso"]
    /\ lidas = [k \in Chave |-> {}]
    /\ resultado = [k \in Chave |-> "sem_demanda"]
    /\ pc = [p \in Pedido |-> "ocioso"]
    /\ pedido = [p \in Pedido |-> SemPedido]

(* The environment *)

\* PUT of a destino by the admin, with another municipio.
MudarMunicipio(d, m) ==
    /\ MudaMunicipio /\ ~DestinoPreso(d) /\ m # municipio[d]
    /\ municipio' = [municipio EXCEPT ![d] = m]
    /\ UNCHANGED <<reserva, alocada, execucao, doPlano, doPedido>>

-----------------------------------------------------------------------------
(* Requests *)

\* POST: validateCreateInput, the snapshot of the vinculo, validarPrazoReserva.
Criar(p, r, v) ==
    /\ pc[p] = "ocioso" /\ Livres > 0
    /\ reserva[r].status = "ausente"
    /\ \A q \in Pedido : pc[q] # "ocioso" => pedido[q].reserva # r
    /\ pc' = [pc EXCEPT ![p] = "abrir"]
    /\ pedido' = [pedido EXCEPT ![p] = [tipo |-> "criar", reserva |-> r, vaga |-> v,
                                        status |-> "confirmada", chave |-> Nenhuma]]
    /\ UNCHANGED <<banco, doPlano>>

\* POST: the transaction of reservaStore.Create begins.
Abrir(p) ==
    /\ pc[p] = "abrir" /\ Livres > 0
    /\ pc' = [pc EXCEPT ![p] = "travar"]
    /\ UNCHANGED <<banco, doPlano, pedido>>

\* PUT and cancelar (reservaStore.Update), DELETE (reservaStore.Delete): the
\* request takes a connection and waits for the row of the reserva.
Editar(p, r, tipo) ==
    /\ pc[p] = "ocioso" /\ Livres > 0
    /\ reserva[r].status # "ausente"
    /\ pc' = [pc EXCEPT ![p] = "selecionar"]
    /\ pedido' = [pedido EXCEPT ![p].tipo = tipo, ![p].reserva = r]
    /\ UNCHANGED <<banco, doPlano>>

\* The reserva as the request writes it.
Gravada(p) == [reserva EXCEPT ![pedido[p].reserva] =
                  [vaga |-> pedido[p].vaga, status |-> pedido[p].status]]

\* The request answers; an open transaction is over.
Responder(p) ==
    /\ pc' = [pc EXCEPT ![p] = "ocioso"]
    /\ pedido' = [pedido EXCEPT ![p] = SemPedido]

\* PUT: the row is selected for update and applyReservaUpdate changes it; the
\* request ends here if the row is gone or holds what was asked for.
Selecionar(p) ==
    LET r == pedido[p].reserva IN
    /\ pc[p] = "selecionar" /\ pedido[p].tipo = "editar" /\ ~LinhaPresa(r)
    /\ \/ Responder(p)
       \/ /\ reserva[r].status # "excluida"
          /\ \E v \in Vaga, s \in {"confirmada", "cancelada"} :
                /\ [vaga |-> v, status |-> s] # reserva[r]
                /\ v # reserva[r].vaga => Remarca
                /\ pedido' = [pedido EXCEPT ![p].vaga = v, ![p].status = s]
          /\ pc' = [pc EXCEPT ![p] = "validar"]
    /\ UNCHANGED <<banco, doPlano>>

\* PUT: validateReserva, through another connection than the transaction's.
\* A reserva that stays confirmed has its deadline checked; one that is
\* cancelled is written at once.
Validar(p) ==
    /\ pc[p] = "validar" /\ Livres > 0
    /\ IF pedido[p].status = "cancelada"
       THEN reserva' = Gravada(p) /\ Responder(p)
       ELSE /\ \/ pc' = [pc EXCEPT ![p] = "travar"] /\ UNCHANGED pedido
               \/ Responder(p)
            /\ UNCHANGED reserva
    /\ UNCHANGED <<municipio, alocada, execucao, doPlano>>

\* Mutations: the key of the lock is not recorded; the lock is not taken.
TravarSemChave(p) ==
    /\ pc[p] = "travar"
    /\ ~Travada(<<pedido[p].vaga, municipio[destinoDe[pedido[p].reserva]]>>)
    /\ pc' = [pc EXCEPT ![p] = "verificar"]
    /\ UNCHANGED <<banco, doPlano, pedido>>

TravarSemTrava(p) ==
    /\ pc[p] = "travar"
    /\ pedido' = [pedido EXCEPT ![p].chave =
                      <<pedido[p].vaga, municipio[destinoDe[pedido[p].reserva]]>>]
    /\ pc' = [pc EXCEPT ![p] = "verificar"]
    /\ UNCHANGED <<banco, doPlano>>

\* bloquearSePlanejamentoIniciado: the municipio of the destino, then the lock.
Travar(p) ==
    LET k == <<pedido[p].vaga, municipio[destinoDe[pedido[p].reserva]]>> IN
    /\ pc[p] = "travar"
    /\ ~Travada(k)
    /\ pedido' = [pedido EXCEPT ![p].chave = k]
    /\ pc' = [pc EXCEPT ![p] = "verificar"]
    /\ UNCHANGED <<banco, doPlano>>

\* Mutation: a refusal that leaves its transaction open.
VerificarSemRollback(p) ==
    /\ pc[p] = "verificar"
    /\ execucao[pedido[p].chave] = "ausente"
    /\ pc' = [pc EXCEPT ![p] = "gravar"]
    /\ UNCHANGED <<banco, doPlano, pedido>>

\* Mutation: a key whose execution was not concluded is taken for open.
VerificarConclusao(p) ==
    /\ pc[p] = "verificar"
    /\ IF execucao[pedido[p].chave] \notin Terminal
       THEN pc' = [pc EXCEPT ![p] = "gravar"] /\ UNCHANGED pedido
       ELSE Responder(p)
    /\ UNCHANGED <<banco, doPlano>>

\* bloquearSePlanejamentoIniciado: ErrPrazoReservaEncerrado if the key has a row.
Verificar(p) ==
    /\ pc[p] = "verificar"
    /\ IF execucao[pedido[p].chave] = "ausente"
       THEN pc' = [pc EXCEPT ![p] = "gravar"] /\ UNCHANGED pedido
       ELSE Responder(p)
    /\ UNCHANGED <<banco, doPlano>>

\* INSERT or UPDATE, and the commit that releases the locks.
Gravar(p) ==
    /\ pc[p] = "gravar"
    /\ reserva' = Gravada(p)
    /\ Responder(p)
    /\ UNCHANGED <<municipio, alocada, execucao, doPlano>>

\* POST .../cancelar: an Update without validation and without the lock of the key.
Cancelar(p) ==
    LET r == pedido[p].reserva IN
    /\ pc[p] = "selecionar" /\ pedido[p].tipo = "cancelar" /\ ~LinhaPresa(r)
    /\ IF reserva[r].status = "confirmada"
       THEN reserva' = [reserva EXCEPT ![r].status = "cancelada"]
       ELSE UNCHANGED reserva
    /\ Responder(p)
    /\ UNCHANGED <<municipio, alocada, execucao, doPlano>>

\* DELETE: refused by the foreign key once the reserva is in a trip.
Excluir(p) ==
    LET r == pedido[p].reserva IN
    /\ pc[p] = "selecionar" /\ pedido[p].tipo = "excluir" /\ ~LinhaPresa(r)
    /\ IF alocada[r] = Nenhuma
       THEN reserva' = [reserva EXCEPT ![r].status = "excluida"]
       ELSE UNCHANGED reserva
    /\ Responder(p)
    /\ UNCHANGED <<municipio, alocada, execucao, doPlano>>

\* The client hangs up, or the process dies: the transaction rolls back.
Desistir(p) ==
    /\ pc[p] # "ocioso"
    /\ Responder(p)
    /\ UNCHANGED <<banco, doPlano>>

-----------------------------------------------------------------------------
(* The planner of a key *)

Avancar(k, proximo) == planejador' = [planejador EXCEPT ![k] = proximo]

\* ListCandidatos finds the key and the window test admits it.
Candidatar(k) ==
    /\ planejador[k] = "ocioso" /\ Livres > 0
    /\ Confirmadas(k) # {}
    /\ execucao[k] \notin Terminal
    /\ Avancar(k, "candidato")
    /\ UNCHANGED <<banco, lidas, resultado, doPedido>>

\* TentarIniciar begins its transaction ...
AbrirExecucao(k) ==
    /\ planejador[k] = "candidato" /\ Livres > 0
    /\ Avancar(k, "travar")
    /\ UNCHANGED <<banco, lidas, resultado, doPedido>>

\* Mutation: TentarIniciar without the advisory lock.
TravarExecucaoSemTrava(k) ==
    /\ planejador[k] = "travar"
    /\ Avancar(k, "iniciar")
    /\ UNCHANGED <<banco, lidas, resultado, doPedido>>

\* ... takes the advisory lock of the key ...
TravarExecucao(k) ==
    /\ planejador[k] = "travar" /\ ~Travada(k)
    /\ Avancar(k, "iniciar")
    /\ UNCHANGED <<banco, lidas, resultado, doPedido>>

\* ... and commits the upsert, which releases it.
Iniciar(k) ==
    /\ planejador[k] = "iniciar"
    /\ execucao' = [execucao EXCEPT ![k] = "processando"]
    /\ Avancar(k, "ler")
    /\ UNCHANGED <<municipio, reserva, alocada, lidas, resultado, doPedido>>

\* planejarIda: ListReservasConfirmadasParaPlanejamento.
Ler(k) ==
    /\ planejador[k] = "ler" /\ Livres > 0
    /\ lidas' = [lidas EXCEPT ![k] = Confirmadas(k)]
    /\ IF Confirmadas(k) = {}
       THEN resultado' = [resultado EXCEPT ![k] = "sem_demanda"] /\ Avancar(k, "finalizar")
       ELSE UNCHANGED resultado /\ Avancar(k, "planejar")
    /\ UNCHANGED <<banco, doPedido>>

\* CreatePlanejamentoIda begins its transaction.
AbrirPlano(k) ==
    /\ planejador[k] = "planejar" /\ Livres > 0
    /\ Avancar(k, "gravar")
    /\ UNCHANGED <<banco, lidas, resultado, doPedido>>

Encaminhar(k, r) ==
    /\ resultado' = [resultado EXCEPT ![k] = r]
    /\ Avancar(k, "finalizar")

\* The foreign key to reservas waits for the rows that PUTs hold.
LinhasLivres(k) == \A r \in lidas[k] : ~LinhaPresa(r)

\* The trips with all the listed reservas, in one commit.
GravarPlano(k) ==
    /\ planejador[k] = "gravar" /\ LinhasLivres(k)
    /\ \A r \in lidas[k] : alocada[r] = Nenhuma /\ reserva[r].status # "excluida"
    /\ alocada' = [r \in Reserva |-> IF r \in lidas[k] THEN k ELSE alocada[r]]
    /\ Encaminhar(k, "concluido")
    /\ UNCHANGED <<municipio, reserva, execucao, lidas, doPedido>>

\* uq_viagem_reservas_reserva_ativa: a listed reserva is in a trip already.  The
\* transaction rolls back and Processar takes the key for planned.
GravarJaExiste(k) ==
    /\ planejador[k] = "gravar" /\ LinhasLivres(k)
    /\ \E r \in lidas[k] : alocada[r] # Nenhuma
    /\ Encaminhar(k, "concluido")
    /\ UNCHANGED <<banco, lidas, doPedido>>

\* A listed reserva was deleted, or no vehicle, no driver, a database error.
GravarErro(k) ==
    /\ planejador[k] = "gravar" /\ LinhasLivres(k)
    /\ Encaminhar(k, "falhou")
    /\ UNCHANGED <<banco, lidas, doPedido>>

\* Finalizar or Falhar.
Finalizar(k) ==
    /\ planejador[k] = "finalizar" /\ Livres > 0
    /\ execucao' = [execucao EXCEPT ![k] = resultado[k]]
    /\ Avancar(k, "ocioso")
    /\ lidas' = [lidas EXCEPT ![k] = {}]
    /\ UNCHANGED <<municipio, reserva, alocada, resultado, doPedido>>

\* The call that plans the key dies; a later call takes the claim over.
Interromper(k) ==
    /\ planejador[k] # "ocioso"
    /\ Avancar(k, "ocioso")
    /\ lidas' = [lidas EXCEPT ![k] = {}]
    /\ UNCHANGED <<banco, resultado, doPedido>>

-----------------------------------------------------------------------------
PassoPedido(p) ==
    \/ Abrir(p) \/ Selecionar(p) \/ Validar(p) \/ Travar(p) \/ Verificar(p) \/ Gravar(p)
    \/ Cancelar(p) \/ Excluir(p)

NovoPedido(p) ==
    \E r \in Reserva :
        \/ \E v \in Vaga : Criar(p, r, v)
        \/ \E tipo \in {"editar", "cancelar", "excluir"} : Editar(p, r, tipo)

PassoPlanejador(k) ==
    \/ AbrirExecucao(k) \/ TravarExecucao(k) \/ Iniciar(k) \/ Ler(k) \/ AbrirPlano(k)
    \/ GravarPlano(k) \/ GravarJaExiste(k) \/ GravarErro(k) \/ Finalizar(k)

Ambiente == \E d \in Destino, m \in Municipio : MudarMunicipio(d, m)

Next ==
    \/ Ambiente
    \/ \E p \in Pedido : NovoPedido(p) \/ PassoPedido(p) \/ Desistir(p)
    \/ \E k \in Chave : Candidatar(k) \/ PassoPlanejador(k) \/ Interromper(k)

Spec == Init /\ [][Next]_vars

\* PostgreSQL queues for locks and pgxpool queues for connections, so a step
\* that is possible again and again is taken.
Justica ==
    /\ \A p \in Pedido : SF_vars(PassoPedido(p))
    /\ \A k \in Chave : SF_vars(PassoPlanejador(k))

SpecJusta == Spec /\ Justica
-----------------------------------------------------------------------------
(* Properties *)

TypeOK ==
    /\ municipio \in [Destino -> Municipio]
    /\ reserva \in [Reserva -> [vaga : Vaga,
                                status : {"ausente", "confirmada", "cancelada", "excluida"}]]
    /\ alocada \in [Reserva -> Chave \cup {Nenhuma}]
    /\ execucao \in [Chave -> Status]
    /\ planejador \in [Chave -> {"ocioso", "candidato", "travar", "iniciar", "ler",
                                 "planejar", "gravar", "finalizar"}]
    /\ lidas \in [Chave -> SUBSET Reserva]
    /\ resultado \in [Chave -> Terminal \cup {"falhou"}]
    /\ pc \in [Pedido -> {"ocioso", "abrir", "selecionar", "validar", "travar", "verificar", "gravar"}]
    /\ pedido \in [Pedido -> [tipo : {"nenhum", "criar", "editar", "cancelar", "excluir"},
                              reserva : Reserva \cup {Nenhuma}, vaga : Vaga,
                              status : {"confirmada", "cancelada"},
                              chave : Chave \cup {Nenhuma}]]
    /\ Livres >= 0
    /\ \A p \in Pedido : pc[p] # "ocioso" => pedido[p].reserva \in Reserva
    /\ \A p \in Pedido : pc[p] \in {"verificar", "gravar"} => pedido[p].chave \in Chave

\* The confirmed reservas of a key that has an execution do not become more.
SemAcrescimo == \A k \in Chave :
    execucao[k] # "ausente" => Confirmadas(k)' \subseteq Confirmadas(k)

\* No request makes a reserva one of the confirmed ones of a key that has an
\* execution, whatever it read before the execution began and even if the
\* destino moves to another municipio meanwhile.
PedidoNaoEntra == [][municipio' = municipio => SemAcrescimo]_vars

\* When the planning of a key is concluded, every student with a confirmed
\* reserva of the key is in a trip of the key, however the requests, the
\* crashes and the retries interleaved.
TodaConfirmadaPlanejada ==
    \A k \in Chave : execucao[k] = "concluido" =>
        \A r \in Confirmadas(k) : alocada[r] = k

\* A key that ended without demand has no confirmed reserva, then or later.
SemDemandaVazia ==
    \A k \in Chave : execucao[k] = "sem_demanda" => Confirmadas(k) = {}

\* Every request is answered: nobody waits for ever for a lock or a connection.
PedidoTermina ==
    \A p \in Pedido : pc[p] # "ocioso" ~> pc[p] = "ocioso"
=============================================================================
