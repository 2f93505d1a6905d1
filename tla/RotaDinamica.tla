---------------------------- MODULE RotaDinamica ----------------------------
(***************************************************************************)
(* The dynamic routes of internal/rotasdinamicas: the worker, the manual   *)
(* calculation, routes written by hand, and the invalidation after a       *)
(* reserva changes, against the planner that creates the trips.            *)
(*                                                                         *)
(* A calculation reads the passengers, asks OSRM, which takes seconds, and *)
(* inserts; a reserva is cancelled in one transaction and its routes are   *)
(* deleted in another.  Anything may happen in between.                    *)
(*                                                                         *)
(* Time counts units of ten minutes.  The worker goes round at least once  *)
(* in a unit (its interval is five minutes), which Passar enforces.  The   *)
(* trips are those of one key, so they share their departure.              *)
(***************************************************************************)
EXTENDS Otimizador

CONSTANTS
    Viagem, Reserva, Destino,
    viagemDe,           \* trip the planner will put a reserva in
    destinoDe,
    Antecedencia,       \* planning starts this long before the departure
    JanelaCalculo,      \* the worker looks this far ahead ...
    JanelaBloqueio,     \* ... and not nearer than this
    Horarios,           \* departures the admin may set
    horarioInicial,
    Fim,                \* bound: the clock stops here
    MaxEdicoes,         \* bound: departures edited or removed
    MaxFalhas,          \* bound: failures of OSRM or of the database
    MaxPedidos          \* bound: requests of clients, drivers and admins

ASSUME JanelasAssumption ==
    /\ {Antecedencia, JanelaBloqueio, JanelaCalculo, Fim} \subseteq Nat
    /\ JanelaBloqueio < JanelaCalculo
    /\ Horarios \subseteq 1 .. Fim /\ horarioInicial \in Horarios
    /\ Viagem # {} /\ viagemDe \in [Reserva -> Viagem] /\ destinoDe \in [Reserva -> Destino]

Calculo == {"worker", "admin"}

VARIABLES
    agora,
    horario,        \* horarios_turno_viagem of the key, if there is one
    candidata,      \* the planner has found the key due
    planejada,      \* departure of the trips; 0 before they exist
    situacao,       \* status of every trip
    confirmada,     \* reservas with status "confirmada"
    passageira,     \* reservas with an active viagem_reservas row
    remarcada,      \* reservas with another date than the key's
    rota,           \* rotas_dinamicas of every trip
    calculo,        \* what a calculation has read and does next
    fila,           \* trips the worker has yet to calculate in this round
    rodou,          \* the worker has been round in this unit of time
    invalidar,      \* reservas that changed, their routes not yet deleted
    antiga,         \* history: trips whose route was overtaken by a cancellation
    quantas         \* bounded events

relogio == <<agora, horario, candidata, planejada>>
tabelas == <<situacao, confirmada, passageira, remarcada>>
doWorker == <<calculo, fila, rodou>>
vars == <<relogio, tabelas, rota, doWorker, invalidar, antiga, quantas>>

SemRota == [origem |-> "nenhuma", destinos |-> {}]
SemHorario == -1
Ocioso  == [fase |-> "ocioso", viagem |-> CHOOSE v \in Viagem : TRUE, destinos |-> {}]

Existem == planejada > 0
Contar(q, max) == quantas[q] < max /\ quantas' = [quantas EXCEPT ![q] = @ + 1]

DaViagem(v) == {r \in Reserva : viagemDe[r] = v}

\* Where the reservas of R that are for the trip go.
DestinosDe(v, R) == {destinoDe[r] : r \in DaViagem(v) \cap R}

Rotas == [origem : {"nenhuma", "calculada", "manual"}, destinos : SUBSET Destino]

\* insertRotaDinamica and insertRotaDinamicaDestino
Nova(origem, D) == [origem |-> origem, destinos |-> D]

\* RotaDinamicaStore.Create, one transaction: unique index on viagem_id.
Incluir(v, r) == rota' = IF rota[v] = SemRota THEN [rota EXCEPT ![v] = r] ELSE rota

\* normalizeRotaDinamicaInput: destinos there are, and none twice.
EntradaValida(ds) == ds # <<>> /\ IsInjective(ds)

\* Mutation: the destinos of one passenger only.
DestinosDoPrimeiro(v) ==
    LET D == DestinosDe(v, confirmada \cap passageira)
    IN  IF D = {} THEN {} ELSE {CHOOSE d \in D : TRUE}

\* listDestinosCalculo: those of the active, confirmed passengers of the trip.
DestinosCalculo(v) == DestinosDe(v, confirmada \cap passageira)

Init ==
    /\ agora = 0 /\ horario = horarioInicial
    /\ candidata = FALSE /\ planejada = 0
    /\ situacao = [v \in Viagem |-> "programada"]
    /\ confirmada = Reserva /\ passageira = {} /\ remarcada = {}
    /\ rota = [v \in Viagem |-> SemRota]
    /\ calculo = [c \in Calculo |-> Ocioso]
    /\ fila = {} /\ rodou = FALSE
    /\ invalidar = {} /\ antiga = {}
    /\ quantas = [edicoes |-> 0, falhas |-> 0, pedidos |-> 0]

-----------------------------------------------------------------------------
(* Time, the admin and the planner *)

\* Time passes once the worker has been round.
Passar ==
    /\ agora < Fim /\ rodou /\ calculo["worker"].fase = "ocioso" /\ fila = {}
    /\ agora' = agora + 1
    /\ rodou' = FALSE
    /\ UNCHANGED <<horario, candidata, planejada, tabelas, rota, calculo, fila,
                   invalidar, antiga, quantas>>

GravarHorario(h) ==
    /\ horario' = h
    /\ UNCHANGED <<agora, candidata, planejada, tabelas, rota, doWorker, invalidar, antiga>>

\* The handler of the PUT saves what it was given if it differs.
Mudanca(h) == h # horario

\* The departure time of the shift is edited, removed and created again: trips
\* that exist keep theirs.
EditarHorario(h) ==
    horario # SemHorario /\ Mudanca(h) /\ GravarHorario(h) /\ Contar("edicoes", MaxEdicoes)
ExcluirHorario ==
    horario # SemHorario /\ GravarHorario(SemHorario) /\ Contar("edicoes", MaxEdicoes)
CriarHorario(h) == horario = SemHorario /\ GravarHorario(h) /\ UNCHANGED quantas

\* ListCandidatos and the window of the processor.
Candidatar ==
    /\ ~candidata /\ ~Existem /\ horario # SemHorario
    /\ horario - Antecedencia <= agora /\ agora < horario
    /\ candidata' = TRUE
    /\ UNCHANGED <<agora, horario, planejada, tabelas, rota, doWorker, invalidar, antiga, quantas>>

\* Planejar reads the departure again, if there is one, and creates the trips.
Planejar ==
    /\ candidata /\ ~Existem /\ horario # SemHorario /\ confirmada \ remarcada # {}
    /\ planejada' = horario
    /\ passageira' = confirmada \ remarcada
    /\ UNCHANGED <<agora, horario, candidata, situacao, confirmada, remarcada, rota, doWorker,
                   invalidar, antiga, quantas>>

-----------------------------------------------------------------------------
(* Calculations *)

\* Mutation: the trips that have not reached the window.
AntesDaJanela ==
    {v \in Viagem :
        /\ Existem /\ situacao[v] = "programada" /\ rota[v] = SemRota
        /\ agora + JanelaCalculo < planejada
        /\ DestinosCalculo(v) # {}}

\* ListViagensPendentesCalculo
Pendentes ==
    {v \in Viagem :
        /\ Existem /\ situacao[v] = "programada" /\ rota[v] = SemRota
        /\ agora + JanelaBloqueio < planejada /\ planejada <= agora + JanelaCalculo
        /\ DestinosCalculo(v) # {}}

\* Processar: a round of the worker begins, or its listing fails.
Rodar ==
    /\ ~rodou /\ calculo["worker"].fase = "ocioso"
    /\ rodou' = TRUE
    /\ \/ fila' = Pendentes /\ UNCHANGED quantas
       \/ fila' = {} /\ Contar("falhas", MaxFalhas)
    /\ UNCHANGED <<relogio, tabelas, rota, calculo, invalidar, antiga>>

\* Its loop takes the next trip.
Proxima(v) ==
    /\ calculo["worker"].fase = "ocioso" /\ v \in fila
    /\ fila' = fila \ {v}
    /\ calculo' = [calculo EXCEPT !["worker"] = [Ocioso EXCEPT !.fase = "ler", !.viagem = v]]
    /\ UNCHANGED <<relogio, tabelas, rota, rodou, invalidar, antiga, quantas>>

\* POST .../rota-dinamica/calcular, whatever the departure and the status.
CalcularManual(v) ==
    /\ Existem /\ calculo["admin"].fase = "ocioso" /\ Contar("pedidos", MaxPedidos)
    /\ calculo' = [calculo EXCEPT !["admin"] = [Ocioso EXCEPT !.fase = "ler", !.viagem = v]]
    /\ UNCHANGED <<relogio, tabelas, rota, fila, rodou, invalidar, antiga>>

Encerrar(c) == calculo' = [calculo EXCEPT ![c] = Ocioso]

\* validateDadosCalculo: without passengers, an error.
Calculavel(D) == D # {}

\* GetDadosCalculo.
Ler(c) ==
    LET D == DestinosCalculo(calculo[c].viagem) IN
    /\ calculo[c].fase = "ler"
    /\ IF Calculavel(D) THEN calculo' = [calculo EXCEPT ![c].fase = "ordenar", ![c].destinos = D]
       ELSE Encerrar(c)
    /\ UNCHANGED <<relogio, tabelas, rota, fila, rodou, invalidar, antiga, quantas>>

\* CalcularMatriz answered, and the destinos have an order (Otimizador).
Ordenar(c) ==
    /\ calculo[c].fase = "ordenar"
    /\ calculo' = [calculo EXCEPT ![c].fase = "gravar"]
    /\ UNCHANGED <<relogio, tabelas, rota, fila, rodou, invalidar, antiga, quantas>>

\* OSRM does not answer, has no way to a destino, or the insert fails: nothing
\* is stored.
Falhar(c) ==
    /\ calculo[c].fase \in {"ordenar", "gravar"} /\ Contar("falhas", MaxFalhas)
    /\ Encerrar(c)
    /\ UNCHANGED <<relogio, tabelas, rota, fila, rodou, invalidar, antiga>>

\* CalcularRota answered: the route is stored, unless the trip has one.
Gravar(c) ==
    LET v == calculo[c].viagem
        D == calculo[c].destinos
    IN
    /\ calculo[c].fase = "gravar"
    /\ Incluir(v, Nova("calculada", D))
    /\ antiga' = IF rota'[v] = rota[v] THEN antiga
                 ELSE IF D = DestinosDe(v, confirmada \cap passageira)
                      THEN antiga \ {v} ELSE antiga \cup {v}
    /\ Encerrar(c)
    /\ UNCHANGED <<relogio, tabelas, fila, rodou, invalidar, quantas>>

-----------------------------------------------------------------------------
(* Routes written and deleted by hand *)

\* POST of a route with its destinos.
Criar(v, ds) ==
    /\ Existem /\ EntradaValida(ds) /\ rota[v] = SemRota /\ Contar("pedidos", MaxPedidos)
    /\ Incluir(v, Nova("manual", Range(ds)))
    /\ UNCHANGED <<relogio, tabelas, doWorker, invalidar, antiga>>

\* DELETE of a route.
Excluir(v) ==
    /\ rota[v] # SemRota /\ Contar("pedidos", MaxPedidos)
    /\ rota' = [rota EXCEPT ![v] = SemRota]
    /\ UNCHANGED <<relogio, tabelas, doWorker, invalidar, antiga>>

-----------------------------------------------------------------------------
(* Changes of the passengers and of the trips *)

\* Mutation: the trip is handed on instead of the reserva.
CancelarPelaViagem(r) ==
    /\ confirmada' = confirmada \ {r}
    /\ invalidar' = invalidar \cup {viagemDe[r]}
    /\ Contar("pedidos", MaxPedidos)
    /\ UNCHANGED <<relogio, situacao, passageira, remarcada, rota, doWorker, antiga>>

\* A reserva is cancelled, or was already; the request goes on to invalidate its
\* routes.
CancelarReserva(r) ==
    /\ confirmada' = confirmada \ {r}
    /\ invalidar' = invalidar \cup {r}
    /\ Contar("pedidos", MaxPedidos)
    /\ UNCHANGED <<relogio, situacao, passageira, remarcada, rota, doWorker, antiga>>

\* PUT of a reserva, which goes on to invalidate its routes: nothing changes; it is
\* confirmed, again perhaps, for another date and keeps its row in the trip; it is
\* confirmed for this date, which is refused once the planner has the key.
EditarReserva(r) ==
    /\ \/ UNCHANGED <<confirmada, remarcada>>
       \/ /\ confirmada' = confirmada \cup {r}
          /\ remarcada' = remarcada \cup {r}
       \/ /\ ~candidata
          /\ confirmada' = confirmada \cup {r}
          /\ remarcada' = remarcada \ {r}
    /\ invalidar' = invalidar \cup {r}
    /\ Contar("pedidos", MaxPedidos)
    /\ UNCHANGED <<relogio, situacao, passageira, rota, doWorker, antiga>>

\* Mutation: the block of the invalidation begins where the worker begins.
InvalidaveisNaJanela(r) ==
    {v \in Viagem : Existem /\ viagemDe[r] = v /\ agora + JanelaCalculo < planejada}

\* DeleteRotasPorReservaAntesDoBloqueio: the trips whose route is deleted.
Invalidaveis(r) ==
    {v \in Viagem : Existem /\ viagemDe[r] = v /\ agora + JanelaBloqueio < planejada}

\* The routes are deleted, or the request fails with the cancellation committed.
Invalidar(r) ==
    /\ r \in invalidar
    /\ invalidar' = invalidar \ {r}
    /\ \/ /\ rota' = [v \in Viagem |-> IF v \in Invalidaveis(r) THEN SemRota ELSE rota[v]]
          /\ antiga' = IF Existem /\ planejada <= agora + JanelaBloqueio
                       THEN antiga \cup {viagemDe[r]} ELSE antiga
          /\ UNCHANGED quantas
       \/ /\ Contar("falhas", MaxFalhas)
          /\ antiga' = antiga \cup {viagemDe[r]}
          /\ UNCHANGED rota
    /\ UNCHANGED <<relogio, tabelas, doWorker>>

\* The driver cancels a presence; nothing is invalidated.
CancelarPresenca(r) ==
    /\ r \in passageira /\ Contar("pedidos", MaxPedidos)
    /\ passageira' = passageira \ {r}
    /\ antiga' = antiga \cup {viagemDe[r]}
    /\ UNCHANGED <<relogio, situacao, confirmada, remarcada, rota, doWorker, invalidar>>

\* The trip is started or cancelled.
MudarSituacao(v, s) ==
    /\ Existem /\ situacao[v] = "programada" /\ Contar("pedidos", MaxPedidos)
    /\ situacao' = [situacao EXCEPT ![v] = s]
    /\ UNCHANGED <<relogio, confirmada, passageira, remarcada, rota, doWorker, invalidar, antiga>>

-----------------------------------------------------------------------------
PassoWorker ==
    Rodar \/ (\E v \in Viagem : Proxima(v)) \/ Ler("worker") \/ Ordenar("worker") \/ Gravar("worker")

Next ==
    \/ Passar \/ Candidatar \/ Planejar
    \/ \E h \in Horarios : EditarHorario(h) \/ CriarHorario(h)
    \/ ExcluirHorario
    \/ Rodar \/ \E v \in Viagem : Proxima(v)
    \/ \E c \in Calculo : Ler(c) \/ Ordenar(c) \/ Falhar(c) \/ Gravar(c)
    \/ \E v \in Viagem :
        \/ CalcularManual(v) \/ Excluir(v)
        \/ \E ds \in BoundedSeq(Destino, 2) : Criar(v, ds)
        \/ \E s \in {"em_andamento", "cancelada"} : MudarSituacao(v, s)
    \/ \E r \in Reserva : CancelarReserva(r) \/ EditarReserva(r) \/ Invalidar(r) \/ CancelarPresenca(r)

Spec == Init /\ [][Next]_vars

\* The worker and the planner are goroutines and cron; time goes on.
Justica ==
    /\ WF_vars(PassoWorker) /\ WF_vars(Passar)
    /\ WF_vars(Candidatar) /\ WF_vars(Planejar)

SpecJusta == Spec /\ Justica

-----------------------------------------------------------------------------
(* Properties *)

TypeOK ==
    /\ agora \in 0 .. Fim /\ horario \in Horarios \cup {SemHorario} /\ planejada \in Horarios \cup {0}
    /\ candidata \in BOOLEAN /\ rodou \in BOOLEAN
    /\ situacao \in [Viagem -> {"programada", "em_andamento", "cancelada"}]
    /\ confirmada \subseteq Reserva /\ passageira \subseteq Reserva /\ remarcada \subseteq Reserva
    /\ invalidar \subseteq Reserva /\ fila \subseteq Viagem /\ antiga \subseteq Viagem
    /\ rota \in [Viagem -> Rotas]
    /\ calculo \in [Calculo -> [fase : {"ocioso", "ler", "ordenar", "gravar"}, viagem : Viagem,
                                destinos : SUBSET Destino]]
    /\ \A q \in DOMAIN quantas : quantas[q] \in Nat

\* The order of the destinos of every route is what RotaOtimizada of Otimizador
\* says.  It is about constants, so it is asked of the state in which nothing
\* has happened.
OrdemDosDestinos == agora = 0 /\ ~rodou /\ horario = horarioInicial => RotaOtimizada

\* A calculated route takes every passenger where they go, whatever was
\* cancelled or moved while OSRM computed: a stale reading has destinos too many,
\* never too few.  Who has moved to another date is no passenger.
RotaCobrePassageiros ==
    \A v \in Viagem : rota[v].origem = "calculada" =>
        DestinosDe(v, (confirmada \cap passageira) \ remarcada) \subseteq rota[v].destinos

\* A calculated route has a destino nobody goes to any more only if the change
\* came between the reading and the insert, came inside the block, was made by
\* the driver, or its invalidation failed or is still to come.  (Who has moved to
\* another date keeps the row of the trip, so that the code still counts them.)
RotaSemSobra ==
    \A v \in Viagem : rota[v].origem = "calculada" /\ v \notin antiga
                      /\ DaViagem(v) \cap invalidar = {} =>
        rota[v].destinos = DestinosDe(v, confirmada \cap passageira)

\* A programmed trip with passengers and no route.
Aguarda(v) ==
    Existem /\ rota[v] = SemRota /\ situacao[v] = "programada" /\ DestinosCalculo(v) # {}

\* A trip that is in the window of the worker long enough for the rounds that
\* may fail gets a route.
JanelaAtendida ==
    \A v \in Viagem :
        Aguarda(v) /\ planejada = agora + JanelaCalculo ~> ~Aguarda(v)

\* docs/api-reference.md:1401: "O worker tenta calcular rotas dentro da janela
\* padrao de 1 hora antes da partida".  A trip with passengers does not stay
\* without a route when OSRM answers.
TodaViagemTemRota ==
    \A v \in Viagem : Aguarda(v) ~> ~Aguarda(v)
=============================================================================
