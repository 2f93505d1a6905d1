# BondRota API: specifications, model checks and proofs

BondRota plans the vans and buses that take university students from a base city to the
municipalities where they study. Students book (`reservas`); half an hour before departure
a cron-driven processor closes each *key* (date, shift, municipality of destination,
internal route, direction) and plans its trips; drivers run the trips, mark presence and
send their position; a worker asks OSRM for a route; a monthly job removes what is old. The
program is a set of stateless Go HTTP servers over one PostgreSQL database, with documents
in an external Storage service: there is almost no state in memory, so concurrency is a
matter of statements, transactions, row locks, advisory locks, unique indexes and leases,
and of requests that die between two of them.

Names of operators and variables are those of the code (Portuguese); comments are in
English.

## 1. Inventory

State is what a component keeps in the database, in memory or in Storage. "Correct when" is
what its properties must say.

| Component | State | Operations | Talks to | What is hard | Correct when | Module |
|---|---|---|---|---|---|---|
| Planning processor (`viagens/processador_planejamento.go`) | none of its own: the instant it read, the candidates left, the claim it holds | `Processar`, one call per cron tick | ledger, planning service, candidate listing | overlapping calls, one clock reading per call, errors in every statement, process death | one call at a time plans a key; every due key is planned by its departure; an ended key is not planned again | `ProcessadorPlanejamento` |
| Execution ledger (`viagens/execucao_planejamento_repository.go`) | table `execucoes_planejamento`: status, attempts, lease, next attempt, stamps | `TentarIniciar`, `Finalizar`, `Falhar`, queries | processor; reservas read it | lease expiry, rows named by id and status only, a table constraint that relates the stamps | a claim is ended by its owner; rows satisfy the constraint; attempts are spaced | `ProcessadorPlanejamento`, `RegistroExecucao` |
| Schedule (`deploy/supabase/planning_cron.sql`) | cron | one HTTP call a minute, cut after 55 s | processor | the cut is the only limit on a call | enough attempts before departure | `ProcessadorPontual` |
| Reservas (`reservas/*`) | table `reservas` | POST, PUT, cancel, DELETE, availability, listings | ledger (under the key's advisory lock), destinos, departure times, dynamic routes | a check before the transaction, a PUT that holds a connection and a row and needs a second connection | nobody enters a closed key; nobody confirmed is left out of a concluded key; requests are answered | `ReservaPlanejamento` |
| Connection pool (`db/pool.go`) | connections | acquire, release | every store | requests that hold one and wait for another | requests are answered | `ReservaPlanejamento` |
| Planning service and trip tables (`planejamento_service.go`, `ciclo_viagem_repository.go`) | `ciclos_viagem`, `viagens`, `viagem_reservas`, `viagem_horarios` | `planejarIda`, `planejarVolta` | vehicles, drivers, reservas | reads first, writes in one transaction later; a retry meets its own trips; unique indexes decide races | every listed reserva in exactly one trip, with a seat | `Viagem` |
| Vehicle and driver allocation (`veiculos/alocacao*.go`, `motoristas/alocacao_service.go`) | none | categories for a number of passengers, fall back, pick vehicles and drivers, distribute passengers | planning service | integer arithmetic, fallback between categories, ties | enough seats, fewest vehicles, none twice | `Distribuicao` |
| Return planning (`planejarVolta`) | the trip tables | one return trip per outbound cycle that is not cancelled | presence | presence before, during and after; outbound trips cancelled, vehicles edited in between | who boarded has a seat back, who did not is not carried | `Viagem` |
| Trips, presence, times (`viagem_service.go`, `presenca_service.go`) | `viagens.status`, `viagem_reservas.status_presenca`, `viagem_horarios` | start, conclude, cancel, mark presence | reservas, routes, position | drivers and admins race | ends are final, one start and one end, in that order | `Viagem` |
| Live position (`localizacao_*`) | one row per trip | PUT position, GET | trips | the right to send is checked in one statement, the position stored in another | a driver's position belongs to a trip that was started | `Viagem` |
| Departure times (`horario_turno_*`) | `horarios_turno_viagem` | CRUD | reservas, candidates, routes | edited while keys are open, claimed or planned | trips keep the departure they were planned with | `RotaDinamica` |
| Dynamic routes (`rotasdinamicas/*`) | `rotas_dinamicas` | worker every 5 minutes, manual calculation, invalidation, CRUD | trips, reservas, OSRM | read, ask OSRM for seconds, insert; invalidation outside the transaction; time windows | a route takes every passenger where they go; a spare destino has a known cause; a trip in the window gets a route | `RotaDinamica` |
| Route optimiser, OSRM client (`geo/*`) | none | order destinos by cost | dynamic routes | bit masks, extraction of costs from a table with other rows, heuristic above a size | a permutation; optimal up to the bound | `Otimizador` |
| Clients, vinculos, drivers, vehicles, stops, internal routes, municipios, destinos | one table each, the registry of telephones that triggers keep | CRUD, import, listings by pages | each other, through foreign keys | cascades and RESTRICT; rows that change between pages | references and telephones hold; listings are complete | `Catalogo`, `Listagem` |
| Documents (`clientes/*_handler.go`, `motoristas/motorista_handler.go`, `storage/*`) | files in Storage, their paths in rows | upload to a waiting path, move, record the path | rows | file moved and path recorded in two steps with edits and removals in between | every path leads to a file | `Documentos` |
| Retention (`retencao/*`, `retention_cron.sql`) | deletes | `Limpar` in batches | ciclos, reservas, execucoes | foreign keys with limited batches | no statement refused; all that is old goes unless it says otherwise | `Retencao` |
| Login rate limit (`server/login_rate_limit.go`) | two maps in memory | `allow` | login, change of password | clock read before the mutex; fixed windows; cleanup | at most the limit per window | `LimiteLogin` |
| Administrator accounts (`admin/*`, `auth/*`, `cmd/admin/main.go`) | table `administrador` | login, change of password, `create`, `passwd`, `delete` | rate limit | transactions on one row; commands that wait for somebody at the terminal | no change of password is lost; the last account stays | `Acesso` |
| HTTP wiring, stateless helpers | none | routing, parsing, hashing | all handlers | | | not modelled |

The hazards, each at its line with the properties that would catch it, are in
`PROJECT.json`.

## 2. Plan

Done, in this order: the processor and its ledger with refinement and schedule; students
against the planner; trips from allocation to return; dynamic routes; accounts behind the
rate limit; the registry with documents, listings and retention; and the proofs of section
5, one for every invariant and action property of the runs. Left is what section 6 lists
as left out of modelled components.

Modules that theorems speak of are written for it: constants with named assumptions, one
action per operation, invariants as conjunctions of named parts, no recursive operator.

## 3. The modules

```
ProcessadorPlanejamento --- ProcessadorRegistro (refines RegistroExecucao)
          \--- ProcessadorPontual (with the cron)
ReservaPlanejamento --- ReservaInscricao (refines Inscricao)
Distribuicao --- Viagem
Otimizador --- RotaDinamica
LimiteLogin --- Acesso
Catalogo --- Documentos, Retencao, Listagem --- Cadastro (all four together)
```

Each state machine takes from the others what it does not detail: `ReservaPlanejamento`
assumes one planner per key (`ExclusaoPorChave`), `Viagem` one call at a time,
`RotaDinamica` trips that already know their passengers. Mutated forms of operators stand
before the operator they mutate, under a comment that starts with "Mutation"; no
specification uses them.

### ProcessadorPlanejamento

One call of `Processar` is a process `c` of the set `Chamada`; any number may overlap (a
late answer, two instances behind a balancer, a manual call). `pc[c]` follows the code:

| `pc` | Code | Actions |
|---|---|---|
| `ocioso` | no request | `Chamar` reads the clock once (`agora`) |
| `listar` | `ListCandidatos` | `Listar`: keys with a confirmed reserva, in the window `[partida - antecedencia, partida)` of `agora` |
| `varrer` | the loop over candidates | `Adquirir`, `Recusar`, `IniciarErro` (`TentarIniciar` takes the row, leaves it, fails), `Retornar` |
| `ler` | `planejarIda` up to the insert | `Ler` (demand and free resources), `PlanejarErro` |
| `gravar` | `CreatePlanejamentoIda` | `Gravar`, `GravarSemResposta` (committed, answer lost), `GravarJaExiste` (a unique index), `PlanejarErro` |
| `finalizar`, `falhar` | `Finalizar`, `Falhar` | the same, `EncerrarErro` (the UPDATE fails or affects no row; the claim stays) |

`Interromper` ends a call anywhere: the process dies or the request context is cancelled.
`execucao[k]` is the row of the key, all of its columns that are not diagnostics;
`reservada[k]` says the key has a confirmed reserva, `plano[k]` that its cycle and trips
are committed. `vistos[c]` is what the call saw of the other keys' plans when it read the
free vehicles and drivers: a key planned since then may have taken one of them, and the
unique index refuses the insert. The candidates of a call are tried in any order (the code
sorts them; every order is a superset).

Two abstractions deserve a word.

*`NoPrazo`.* Every statement of a call runs under the context of its request. The caller
(`pg_net`) hangs up after 55 s and the server cancels the context, so a statement is only
sent within `DuracaoChamada` of the start; one that was sent has reached the database by
then. All instances read one clock (`relogio`): skew between instances is not modelled.

*`CriarReserva`.* The commit of a reserva refuses a key with an execution; its deadline
test ran at most `AtrasoReserva` earlier. `ReservaPlanejamento` is the detailed version.

`RegistroExecucao` is what the ledger promises without clocks or leases: a key has a state
and at most one owner; only an owner ends it; ends are final; an ownerless key can be taken
again. `ProcessadorRegistro` maps the processor to it: the owner of a key is the call that
holds a claim on it and whose context is alive. `ImplementaRegistro` is the refinement. One
tick of the clock may end several calls, hence `Soltar` of a set of keys.

`ProcessadorPontual` is the processor under its schedule: one call a minute, over before
the next, and at most `MaxFalhas` failing steps. Time is in minutes with the production
constants.

### ReservaPlanejamento

A request `p` of `Pedido` is a POST, PUT, cancel or DELETE; a planner runs per key. `pc[p]`
follows a request through the locks:

| `pc` | Code | Actions |
|---|---|---|
| `abrir` | POST validated, transaction not begun | `Abrir` (needs a connection) |
| `selecionar` | connection held, `SELECT ... FOR UPDATE` or `DELETE` waits for the row | `Selecionar` (PUT), `Cancelar`, `Excluir` |
| `validar` | `validateReserva` inside the transaction, through the pool | `Validar` (needs a second connection) |
| `travar` | `bloquearSePlanejamentoIniciado`, lock | `Travar` |
| `verificar` | the `EXISTS` over executions | `Verificar` |
| `gravar` | the write and the commit | `Gravar` |

Locks are derived, not stored: `Travada(k)` (advisory lock of a key), `LinhaPresa(r)` (row
of a reserva), `DestinoPreso(d)` (`FOR SHARE` on the destino), `Livres` (connections).
Each holds from the step that takes it to the commit. The planner of a key takes the
advisory lock only for the insert of the execution (`TravarExecucao`, `Iniciar`), reads
the demand without it (`Ler`) and writes later (`GravarPlano`, `GravarJaExiste`,
`GravarErro`). `MudarMunicipio` is the PUT of a destino. There is no clock: departures can
be edited at any time, so the deadline test of a request and the planner's window test are
free choices.

`Inscricao` is what booking promises, without locks, transactions or retries: a key takes
bookings until it closes (`Inscrever`, `Sair`, `Fechar`), closing calls the roll, the trips
are made all at once and only once (`Embarcar`), and the key ends when they are made or when
nobody is left (`Encerrar`). `ReservaInscricao` maps requests and planners to it. The roll is
a history variable, `fechamento`: who was confirmed when `TentarIniciar` inserted the row of
the key. `processando` and `falhou` are both a closed key.

### Distribuicao and Viagem

`Distribuicao` holds the arithmetic of a plan as operators: `PlanejarCategorias` (the three
loops and `isBetterPlano`), `Selecionar` (vehicles of a category and of its larger
substitutes, by id), `Distribuir` (groups by destino, whole into the tightest vehicle, else
split from the roomiest on). `Repartir` is the loop over destinos of `Distribuir`, one
result per destino served. Orders are by rank (`Ordenar`), minima by `CHOOSE`: none is
recursive, because `Distribuicao_proofs` proves them right for every input.

`Viagem` follows the trips of one date and shift. `plano` is the call of the processor,
one statement an action: `Abrir`, `Listar`, `AlocarVeiculos`, `EscalarMotoristas`,
`GravarIda` on the way out; `ListarCiclos`, `ListarVolta`, `GravarVolta` on the way back;
`Finalizar`; and `Cair`, which kills it anywhere, between the commit of the trips and the
end of the execution too, so that the retry meets what it planned before. A trip is
`<<ciclo, sentido>>`, the ciclos are a sequence in the order of their ids. Drivers and
admins `Iniciar`, `Concluir`, `CancelarViagem` (each holding the row of the trip) and
`AtualizarPresenca` (whatever the status of the trip: the code does not look). A position
is `AutorizarPosicao` and then `GravarPosicao`. `EditarVeiculo` changes category or status
of a vehicle, and with the category its seats, without looking at the trips it serves.

### Otimizador and RotaDinamica

`Otimizador` has the validation of OSRM's table, the extraction of the costs towards and
from the stop (`EntradaIda`, `EntradaVolta`), `HeldKarp` (up to 12 destinos,
`otimizador.go:11`; `docs/api-reference.md:1398-1399` still says brute force up to 8) and
the heuristic (nearest neighbour from every start, 2-opt until a round improves nothing).
Each loop is a recursive function: `Tabela` is `dp` by visited set and last destino,
`Caminho` the walk back through `parent`, `Trajeto`, `Vizinhos`, `Linha` and `Rodada` the
loops over positions, `DoisOpt` the rounds. `Primeiro` is the strict comparison with which
every loop keeps the first of the best. Durations are naturals, where the code has
non-negative floats.

`RotaDinamica` has the trips of one key and a clock of ten-minute units. The worker
(`Rodar`, `Proxima`) and the manual request (`CalcularManual`) run the same calculation:
`Ler` the destinos of the passengers, `Ordenar` once OSRM answered, `Gravar` unless the trip
has a route by now, or `Falhar`. A cancellation or a PUT commits first (`CancelarReserva`,
`EditarReserva`) and its routes are deleted in another transaction (`Invalidar`, which may
fail); a driver's cancellation of a presence invalidates nothing. `antiga` records, as
history, the trips whose route was overtaken in a way the code does not repair.

### LimiteLogin and Acesso

`LimiteLogin` has the two fixed-window limiters with their clean-up; `Consultar` is the
locked part of `allow`, given an instant that was read before the mutex was taken. `Acesso`
composes it with requests (login, change of password) and with the commands of `cmd/admin`,
each of which reads, waits for somebody at the terminal, and writes. A row is locked from
`TravarTroca` or `TravarSenha` to the write. A login compares with the hash it read, however
old.

### Catalogo, Documentos, Listagem, Retencao, Cadastro

`Catalogo` is the database: rows `<<table, id>>` that refer to rows, `ON DELETE CASCADE` or
`RESTRICT`, and the registry of telephones that triggers keep over clients and drivers; on
it the handlers of the tables without documents. `Documentos` adds the creation of clients,
drivers and vinculos, whose handler then moves each file from its waiting path to its
definitive one (`Mover`: done, not done, done without an answer) and records the new paths
(`Persistir`), with nothing around the two; and the edits, of vinculos through a form that
was loaded earlier. `Listagem` reads pages after a cursor while rows change. `Retencao` is
one call of the monthly job, three statements of limited batches. `Cadastro` runs all of
them on the same tables at the same time. A database it may start with (`Anteriores`) keeps
to the schema: `BancoValido` has its columns, its foreign keys (`Estrangeira`) and what its
`NOT NULL` columns require.

## 4. Runs

| Run | Expectation | What it shows |
|---|---|---|
| `MCProcessador` | pass | one key, two overlapping calls, every failure: leases keep calls apart, the ledger stays consistent, ended executions stay ended, the abstract ledger is implemented |
| `MCPontual` | pass | two competing keys, production times, four failures: planned at departure, `concluido` implies trips |
| `MCProcessadorConflito` | violation | two keys, two calls: `concluido` without trips |
| `MCReservaMunicipio` | pass | two municipios, one destino that moves, two requests on one reserva |
| `MCInscricao` | pass | one key, two reservas, two requests, four connections: the promise to those who book, and answers |
| `MCReservaRemarca` | violation | a reserva moved to another date after it was planned |
| `MCReservaEsgotada` | violation | two connections, two PUTs |
| `MCViagem` | pass | two cities share a fleet: outbound, what people do to the trips, return, with calls that die anywhere |
| `MCRota` | pass | worker, manual calculation, routes by hand and invalidation against cancellations, edits of the departure and the planner |
| `MCRotaJanela` | violation | nothing fails, nobody asks for anything, and no trip gets a route |
| `MCAcesso` | pass | two requests and two operators on the accounts, behind limiters whose instants come out of order |
| `MCCadastro` | pass | requests of several steps, single-step requests, a screen that pages and the clean-up on one database |

### Properties

* `EstadoExecucao`: rows satisfy `chk_execucoes_planejamento_estado`; a failing UPDATE
  would otherwise leave the claim to lapse. It hinges on `Falhar` stamping from the start
  of the call and not from the database clock.
* `ExclusaoPorChave`, `ClaimVivo`, `EncerraProprioClaim`: two live calls never plan one
  key; a live call's row is its own claim; a row leaves `processando` only by its owner,
  although the statement checks only id and status.
* `TentativasEspacadas`: the n-th attempt starts at least n - 1 first intervals after the
  key closed, and before departure.
* `TerminalEstavel`, `ImplementaRegistro`: ended executions stay; the abstract ledger.
* `SemDemandaSemReserva`: a key that ended without demand has nobody (of requests and locks
  `ImplementaInscricao` says it).
* `PlanejadaAtePartida`: at departure a key with a confirmed reserva has its trips and is
  `concluido`.
* `ConcluidoTemPlano`, `TodaConfirmadaPlanejada`: `concluido` means trips, with everybody.
* `ImplementaInscricao`: the abstract list. Nobody enters a closed key, a key ends only with
  everybody aboard or nobody booked; and trips are made once, although a call can die
  between their commit and the end of the execution, and carry nobody who was not confirmed
  when the planning began.
* `PedidoNaoEntra`: no request makes a reserva part of a key with an execution.
* `PedidoTermina`: every request is answered.
* `LotacaoRespeitada`, `IdaCompleta`, `RecursoUnico`: nobody without a seat, nobody
  forgotten by the distribution or by a retry, no vehicle or driver in two ciclos.
* `VoltaDeQuemEmbarcou`, `QuemEmbarcouVolta`, `VoltaCabe`: the return carries those who
  boarded, all who boarded in time, and does not fail for want of seats except in the cases
  the property names.
* `HistoriaDaViagem`, `PosicaoDeViagemIniciada`: ends are final, a start and an end are
  recorded once and in order; a driver's position needs a start.
* `AlocacaoCorreta`, `ReparticaoCorreta`, `OrdemDosDestinos`: the pure algorithms against
  what they are for (fewest vehicles and enough seats for each number of up to 100
  passengers with the real capacities; the greedy selection gives up only when nothing
  would do; no vehicle overfull and no destino split without need; a shortest way among all
  orders). They are about constants, so a run asks them once, of its first state;
  all three are also proved for inputs of any size.
* `RotaCobrePassageiros`, `RotaSemSobra`: a stale reading gives a route with destinos too
  many, never too few, and too many only for causes that `antiga` names.
* `JanelaAtendida`: a trip that is in the worker's window from its beginning gets a route.
* `LimitePorJanela`, `TrocasEncadeadas`, `UltimoAdminFica`: the promises that the code's comments and
  the repository's README make of logins and accounts. The limit is per window: an interval around the boundary of two windows sees up
  to twice as many requests, and the limit is per process.
* `ArquivoAchado`, `ListagemCompleta`, `LimpezaCompleta`: paths lead to files; a row that
  was there and kept its place appears once in a listing, whatever happens to the others,
  the row of the cursor included; the clean-up leaves nothing old without saying so and no
  foreign key refuses its statements.

Every state machine has one type invariant; those of `ReservaPlanejamento` and `Cadastro` carry
facts besides types (free connections never below zero; references, telephones).

### Bounds

* `MCProcessador`: the window is 6 units, the lease 3, backoff 1 and at most 3, clock up to
  8, a call cut after 1. A claim can lapse and be taken over within the window, the third
  failure reaches the cap, and a late call can meet the claims of two later ones. A third
  call adds only another late one.
* `MCPontual`: 30 minutes, lease 5, backoff 1 to 5. With a single key, five consecutive
  failing steps still leave the key planned, six do not: lost answers to `Finalizar` make
  the retry wait for the lease each time. The run keeps two keys with four failures, so
  that the retries of one key overlap the planning of the other.
  There is no fleet in the model: a shortage of vehicles or drivers is a failing step and
  counts against the four. `MCViagem` has the fleet: after a plan that was committed but
  not reported, the retry has to allocate vehicles and drivers besides those its own trips
  occupy (`planejamento_service.go:69-85`) before it meets those trips, so with a fleet too
  small for both the key fails until departure.
* `MCInscricao`: four connections are the fewest with which two PUTs (two each)
  leave nothing waiting for ever; two reservas make a PUT and a POST of different rows
  meet at one key, and let the roll, who is still booked and who was listed all differ.
* `MCReservaMunicipio`: one reserva, two requests on it, two municipios: the move can fall
  between any two steps of either.
* `MCViagem`: two cities, five vehicles (three of two seats, two of one), five drivers,
  seven reservas of four clients, one of whom has two vinculos; three requests, edits or
  crashes. Small seats make a plan of several vehicles out of three passengers, so that
  groups are split, fallbacks used and the fleet runs out; three events are enough for a
  boarding, a cancellation and a crash, or a presence that is corrected after a crash.
* `MCRota`: units of ten minutes with the production windows (planning 30 minutes ahead,
  worker between 60 and 30); two trips, one with two destinos; one edit of the departure,
  one failure, two requests. An edit to a later departure is what brings a trip into the
  worker's window at all.
* `MCAcesso`: one address (limit 2), two e-mails (limit 1), windows of three instants, an
  instant up to one late, three requests or commands; the table starts empty or with two
  accounts.
* `MCCadastro`: starts with one of two databases (with and without rows of the past), pages
  of one row, batches of two rows, two requests of several steps, three requests or
  midnights. A page boundary falls at every row, a batch both fits and saturates.
* Names of bounds: `Horizonte`, `MaxFalhas`, `MaxEventos`, `MaxEdicoes`, `MaxPedidos`,
  `Fim`, `MaxAgora`, `MaxContas`, `MaxHoje`, `MaxAlunos`, `Frota`.
* Deadlock is checked in the runs of `ProcessadorPlanejamento` and `ReservaPlanejamento`. In
  the others time or the number of events ends, and the system may stop.

### Fairness

`PedidoTermina` (`Justica` of `ReservaPlanejamento`): steps of a request and of a planner
are strongly fair. PostgreSQL queues the waiters of a lock and `pgxpool` queues the waiters
of a connection, so a step that is possible again and again is taken. Nothing is assumed of
the arrival of requests, of the client hanging up (`Desistir`) or of the process dying
(`Interromper`): those may happen but never have to, so an answer must not depend on them.

`JanelaAtendida` and `TodaViagemTemRota` (`SpecJusta` of `RotaDinamica`): the worker is a
goroutine with a ticker and the planner is called by cron, so their steps are weakly fair,
as is time. `Passar` lets a unit of time end only when the worker has been round in it: its
interval is half a unit. No request, failure or edit is fair.

### What the violations say

* `MCProcessadorConflito`. `processarCandidato` reads any `ErrAlreadyExists` as "the trips
  exist". The same error comes from a vehicle or driver that another key of the same date
  and shift took between the reading of the free ones and the insert. The transaction
  rolled back, so the key ends `concluido` with no trip and is never retried. It needs two
  overlapping calls; within a single call keys are planned one after the other.
* `MCReservaRemarca`. A PUT refuses only when the *new* key has an execution. A reserva
  already in a trip can leave for another date; when that date is planned, the unique index
  on active `viagem_reservas` refuses the whole transaction, and, by the same reading of
  the error, the key ends `concluido` without a trip for anybody.
* `MCReservaEsgotada`. A PUT validates inside its transaction but through the pool. With as
  many PUTs as connections, each holds one and waits for another.
* `MCRotaJanela`. The worker lists trips whose departure is more than 30 minutes and at
  most an hour away; the processor creates trips at most 30 minutes before departure. So
  the worker never sees a trip of the planner, unless an admin puts the departure of the
  shift off between the listing of the candidates and the planning; the other ways to a route are the manual calculation and a route
  written by hand. `JanelaAtendida` says what does hold.

### What the models showed besides

Behaviours that no property calls wrong, which the properties therefore name as exceptions:

* The PUT of a destino changes its municipio, and with it the keys of confirmed reservas,
  without looking for executions (`PedidoNaoEntra` speaks of all other steps; the theorems
  on demand and plans assume `~MudaMunicipio`).
* A call dies after the commit of the trips, everybody aboard cancels between the retry's
  listing of keys and its reading of the demand, and the key ends `sem_demanda` with its
  trips in the tables (`Inscricao` allows it: an end without demand says that nobody is
  booked, not that there is no trip).
* A call that nothing cuts would outlive its lease (`PrazoMenorQueBloqueio`).
* The return leaves out ciclos whose outbound trip was cancelled, while
  `docs/api-reference.md:1009` says that all of them receive a return trip; those who
  boarded a trip that was cancelled later compete for the seats of the others, and if they
  do not fit the return of the whole key fails. A key whose ciclos are all cancelled, or
  that has none, ends `sem_demanda`.
* A client with two vinculos may be eligible for more seats back than it had on the way
  out, with the same effect.
* The PUT of a vehicle looks at no trip: a smaller category, or an inactive status, leaves
  the trips it serves as they are.
* The position of a trip is overwritten by whatever arrives last; `registrada_em` is the
  server's instant of arrival.
* A PUT of a reserva, or a second cancellation, that changes nothing still deletes the
  route of its trip. A reserva moved to another date keeps its row in the trip, and the
  calculation of the route still counts its destino. A presence cancelled by the driver
  invalidates no route.
* One destino that OSRM cannot reach (`osrm_client.go:203`) fails the route of the whole
  trip.
* Two operators of `cmd/admin delete` can remove the last two accounts if their prompts
  overlap. A token of a removed account is refused by the middleware, which looks the
  account up, although `cmd/admin/main.go:430-434` warns that tokens stay valid.
* Deleting a client removes its vinculos by cascade, but a reserva of any of them holds the
  vinculo back (`RESTRICT` of `reservas.vinculo_id`), so that a client with any reserva
  cannot be deleted, whereas the comment at `cliente_handler.go:444-445` expects the
  reservas to go in cascade.
* A file whose move was done but not confirmed, or moved and not recorded, is lost to its
  row; the organisation of a comprovante writes all the columns of the form it came with,
  over edits made meanwhile; files of removed rows stay in Storage.

## 5. Proofs

All theorems are for any values of the constants that satisfy the named assumptions.

| Module | Theorem | Property | Proviso |
|---|---|---|---|
| `ProcessadorPlanejamento_proofs` | `TipoCorreto` | `TypeOK` | |
| | `Exclusao`, `ClaimSempreVivo`, `EncerramentoProprio` | `ExclusaoPorChave`, `ClaimVivo`, `EncerraProprioClaim` | `PrazoMenorQueBloqueio` |
| | `LinhasValidas`, `EncerradaFica`, `SemDemandaVerdadeira` | `EstadoExecucao`, `TerminalEstavel`, `SemDemandaSemReserva` | |
| | `EsperaEntreTentativas` | `TentativasEspacadas` | `PrazoMenorQueBloqueio`, `EsperaMenorQueBloqueio` |
| | `ProcessadorImplementa` | `ImplementaRegistro` | `PrazoMenorQueBloqueio` |
| | `ConcluidoComViagens` | `ConcluidoTemPlano` | |
| | `PlanejadasATempo` | `PlanejadaAtePartida` | `TempoSuficiente` |
| `ReservaPlanejamento_proofs` | `TipoCorreto`, `NinguemEntra` | `TypeOK`, `PedidoNaoEntra` | |
| | `SemDemandaSempreVazia` | `SemDemandaVazia` (in no run; with `~Remarca` too it follows from `ImplementaInscricao`) | `~MudaMunicipio` |
| | `TodosPlanejados` | `TodaConfirmadaPlanejada` | `~MudaMunicipio`, `~Remarca` |
| | `ReservaImplementa` | `ImplementaInscricao` | `~MudaMunicipio`, `~Remarca` |
| `Distribuicao_proofs` | `AlocarEscolheBem`, `DistribuirReparte`, `DistribuirInteiros` | what `AlocacaoCorreta` and `ReparticaoCorreta` state, the last two for any finite input | |
| `Viagem_proofs` | `TiposDaViagem`, `HistoriaSemVolta`, `PosicaoSoDeIniciada` | `TypeOK`, `HistoriaDaViagem`, `PosicaoDeViagemIniciada` | |
| | `RecursoDeUmCiclo`, `IdaSemFalta`, `NinguemDePe` | `RecursoUnico`, `IdaCompleta`, `LotacaoRespeitada` | |
| | `VoltaSoDeQuemEmbarcou`, `NinguemFicaParaTras`, `VoltaTemLugares` | `VoltaDeQuemEmbarcou`, `QuemEmbarcouVolta`, `VoltaCabe` | |
| | `AlocacaoSempreCorreta`, `ReparticaoSempreCorreta` | `AlocacaoCorreta`, `ReparticaoCorreta` | |
| `RotaDinamica_proofs` | `TipoCorreto`, `RotaSempreCobre`, `RotaSempreSemSobra` | `TypeOK`, `RotaCobrePassageiros`, `RotaSemSobra` | |
| | `OrdemSempreOtima` | `OrdemDosDestinos` | |
| | `HeldKarpOtimo`, `HeuristicaBoa`, `TodosUmaVez` | what `OrdemDosDestinos` states, for any number of destinos and any durations | |
| `Acesso_proofs` | `TipoDoAcesso`, `LimiteDeTentativas`, `TrocasSaoEncadeadas`, `UltimoFica` | `TypeOK`, `LimitePorJanela`, `TrocasEncadeadas`, `UltimoAdminFica` | |
| `Cadastro_proofs` | `CadastroIntegro`, `NenhumArquivoPerdido` | `TypeOK`, `ArquivoAchado` | |
| | `ListagemSempreCompleta`, `LimpezaSempreCompleta` | `ListagemCompleta`, `LimpezaCompleta` | |

`PrazoMenorQueBloqueio` is `DuracaoChamada < DuracaoBloqueio`: 55 seconds against five
minutes. It is needed: with `DuracaoChamada` 4 and `DuracaoBloqueio` 3 TLC finds two calls
planning one key. `EsperaMenorQueBloqueio` is `IntervaloRetryInicial <= DuracaoBloqueio`:
one minute against five. `~Remarca` is needed too: without it `MCReservaRemarca` is the
counterexample. `TempoSuficiente` is `AtrasoReserva + MaxFalhas * Demora <
AntecedenciaFechamento`, where `Demora` is the longer of the lease and the retry cap: with
the production values five failing steps fit (1 + 5 * 5 < 30) and six do not. On an
instance where they do not fit (6 minutes, leases of 2, three failures) TLC finds a key that
departs without its trips.

*Processor.* `ExclusaoPorChave` is not inductive: nothing in it stops a second call from
taking the key of a live one. The inductive invariant is `ClaimInv == TypeOK /\ Instantes
/\ ClaimVivo /\ ExclusaoPorChave`. `ClaimVivo` says the row of a live call's key is
`processando` with its attempt number and its start; `Instantes` says a lease ends
`DuracaoBloqueio` after the start and that no call starts in the future. So a live call's
lease ends after its own deadline (`ClaimNaoExpirou`): whoever reads the clock by then
cannot take the row over, the new claim of a free row has a higher attempt number
(`AdquirirClaim`), and an end leaves no other live call on the key (`EncerrarClaim`). The
steps are split into those that write the ledger and those that keep it
(`PassoConserva`). `SemDemandaInv` adds what a call has read: its key has a row, and a key
with a row takes no reserva, so what was read stays true however long the call lasts.
`EspacoInv` adds, to `ClaimInv`, that candidates were due at the call's instant and that no
row lets an attempt begin within a first interval of the last one; the bound
`IntervaloRetryInicial <= IntervaloRetry(n) <= IntervaloRetryMaximo` is read off the
definition, without arithmetic on powers.

*Ledger.* `ProcessadorImplementa` maps each step to one of the abstract ledger or to a
stutter: `AdquirirToma`, `EncerrarEncerra`, `PassoSolta` (calls whose claims go with the
clock or die) and `DemaisPassos`; `DonoFiel` says that under `ClaimInv` the owner the
mapping chooses is the only one there could be.

*Schedule.* The cron only restricts the processor (`PontualProcessa`), so what is proved of
the one holds of the other. `ConcluidoTemPlano` is false of the processor
(`MCProcessadorConflito`) and true under the cron: `UmaPorVez` says that a call in course is
the only one and read this minute, so nothing is planned between what it read and what it
writes (`PlanoFiel`), and a unique index that refuses it is over its own trips.
`PlanejadaAtePartida` is about how late a key can be. `Limite(k)` is the closing time, the
delay of a late reserva and `Demora` for each failing step so far; `EmTempo` says that no
reserved key that has not ended is past its limit, nor at it unless this minute's call has
still to come to it. A minute passes only after the call, so that the clock stays within
the limit (`TickTempo`); a lease that nobody holds and a retry end by the limit
(`EsperaCurta`); a step that fails moves the limit by `Demora`, which is as much as it
delays the next attempt (`FalharTempo`), and the other steps leave it alone
(`ProsseguirTempo`). Since the limit is before departure, a key that departs has ended, and
not without demand (`SemDemandaVerdadeira`). `TempoDe` is the invariant as seen by the one
call that has begun.

*Reservas.* `TravaInv == Tipos /\ ChaveTravada /\ SemExecucaoSobTrava`: a request past the
lock holds the key of what it is about to write, nobody else does, and past the check no
execution exists while it holds it. `PlanoInv` adds `VagaFixa` (a request writes the date
its reserva has, and a new reserva is of one request) and `PlanoFiel` (what a planner has
listed and what is in a trip belongs to the key, every confirmed reserva of a key being
planned was listed, and trips carry all of the key or none). `TypeOK` is about connections: `Livres >= 0` needs each
action that takes one to have found one, hence `FinitosAssumption`.

*The promise to those who book.* `ReservaImplementa` maps a request to `Inscrever`, `Sair`
or a stutter (`PedidoImplementa`: it writes one reserva, whose key is fixed) and a planner
to the others (`PlanejadorImplementa`). `InscricaoInv` adds to `PlanoInv` and `SemDemandaInv`
what makes `Embarcar` happen once (`PlanejadorFiel`: once a key has trips, whatever a planner
lists of it is aboard, so that a second insert meets the unique index) and the roll
(`ChamadaFiel`: whoever is confirmed or listed in a closed key was confirmed at its closing).

*Routes.* `AntesDoPlano` says that before the trips exist nothing refers to them. From then
on passengers of this date only leave (`PassageirosSaem`), so what a calculation has read
covers them until it is stored (`CalculoCobre`): `CobreInv == TypeOK /\ AntesDoPlano /\
CalculoCobre /\ RotaCobrePassageiros`. `SobraInv` needs only `AntesDoPlano` besides the
property; `DestinosMantidos` says that a reserva of another trip does not matter.

*Arithmetic of a plan.* No theorem of the library on induction can be used (they take an
operator), but induction over data is not needed where a least natural will do:
`MenorNatural` has from `NatLessThanWellFounded` and `WFMin` that a non-empty set of
naturals has a least element; on it rest, in `Naturais_proofs`, `InducaoNatural`, that a set of naturals closed under successor is all of
them, and `RecursaoFinita` that a function defined by recursion on `0 .. n` exists and
satisfies its equation. From these follow: `Postos` (under a strict order on a finite set the
numbers of predecessors are all those from 0 to n - 1, so `Ordenar` is an enumeration,
`SequenciaDosPostos`); `PlanoDasCategorias` (a best plan exists and is unique under
`isBetterPlano`); `SelecionarEscolhe`, `SelecionarQuando` (the greedy selection picks
distinct vehicles and fails only when no assignment exists); and `Etapa`, the invariant of
the loop of `Repartir` over destinos: after n of them nobody sits twice, no vehicle is
overfull, whoever had no seat is left out only if all seats are taken. Its step is one of
`InteiroAloca` and `DivididoAloca`; the latter counts free seats before each vehicle
(`Inicios`), which is how the queue of a split group finds them. `CadeirasDaSelecao` ties
the two halves: vehicles that a plan selects have at least as many seats as it counted on,
since a substitute is never smaller.

*Order of the destinos.* The loops of the optimiser are recursive over sets and orders, not
over numbers. `RecursaoPorPosto` (in `Naturais_proofs`) has that a function exists whose
value at an element is defined from its values at elements of lower rank, and
`InducaoPorPosto` that what passes from lower ranks to an element holds of all. The rank is
the number of destinos visited for `Tabela` and `Caminho` (`TabelaPassos`,
`CaminhoPassos`), and the cost of the order for `DoisOpt` (`DoisOptPassos`): a round that
changes the order has made it cheaper (`RodadaMelhora`), so that the loop of
`melhorar2OptMatriz` ends. For Held-Karp, `CaminhoChega` says that the way back through the
parents is an order of what was visited, at the cost the table has for it, and
`TabelaMenor` that the table's cost is at most that of the prefix of any order; both at the
full set give `HeldKarpOtimo`. For the heuristic, `LinhaMelhora` and `RodadaMelhora` say
that a round which changes nothing has tried every segment in vain, and `Primeiro` picks
the cheapest start (`HeuristicaBoa`). `EntradaDaIda`, `EntradaDaVolta` and `MatrizDaTabela`
tie this to the tables of the run, where the costs are read off in the direction that is
driven.

*Trips.* `Tipo == TypeOK /\ PlanoTipo /\ LinhasTipo`: what each phase of the plan holds
(distinct vehicles, as many seats and drivers), and that every row is of a reserva of the
key and direction of its trip. None of the safety invariants is inductive, because each is
decided when the plan reads and broken, if at all, when it writes several steps later; the
strengthenings say what the plan still owes:

* `Recursos` (`RecursoUnico`): vehicles and drivers chosen are in no ciclo until they are
  written. It holds because one call runs at a time, and a call that dies takes its choice
  with it.
* `Ida` (`IdaCompleta`): from the listing on, the plan holds everybody; from the allocation
  on, it has seats for them (`CadeirasDaSelecao`); once written, everybody has a row
  (`DistribuirReparte`). An execution is concluded only over a key that has a ciclo, which
  a retry that meets the rows of a dead call also finds.
* `Lotacao` (`LotacaoRespeitada`): counts the rows of cancelled passengers too, and relates
  the seats that the plan read to the vehicles while nobody edits them.
* `Embarque` (`VoltaDeQuemEmbarcou`): whoever is about to be written into a return had a
  presence recorded, and no step makes one unrecorded (`PresencaFica`).
* `Volta` (`QuemEmbarcouVolta`): once the return is being planned nobody boards in time any
  more (`DePontualNaoCresce`), so what `ListarVolta` read is what is written.
* `VoltaCabe` needs no invariant of its own: `ElegiveisCabem` maps the eligible reservas
  into the outbound rows of their clients, which have seats by `Lotacao`.
* `Encerrada` (`HistoriaDaViagem`) and `IniciadaInv` (`PosicaoDeViagemIniciada`): an end
  that was recorded is of a trip that was started and is over; a running trip, and one a
  driver was found to be running, has its start recorded. Starts are never lost
  (`SegueIniciada`), and what a plan inserts does not run (`InseridaSegue`).

`DadosAssumption` and `FrotaAssumption` say of the data what the tables say: finitely many
reservas, vehicles and drivers, whose ids are naturals (ties are broken by id), categories
with at least one seat and in the order of `alocacao.go` (carro, escolar, executivo: 7, 24,
46). `AlocarEscolheBem` is about those very seats.

*Registry.* Every request, the clean-up included, touches the tables only through a
statement (`Instrucao`: one insertion, one alteration, one deletion with its cascades, or
nothing), and `InstrucaoMantem` proves once that statements keep `CatalogoInv` (the schema,
references, telephones). `Tipo == Base /\ TarefasInv /\ RetencaoTypeOK /\ hoje \in Int`
adds the columns for files, and the requests in course: their owners are ids already given,
and no two organise the files of one row, because only the request that created a row does
(`TarefasInv`).

* `ArquivosInv == PosseInv /\ FielInv /\ AchadaInv` for `ArquivoAchado`. `PosseInv`: the path
  of an upload is that of one row and column, in the table or in a request. So a move of a
  file takes nobody else's (`SoDoDono`), which is what the property alone cannot say.
  `FielInv`: a request that organises has each file where it believes it to be, or its row
  is one of the losses the property names.
* `LimpezaInv` for `LimpezaCompleta`: the tables whose statement was not full have nothing
  of before the cut, and keep nothing, since none of the requests inserts trips or reservas
  of the past (`NadaAntigoSegue`). `DatasInv` is why a reserva aboard is never left behind:
  its ciclo is no later than it, so it went with the statement before.
* `ListagemInv` for `ListagemCompleta`: of the rows that kept their place the screen has
  seen, once, exactly those that do not come after the cursor. The position orders each
  list strictly (`Posicoes`, `AntesOrdena`), so a page and one row more either is all that
  is left or ends at its last row (`Pagina`); the cursor's own row need not exist any more.

The assumptions are about the database the system starts with. `CatalogoAssumption`: it
keeps to the schema. `DocumentosAssumption`: a file of an old row is at its definitive path
or at a waiting path of its own, which is what the handlers leave. `DatasAssumption`: a
reserva aboard is not of a day before its trip; a plan takes reservas of its own date, and
a PUT moves one only to a departure that is still more than half an hour away, when the
trip it is aboard has been planned already.

The proof of `LimpezaCompleta` found a fault in the model: the cases of the `resumo` that
`Remover` writes overlapped, so that its value after a full batch of ciclos or reservas
was not determined. They are disjoint now, as the code is.

*Accounts.* `LimiteInv == LimiteTypeOK /\ EntradaFiel /\ Carimbos`: an entry is the last
window that was opened with the requests admitted in it, and an instant in use is at most
`Atraso` old. `Encadeado == Travas /\ Senhas`: at most one transaction holds a row, and the
password of an account is newer than every password it was changed from. `Vistas` relates
what an operator has seen to the removals since.

Only model-checked: liveness (`PedidoTermina`, `JanelaAtendida`), which is out of the
prover's reach.

## 6. Not modelled

* HTTP routing, wiring, start-up, hashing, ids, validation and formatting: no state that
  more than one request contends for. The insert that is retried with another public id is
  part of `Inserir`.
* Who may call what: the guards of clients, drivers and admins, the rules of signed URLs,
  cookies and expiry of tokens, and the logins of clients and drivers (an unknown CPF is a
  500 for drivers and a 401 for clients).
* `PlanejamentoHandler` (`planejamento_handler.go`) is not routed.
* Readings: filters and summaries of listings, the availability of dates, the queries of
  the ledger for operators. Diagnostics (`ultimo_erro`'s text, logs).
* Columns that nothing else depends on: edits of destinos other than the municipio, of
  stops, of drivers beyond telephone and photograph, fixed weekdays of vinculos.
* The copy of the vinculo that a POST of a reserva takes (`GetVinculoSnapshot`; the model's
  `destinoDe` is fixed), the uniqueness of active reservas per vinculo and date, and the
  double submission of a form.
* `MCViagem` moves no reserva between keys (`ReservaPlanejamento` does) and plans one shift.
* Rows of `rotas_dinamicas` and `viagem_localizacoes` in `Catalogo` (they go with their trip
  by cascade). Days are the unit of time there. `seed` takes the steps of `create`.
* A listing may skip or repeat a vinculo whose client is renamed between two pages; the
  property speaks of rows that keep their place.
* Clock skew between instances. Isolation is PostgreSQL's READ COMMITTED: each statement is
  one step on the committed state, and a transaction's steps are separate wherever another
  one may come between.
