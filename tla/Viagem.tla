------------------------------- MODULE Viagem -------------------------------
(***************************************************************************)
(* From the confirmed reservas of one date and shift to the trips there    *)
(* and back (internal/viagens): the planning of the outbound trips with    *)
(* the vehicles and drivers that are free, the trips as drivers and admins *)
(* run them, presence, live position, and the planning of the return for   *)
(* whoever boarded.                                                        *)
(*                                                                         *)
(* One call of the processor at a time, a key after the other              *)
(* (ProcessadorPlanejamento has overlapping calls, and what becomes of two *)
(* that choose the same vehicle); it may die between two statements, and   *)
(* in particular between the commit of the trips and the end of the        *)
(* execution.  There is no clock: a return may be planned before, while or *)
(* after anybody boards.                                                   *)
(***************************************************************************)
EXTENDS Distribuicao

CONSTANTS
    Lugares,            \* seats of every category
    Chave,              \* municipality of destination (same date, shift and route)
    Veiculo,            \* by id
    categoriaDe,        \* as registered; all of them active
    Edicoes,            \* what a PUT of a vehicle may make of it: <<vehicle, row>>
    Motorista,          \* drivers of the shift, by id
    cidadeDe,           \* key a driver works for
    Reserva,            \* by id
    clienteDe,
    sentidoDe,
    chaveDe,
    destinoDe,
    MaxEventos          \* bound: requests of clients, drivers, admins, and calls that die

ASSUME DadosAssumption ==
    /\ Reserva \subseteq Nat /\ Veiculo \subseteq Nat /\ Motorista \subseteq Nat
    /\ IsFiniteSet(Reserva) /\ IsFiniteSet(Veiculo) /\ IsFiniteSet(Motorista)
    /\ Lugares \in [Categoria -> Nat \ {0}]
    /\ Lugares.carro <= Lugares.escolar /\ Lugares.escolar <= Lugares.executivo
    /\ categoriaDe \in [Veiculo -> Categoria]
    /\ Edicoes \subseteq Veiculo \X [categoria : Categoria, ativo : BOOLEAN]
    /\ cidadeDe \in [Motorista -> Chave]
    /\ sentidoDe \in [Reserva -> {"ida", "volta"}]
    /\ chaveDe \in [Reserva -> Chave]
    /\ DOMAIN clienteDe = Reserva
    /\ destinoDe \in [Reserva -> Nat]
    /\ MaxEventos \in Nat

VARIABLES
    confirmada,     \* reservas with status "confirmada"
    ciclos,         \* ciclos_viagem, in the order of their ids
    viagem,         \* status of the trips that exist; a trip is <<ciclo, sentido>>
    horarios,       \* viagem_horarios: <<trip, kind>>
    presenca,       \* viagem_reservas: status_presenca of <<trip, reserva>>
    execucao,       \* execucoes_planejamento of <<key, sentido>>
    plano,          \* what the call of the processor has read and does next
    envios,         \* trips a driver was found to be running, position not yet stored
    posicao,        \* viagem_localizacoes: <<trip, role of the reporter>>
    frota,          \* veiculos: category and status; the seats follow the category
    pontuais,       \* history: reservas that boarded before the return was closed
    editados,       \* history: vehicles that were edited
    eventos         \* requests and crashes so far

tabelas == <<confirmada, ciclos, viagem, horarios, presenca, execucao>>
cadastro == <<frota, editados>>
demais  == <<envios, posicao, cadastro, pontuais, eventos>>
vars    == <<tabelas, plano, demais>>

Sentido  == {"ida", "volta"}
Terminal == {"concluido", "sem_demanda"}
SemPlano == [fase |-> "ocioso", chave |-> CHOOSE k \in Chave : TRUE, sentido |-> "ida",
             reservas |-> {}, veiculos |-> <<>>, lugares |-> <<>>, motoristas |-> <<>>]

Confirmadas(k, s) == {r \in confirmada : chaveDe[r] = k /\ sentidoDe[r] = s}

\* Rows of viagem_reservas with status st.
Linhas(st) == {l \in DOMAIN presenca : presenca[l] \in st}
Ativas     == {"aguardando", "embarcou", "faltou"}

\* Seats of a vehicle; those of the vehicle of a ciclo.
LugaresDe(v) == Lugares[frota[v].categoria]
Assento(i)   == LugaresDe(ciclos[i].veiculo)
DaChave(k) == {i \in DOMAIN ciclos : ciclos[i].chave = k}

Contar     == eventos < MaxEventos /\ eventos' = eventos + 1

Init ==
    /\ confirmada = Reserva
    /\ ciclos = <<>>
    /\ viagem = <<>> /\ presenca = <<>>
    /\ horarios = {} /\ envios = {} /\ posicao = {} /\ pontuais = {} /\ editados = {}
    /\ frota = [v \in Veiculo |-> [categoria |-> categoriaDe[v], ativo |-> TRUE]]
    /\ execucao = [p \in Chave \X Sentido |-> "ausente"]
    /\ plano = SemPlano
    /\ eventos = 0

-----------------------------------------------------------------------------
(* Planning of the outbound trips *)

Passo(fase) == plano' = [plano EXCEPT !.fase = fase]

\* The call ends without a result; a later one plans the key again.
Falhar == plano' = SemPlano

\* The processor takes a key with demand that is not ended.
Abrir(k, s) ==
    /\ plano.fase = "ocioso"
    /\ Confirmadas(k, s) # {} /\ execucao[<<k, s>>] \notin Terminal
    /\ execucao' = [execucao EXCEPT ![<<k, s>>] = "processando"]
    /\ plano' = [SemPlano EXCEPT !.fase = (IF s = "ida" THEN "listar" ELSE "listar_ciclos"),
                                 !.chave = k, !.sentido = s]
    /\ UNCHANGED <<confirmada, ciclos, viagem, horarios, presenca, demais>>

\* ListReservasConfirmadasParaPlanejamento
Listar ==
    LET R == Confirmadas(plano.chave, "ida") IN
    /\ plano.fase = "listar"
    /\ plano' = [plano EXCEPT !.reservas = R,
                              !.fase = IF R = {} THEN "sem_demanda" ELSE "alocar"]
    /\ UNCHANGED <<tabelas, demais>>

\* Mutation: vehicles that a ciclo of the shift uses are not left out.
VeiculosDaFrota == {v \in Veiculo : frota[v].ativo}

\* ListDisponiveisParaAlocacao of vehicles and of drivers.
VeiculosDisponiveis ==
    {v \in Veiculo : frota[v].ativo} \ {ciclos[i].veiculo : i \in DOMAIN ciclos}
MotoristasDisponiveis(k) ==
    {m \in Motorista : cidadeDe[m] = k} \ {ciclos[i].motorista : i \in DOMAIN ciclos}

\* AlocacaoService.Alocar of vehicles: those of the plan, or an error.
AlocarVeiculos ==
    LET q == Cardinality(plano.reservas)
        V == Selecionar(PlanejarCategorias(Lugares, q), VeiculosDisponiveis,
                        [v \in Veiculo |-> frota[v].categoria])
    IN
    /\ plano.fase = "alocar"
    /\ IF V = <<>> THEN Falhar
                   ELSE plano' = [plano EXCEPT !.veiculos = V, !.fase = "escalar",
                                               !.lugares = [j \in DOMAIN V |-> LugaresDe(V[j])]]
    /\ UNCHANGED <<tabelas, demais>>

\* AlocacaoService.Alocar of drivers: one per vehicle, the first by id.
EscalarMotoristas ==
    LET M == PorId(MotoristasDisponiveis(plano.chave))
        n == Len(plano.veiculos)
    IN
    /\ plano.fase = "escalar"
    /\ IF Len(M) < n THEN Falhar
       ELSE plano' = [plano EXCEPT !.motoristas = SubSeq(M, 1, n), !.fase = "gravar"]
    /\ UNCHANGED <<tabelas, demais>>

\* Mutation: the rows of the passengers without their trips.
InserirSemViagem(ids, s, carga) ==
    LET dentro == {<<<<ids[j], s>>, r>> : j \in DOMAIN ids, r \in Reserva} IN
    /\ UNCHANGED viagem
    /\ presenca' = [l \in DOMAIN presenca \cup dentro |->
                    IF l \in dentro THEN "aguardando" ELSE presenca[l]]

\* Rows of viagem_reservas for trips of sentido s: carga[j] rides in ids[j].
LinhasDaCarga(ids, s, carga) ==
    UNION {{<<<<ids[j], s>>, r>> : r \in carga[j]} : j \in DOMAIN ids}

\* The trips of the ciclos ids with their passengers.
Inserir(ids, s, carga) ==
    LET dentro == LinhasDaCarga(ids, s, carga)
        trips  == {<<ids[j], s>> : j \in DOMAIN ids}
    IN
    /\ viagem' = [v \in DOMAIN viagem \cup trips |->
                    IF v \in trips THEN "programada" ELSE viagem[v]]
    /\ presenca' = [l \in DOMAIN presenca \cup dentro |->
                    IF l \in dentro THEN "aguardando" ELSE presenca[l]]

\* uq_viagem_reservas_reserva_ativa: one of R is in a trip already.
JaAlocada(R) == \E l \in Linhas(Ativas) : l[2] \in R

\* montarCiclosIdaComReservasInput: the passengers of each vehicle of the plan.
CargaIda == Distribuir(plano.reservas, destinoDe, plano.lugares)

\* insertCicloViagem
NovoCiclo(j) ==
    [chave |-> plano.chave, veiculo |-> plano.veiculos[j], motorista |-> plano.motoristas[j]]

\* CreatePlanejamentoIda in one transaction.  A unique index refuses what a
\* lost answer had planned before, and the processor takes the key for planned.
GravarIda ==
    LET ids == [j \in DOMAIN plano.veiculos |-> Len(ciclos) + j] IN
    /\ plano.fase = "gravar"
    /\ IF JaAlocada(plano.reservas)
       THEN UNCHANGED <<ciclos, viagem, presenca>>
       ELSE /\ ciclos' = ciclos \o [j \in DOMAIN plano.veiculos |-> NovoCiclo(j)]
            /\ Inserir(ids, "ida", CargaIda)
    /\ Passo("concluido")
    /\ UNCHANGED <<confirmada, horarios, execucao, demais>>

-----------------------------------------------------------------------------
(* Planning of the return *)

\* Mutation: only ciclos whose outbound trip was concluded.
CiclosConcluidos(k) == {i \in DaChave(k) : viagem[<<i, "ida">>] = "concluida"}

\* ListCiclosParaPlanejamentoVolta: ciclos whose outbound trip is not cancelled.
CiclosParaVolta(k) == {i \in DaChave(k) : viagem[<<i, "ida">>] # "cancelada"}

\* Mutation: whoever had a seat on the way out has one on the way back.
ComLinha(k) ==
    {r \in Confirmadas(k, "volta") : \E l \in DOMAIN presenca :
        l[1][2] = "ida" /\ ciclos[l[1][1]].chave = k /\ clienteDe[l[2]] = clienteDe[r]}

\* Mutation: the outbound trip must be concluded.
DeViagemConcluida(k) ==
    {r \in Confirmadas(k, "volta") : \E l \in Linhas({"embarcou"}) :
        /\ l[1][2] = "ida" /\ ciclos[l[1][1]].chave = k /\ viagem[l[1]] = "concluida"
        /\ clienteDe[l[2]] = clienteDe[r]}

\* ListReservasElegiveisParaVolta: the client boarded an outbound trip of the key.
Elegiveis(k) ==
    {r \in Confirmadas(k, "volta") : \E l \in Linhas({"embarcou"}) :
        l[1][2] = "ida" /\ ciclos[l[1][1]].chave = k /\ clienteDe[l[2]] = clienteDe[r]}

ListarCiclos ==
    LET C == PorId(CiclosParaVolta(plano.chave)) IN
    /\ plano.fase = "listar_ciclos"
    /\ plano' = [plano EXCEPT !.veiculos = C,
                              !.lugares = [j \in DOMAIN C |-> Assento(C[j])],
                              !.fase = IF C = <<>> THEN "sem_demanda" ELSE "listar_volta"]
    /\ UNCHANGED <<tabelas, demais>>

\* The eligible ones, and the check that the ciclos have seats for all.
ListarVolta ==
    LET R == Elegiveis(plano.chave) IN
    /\ plano.fase = "listar_volta"
    /\ IF UNION Range(Distribuir(R, destinoDe, plano.lugares)) # R THEN Falhar
       ELSE plano' = [plano EXCEPT !.reservas = R, !.fase = "gravar_volta"]
    /\ UNCHANGED <<tabelas, demais>>

\* CreatePlanejamentoVolta in one transaction.
GravarVolta ==
    LET ids == plano.veiculos IN
    /\ plano.fase = "gravar_volta"
    /\ IF \/ \E j \in DOMAIN ids : <<ids[j], "volta">> \in DOMAIN viagem
          \/ JaAlocada(plano.reservas)
       THEN UNCHANGED <<viagem, presenca>>
       ELSE Inserir(ids, "volta", Distribuir(plano.reservas, destinoDe, plano.lugares))
    /\ Passo("concluido")
    /\ UNCHANGED <<confirmada, ciclos, horarios, execucao, demais>>

-----------------------------------------------------------------------------
(* End of an execution *)

Finalizar ==
    /\ plano.fase \in Terminal
    /\ execucao' = [execucao EXCEPT ![<<plano.chave, plano.sentido>>] = plano.fase]
    /\ plano' = SemPlano
    /\ UNCHANGED <<confirmada, ciclos, viagem, horarios, presenca, demais>>

\* The call dies wherever it is.
Cair ==
    /\ plano.fase # "ocioso"
    /\ Falhar /\ Contar
    /\ UNCHANGED <<tabelas, envios, posicao, cadastro, pontuais>>

-----------------------------------------------------------------------------
(* The requests of clients, drivers and admins *)

\* POST .../cancelar of a reserva: nothing stops it after the planning.
CancelarReserva(r) ==
    /\ r \in confirmada
    /\ confirmada' = confirmada \ {r}
    /\ Contar
    /\ UNCHANGED <<ciclos, viagem, horarios, presenca, execucao, plano, envios, posicao, cadastro, pontuais>>

\* Mutation: the trip is changed without looking at its status.
MudarSemVer(v, de, para, tipo) ==
    /\ v \in DOMAIN viagem /\ <<v, tipo>> \notin horarios
    /\ viagem' = [viagem EXCEPT ![v] = para]
    /\ horarios' = horarios \cup {<<v, tipo>>}
    /\ Contar
    /\ UNCHANGED <<confirmada, ciclos, presenca, execucao, plano, envios, posicao, cadastro, pontuais>>

\* AtualizarStatusERegistrarHorarioViagem, holding the row of the trip.
Mudar(v, de, para, tipo) ==
    /\ v \in DOMAIN viagem /\ viagem[v] = de /\ <<v, tipo>> \notin horarios
    /\ viagem' = [viagem EXCEPT ![v] = para]
    /\ horarios' = horarios \cup {<<v, tipo>>}
    /\ Contar
    /\ UNCHANGED <<confirmada, ciclos, presenca, execucao, plano, envios, posicao, cadastro, pontuais>>

Iniciar(v)  == Mudar(v, "programada", "em_andamento", "inicio_real")
Concluir(v) == Mudar(v, "em_andamento", "concluida", "fim_real")

\* UpdateViagem, holding the row of the trip: its status and nothing else.
GravarStatus(v, st) ==
    /\ viagem' = [viagem EXCEPT ![v] = st]
    /\ UNCHANGED <<confirmada, ciclos, horarios, presenca, execucao, plano, envios, posicao, cadastro, pontuais>>

\* Cancelar: anything but a concluded trip, its passengers and ciclo untouched.
CancelarViagem(v) ==
    /\ v \in DOMAIN viagem /\ viagem[v] \in {"programada", "em_andamento"}
    /\ GravarStatus(v, "cancelada")
    /\ Contar

\* Rows of an outbound trip whose return is still open.
AntesDaVolta(l) ==
    /\ l[1][2] = "ida"
    /\ execucao[<<ciclos[l[1][1]].chave, "volta">>] = "ausente"

\* presencaService: what may be recorded, and what changes; a cancelled row is
\* final.
Registraveis == {"embarcou", "faltou", "cancelado"}
Altera(l, st) == st \in Registraveis /\ presenca[l] \notin {st, "cancelado"}

\* UpdatePresenca, holding the row: whatever the status of the trip.
AtualizarPresenca(l, st) ==
    /\ l \in DOMAIN presenca /\ Altera(l, st)
    /\ presenca' = [presenca EXCEPT ![l] = st]
    /\ pontuais' = IF st = "embarcou" /\ AntesDaVolta(l) THEN pontuais \cup {l}
                                                         ELSE pontuais \ {l}
    /\ Contar
    /\ UNCHANGED <<confirmada, ciclos, viagem, horarios, execucao, plano, envios, posicao, cadastro>>

\* Mutation: the driver of the trip, running or not.
Designado(v) == v \in DOMAIN viagem

\* CanMotoristaAccessViagem: the driver of the ciclo, the trip running.
PodeEnviar(v) == v \in DOMAIN viagem /\ viagem[v] = "em_andamento"

\* localizacaoService.Atualizar of a driver: the check ...
AutorizarPosicao(v) ==
    /\ PodeEnviar(v) /\ v \notin envios
    /\ envios' = envios \cup {v}
    /\ Contar
    /\ UNCHANGED <<tabelas, plano, posicao, cadastro, pontuais>>

\* ... and the Upsert of what was sent.
GravarPosicao(v) ==
    /\ v \in envios
    /\ envios' = envios \ {v}
    /\ posicao' = {p \in posicao : p[1] # v} \cup {<<v, "motorista">>}
    /\ UNCHANGED <<tabelas, plano, cadastro, pontuais, eventos>>

\* The position an admin sends, for any trip.
PosicaoDoAdmin(v) ==
    /\ v \in DOMAIN viagem
    /\ posicao' = {p \in posicao : p[1] # v} \cup {<<v, "admin">>}
    /\ Contar
    /\ UNCHANGED <<tabelas, plano, envios, cadastro, pontuais>>

\* Update of veiculoStore, holding the row of the vehicle.
GravarVeiculo(v, d) ==
    /\ frota' = [frota EXCEPT ![v] = d]
    /\ editados' = editados \cup {v}
    /\ UNCHANGED <<tabelas, plano, envios, posicao, pontuais>>

\* PUT of a vehicle: nothing looks for the trips it serves.
EditarVeiculo(v, d) ==
    /\ d # frota[v]
    /\ GravarVeiculo(v, d)
    /\ Contar

-----------------------------------------------------------------------------
Planejador ==
    \/ Listar \/ AlocarVeiculos \/ EscalarMotoristas \/ GravarIda
    \/ ListarCiclos \/ ListarVolta \/ GravarVolta \/ Finalizar

Next ==
    \/ \E k \in Chave, s \in Sentido : Abrir(k, s)
    \/ Planejador
    \/ Cair
    \/ \E r \in Reserva : CancelarReserva(r)
    \/ \E e \in Edicoes : EditarVeiculo(e[1], e[2])
    \/ \E v \in DOMAIN viagem :
        \/ Iniciar(v) \/ Concluir(v) \/ CancelarViagem(v)
        \/ AutorizarPosicao(v) \/ GravarPosicao(v) \/ PosicaoDoAdmin(v)
    \/ \E l \in DOMAIN presenca, st \in Registraveis :
        AtualizarPresenca(l, st)

Spec == Init /\ [][Next]_vars
-----------------------------------------------------------------------------
(* Properties *)

TypeOK ==
    /\ confirmada \subseteq Reserva
    /\ ciclos \in Seq([chave : Chave, veiculo : Veiculo, motorista : Motorista])
    /\ \A v \in DOMAIN viagem : v \in (DOMAIN ciclos) \X Sentido
    /\ Range(viagem) \subseteq {"programada", "em_andamento", "concluida", "cancelada"}
    /\ \A l \in DOMAIN presenca : l[1] \in DOMAIN viagem /\ l[2] \in Reserva
    /\ Range(presenca) \subseteq Ativas \cup {"cancelado"}
    /\ \A h \in horarios : h[1] \in DOMAIN viagem /\ h[2] \in {"inicio_real", "fim_real"}
    /\ execucao \in [Chave \X Sentido -> {"ausente", "processando"} \cup Terminal]
    /\ envios \subseteq DOMAIN viagem /\ pontuais \subseteq DOMAIN presenca
    /\ \A p \in posicao : p[1] \in DOMAIN viagem /\ p[2] \in {"motorista", "admin"}
    /\ DOMAIN plano = DOMAIN SemPlano /\ plano.reservas \subseteq Reserva
    /\ frota \in [Veiculo -> [categoria : Categoria, ativo : BOOLEAN]]
    /\ editados \subseteq Veiculo /\ eventos \in 0 .. MaxEventos

Intocado == eventos = 0 /\ \A p \in DOMAIN execucao : execucao[p] = "ausente"

\* The allocation of every number of passengers over every small fleet is what
\* AlocacaoCompleta of Distribuicao says.  It is about constants, so it is asked
\* of the state in which nothing has happened.
AlocacaoCorreta == Intocado => AlocacaoCompleta

\* So is the distribution of passengers over vehicles (DistribuicaoCorreta).
ReparticaoCorreta == Intocado => DistribuicaoCorreta

\* Nobody travels without a seat: the rows of a trip, there or back, are never
\* more than the seats of the vehicle of its ciclo (planejamento_service.go
\* distributes without checking anything afterwards on the way out).  Of the
\* vehicles that were edited, nothing is said: the code does not look at trips.
LotacaoRespeitada ==
    \A v \in DOMAIN viagem : ciclos[v[1]].veiculo \notin editados =>
        Cardinality({l \in Linhas(Ativas) : l[1] = v}) <= Assento(v[1])

\* When the outbound execution of a key is concluded, whoever has a confirmed
\* reserva of it is in one of its trips: no group is dropped by the
\* distribution, none by a retry after a plan whose answer was lost.
IdaCompleta ==
    \A k \in Chave : execucao[<<k, "ida">>] = "concluido" =>
        \A r \in Confirmadas(k, "ida") :
            \E l \in DOMAIN presenca : l[2] = r /\ ciclos[l[1][1]].chave = k

\* Vehicles and drivers serve one ciclo of the shift, also when a plan was
\* committed and the key planned again (api-reference.md:1862-1867).
RecursoUnico ==
    \A i, j \in DOMAIN ciclos : i # j =>
        ciclos[i].veiculo # ciclos[j].veiculo /\ ciclos[i].motorista # ciclos[j].motorista

\* A return trip only carries clients whose presence on an outbound trip of
\* the key was recorded, whatever was corrected, cancelled or replanned since.
VoltaDeQuemEmbarcou ==
    \A l \in DOMAIN presenca : l[1][2] = "volta" =>
        \E p \in DOMAIN presenca :
            /\ p[1][2] = "ida" /\ presenca[p] # "aguardando"
            /\ ciclos[p[1][1]].chave = ciclos[l[1][1]].chave
            /\ clienteDe[p[2]] = clienteDe[l[2]]

\* Whoever boarded before the return was closed, and has a confirmed reserva
\* for it, is in a return trip once its execution is concluded.
QuemEmbarcouVolta ==
    \A p \in pontuais, r \in confirmada :
        LET k == ciclos[p[1][1]].chave IN
        /\ execucao[<<k, "volta">>] = "concluido"
        /\ sentidoDe[r] = "volta" /\ chaveDe[r] = k /\ clienteDe[r] = clienteDe[p[2]]
        => \E l \in DOMAIN presenca : l[1][2] = "volta" /\ l[2] = r

\* The return does not fail for want of seats: unless an outbound trip was
\* cancelled, a vehicle edited, or a client has more reservas back than seats on
\* the way out, the eligible ones fit in the ciclos of the key.
VoltaCabe ==
    \A k \in Chave :
        LET E == Elegiveis(k)
            lugares == Cadeiras([i \in CiclosParaVolta(k) |-> Assento(i)])
            idas(c) == {l \in Linhas(Ativas) : l[1][2] = "ida" /\ clienteDe[l[2]] = c
                                               /\ ciclos[l[1][1]].chave = k}
        IN  /\ \A i \in DaChave(k) :
                /\ viagem[<<i, "ida">>] # "cancelada"
                /\ ciclos[i].veiculo \notin editados
            /\ \A r \in E : Cardinality({e \in E : clienteDe[e] = clienteDe[r]})
                                <= Cardinality(idas(clienteDe[r]))
            => Cardinality(E) <= Cardinality(lugares)

\* A trip that is over or cancelled stays so, its end follows its start, and a
\* start or an end that was recorded is never recorded again nor lost.
HistoriaDaViagem ==
    [][/\ \A v \in DOMAIN viagem :
            /\ viagem[v] \in {"concluida", "cancelada"} => viagem'[v] = viagem[v]
            /\ viagem'[v] = "programada" => viagem[v] = "programada"
       /\ horarios \subseteq horarios'
       /\ \A h \in horarios' : h[2] = "fim_real" =>
            <<h[1], "inicio_real">> \in horarios /\ viagem'[h[1]] = "concluida"]_vars

\* A position sent by a driver belongs to a trip that was started, although
\* the check and the upsert are two statements.
PosicaoDeViagemIniciada ==
    \A p \in posicao : p[2] = "motorista" => <<p[1], "inicio_real">> \in horarios
=============================================================================
