SPECIFICATION Spec
CONSTANTS
    Lugares <- MCLugares
    Chave <- MCChave
    Veiculo <- MCVeiculo
    categoriaDe <- MCCategoria
    Edicoes <- MCEdicoes
    Motorista <- MCMotorista
    cidadeDe <- MCCidade
    Reserva <- MCReserva
    clienteDe <- MCCliente
    sentidoDe <- MCSentido
    chaveDe <- MCChaveDe
    destinoDe <- MCDestino
    MaxEventos = 3
    MaxAlunos = 100
    Frota <- MCFrota
INVARIANTS
    TypeOK
    LotacaoRespeitada
    IdaCompleta
    RecursoUnico
    VoltaDeQuemEmbarcou
    QuemEmbarcouVolta
    VoltaCabe
    AlocacaoCorreta
    ReparticaoCorreta
    PosicaoDeViagemIniciada
PROPERTIES
    HistoriaDaViagem
CHECK_DEADLOCK FALSE
