SPECIFICATION SpecJusta
CONSTANTS
    v1 = v1
    v2 = v2
    r1 = r1
    r2 = r2
    r3 = r3
    d1 = d1
    d2 = d2
    Viagem = {v1, v2}
    Reserva = {r1, r2, r3}
    Destino = {d1, d2}
    viagemDe <- MCViagemDe
    destinoDe <- MCDestinoDe
    Antecedencia = 3
    JanelaCalculo = 6
    JanelaBloqueio = 3
    Horarios <- MCHorarios
    horarioInicial = 5
    Fim = 8
    Duracoes <- MCDuracoes
    MaxEdicoes = 0
    MaxFalhas = 0
    MaxPedidos = 0
PROPERTIES
    TodaViagemTemRota
CHECK_DEADLOCK FALSE
