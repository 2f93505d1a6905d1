CONSTANTS
    k1 = k1
    k2 = k2
    c1 = c1
    Chave = {k1, k2}
    Chamada = {c1}
    Partida <- MCPartida
    AntecedenciaFechamento = 30
    DuracaoBloqueio = 5
    IntervaloRetryInicial = 1
    IntervaloRetryMaximo = 5
    DuracaoChamada = 1
    AtrasoReserva = 1
    Horizonte = 32
    MaxFalhas = 4
SPECIFICATION SpecPontual
INVARIANTS
    PlanejadaAtePartida
    ConcluidoTemPlano
CHECK_DEADLOCK FALSE
