CONSTANTS
    k1 = k1
    k2 = k2
    c1 = c1
    c2 = c2
    c3 = c3
    Chave = {k1, k2}
    Chamada = {c1, c2}
    Partida <- MCPartida
    AntecedenciaFechamento = 6
    DuracaoBloqueio = 3
    IntervaloRetryInicial = 1
    IntervaloRetryMaximo = 3
    DuracaoChamada = 1
    AtrasoReserva = 1
    Horizonte = 8
SPECIFICATION Spec
INVARIANTS
    ConcluidoTemPlano
