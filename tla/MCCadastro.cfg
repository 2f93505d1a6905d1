SPECIFICATION Spec
CONSTANTS
    Nome = {1, 2}
    Fone = {"f1"}
    Anteriores <- MCAnteriores
    Tarefa = {t1, t2}
    Meses = 1
    Lote = 2
    Inicio = 2
    MaxHoje = 3
    Limite = 1
    MaxEventos = 3
SYMMETRY Simetria
INVARIANTS
    TypeOK
    ArquivoAchado
    ListagemCompleta
    LimpezaCompleta
CHECK_DEADLOCK FALSE
