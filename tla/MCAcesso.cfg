SPECIFICATION Spec
CONSTANTS
    a1 = a1
    e1 = e1
    e2 = e2
    p1 = p1
    p2 = p2
    o1 = o1
    o2 = o2
    Endereco = {a1}
    Email = {e1, e2}
    Pedido = {p1, p2}
    Operador = {o1, o2}
    Chave <- MCChave
    Limite <- MCLimite
    Janela = 3
    Atraso = 1
    MaxAgora = 3
    MaxEventos = 3
    MaxContas = 5
    Anteriores <- MCAnteriores
SYMMETRY Simetria
INVARIANTS TypeOK TrocasEncadeadas
PROPERTIES LimitePorJanela UltimoAdminFica
CHECK_DEADLOCK FALSE
