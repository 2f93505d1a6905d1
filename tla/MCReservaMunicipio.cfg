CONSTANTS
    v1 = v1
    v2 = v2
    m1 = m1
    m2 = m2
    r1 = r1
    r2 = r2
    p1 = p1
    p2 = p2
    d1 = d1
    Vaga = {v1}
    Municipio = {m1, m2}
    Reserva = {r1}
    Pedido = {p1, p2}
    Conexoes = 4
    destinoDe <- MCDestinoDe
    municipioInicial <- MCMunicipioInicial
    Remarca = FALSE
    MudaMunicipio = TRUE
SPECIFICATION Spec
SYMMETRY Simetria
PROPERTIES
    PedidoNaoEntra
