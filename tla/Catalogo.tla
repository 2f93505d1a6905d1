------------------------------ MODULE Catalogo ------------------------------
(***************************************************************************)
(* The tables of the registry and of what hangs from them, as PostgreSQL   *)
(* keeps them (internal/db/migrations): rows that refer to rows, with ON   *)
(* DELETE CASCADE or RESTRICT, and the registry of telephones that         *)
(* triggers keep for clientes and motoristas together.                     *)
(*                                                                         *)
(* A row is known by <<table, id>>.  Of its columns, only those that these *)
(* modules tell apart are kept.  A statement that the database refuses     *)
(* changes nothing and is no step.  The rows of rota_interna_paradas are   *)
(* part of their rota, the viagens of a ciclo part of it.                  *)
(***************************************************************************)
EXTENDS Integers, FiniteSets

CONSTANTS
    Nome,           \* names of clients, ordered
    Fone,           \* telephones
    Anteriores      \* databases that the system may start with

SemFone == "nao informado"

Tabela == {"municipio", "destino", "parada", "rota", "veiculo", "motorista",
           "cliente", "vinculo", "reserva", "ciclo", "alocada", "execucao"}

\* The foreign keys: the table that refers and the one it refers to.
Estrangeira ==
    {<<"destino", "municipio">>, <<"rota", "parada">>, <<"motorista", "municipio">>,
     <<"vinculo", "cliente">>, <<"vinculo", "destino">>, <<"vinculo", "rota">>,
     <<"reserva", "cliente">>, <<"reserva", "vinculo">>, <<"reserva", "destino">>, <<"reserva", "rota">>,
     <<"ciclo", "municipio">>, <<"ciclo", "rota">>, <<"ciclo", "destino">>,
     <<"ciclo", "veiculo">>, <<"ciclo", "motorista">>,
     <<"alocada", "ciclo">>, <<"alocada", "reserva">>,
     <<"execucao", "municipio">>, <<"execucao", "rota">>}

\* A row of table t: columns of their types, references of its foreign keys, a
\* client for every vinculo and stops for every route.
LinhaValida(t, d) ==
    /\ d \in [ref : {d.ref}, data : Int, nome : Int, fone : Fone \cup {SemFone}, arq : {d.arq}]
    /\ \A r \in d.ref : <<t, r[1]>> \in Estrangeira
    /\ t = "vinculo" => \E r \in d.ref : r[1] = "cliente"
    /\ t = "rota" => d.ref # {}

\* A database that kept to the schema: its rows are valid, refer to rows it has and
\* share no telephone.
BancoValido(b) ==
    /\ IsFiniteSet(DOMAIN b) /\ DOMAIN b \subseteq Tabela \X (1 .. Cardinality(DOMAIN b))
    /\ \A k \in DOMAIN b : LinhaValida(k[1], b[k]) /\ b[k].ref \subseteq DOMAIN b
    /\ \A j, k \in DOMAIN b : b[j].fone = b[k].fone => j = k \/ b[k].fone = SemFone

ASSUME CatalogoAssumption == Nome \subseteq Int /\ \A b \in Anteriores : BancoValido(b)

VARIABLES
    banco,          \* row of each key
    telefones,      \* telefones_cadastrados: <<telefone, key>>
    sequencia       \* last id given

catalogo == <<banco, telefones, sequencia>>

\* The columns of a row that has none of interest.
SemDados == [ref |-> {}, data |-> 0, nome |-> 0, fone |-> SemFone, arq |-> <<>>]

Linhas == DOMAIN banco
De(t)  == {k \in Linhas : k[1] = t}

\* The foreign keys that cascade; every other one restricts.
Cascata == {<<"vinculo", "cliente">>, <<"reserva", "cliente">>, <<"alocada", "ciclo">>}

\* What a DELETE of rows K takes with it.
Fecho(K) ==
    K \cup {k \in Linhas : \E r \in banco[k].ref \cap K : <<k[1], r[1]>> \in Cascata}

\* Mutation: the foreign keys do not restrict.
SempreRemovivel(K) == TRUE

\* RESTRICT refuses a DELETE even when the row that refers would go as well.
Removivel(K) ==
    \A k \in Linhas : \A r \in banco[k].ref \cap Fecho(K) : <<k[1], r[1]>> \in Cascata

\* The trigger of row k, whose telephone becomes fone.
Registro(k, fone) ==
    {f \in telefones : f[2] # k} \cup IF fone = SemFone THEN {} ELSE {<<fone, k>>}
FoneLivre(k, fone) == \A f \in telefones : f[1] = fone => f[2] = k

Nova(t) == <<t, sequencia + 1>>

-----------------------------------------------------------------------------
(* Statements *)

Inserir(t, d) ==
    /\ d.ref \subseteq Linhas /\ FoneLivre(Nova(t), d.fone)
    /\ banco' = [k \in Linhas \cup {Nova(t)} |-> IF k = Nova(t) THEN d ELSE banco[k]]
    /\ telefones' = Registro(Nova(t), d.fone)
    /\ sequencia' = sequencia + 1

Alterar(k, d) ==
    /\ k \in Linhas /\ d.ref \subseteq Linhas /\ FoneLivre(k, d.fone)
    /\ banco' = [banco EXCEPT ![k] = d]
    /\ telefones' = Registro(k, d.fone)
    /\ UNCHANGED sequencia

Excluir(K) ==
    /\ K \subseteq Linhas /\ Removivel(K)
    /\ banco' = [k \in Linhas \ Fecho(K) |-> banco[k]]
    /\ telefones' = {f \in telefones : f[2] \notin Fecho(K)}
    /\ UNCHANGED sequencia

CatalogoInit ==
    /\ banco \in Anteriores
    /\ telefones = {<<banco[k].fone, k>> : k \in {j \in Linhas : banco[j].fone # SemFone}}
    /\ sequencia = Cardinality(Linhas)

-----------------------------------------------------------------------------
(* Handlers of the tables without documents *)

\* The rows that the stores insert.
Municipio  == SemDados
Veiculo    == SemDados
Destino(m) == [SemDados EXCEPT !.ref = {m}]
Parada     == SemDados
Rota(P)    == [SemDados EXCEPT !.ref = P]

\* The import is one statement, sent once everything has been fetched: what is
\* there keeps its row, and here there is one new municipio.
ImportarMunicipios == Inserir("municipio", Municipio)

CriarVeiculo == Inserir("veiculo", Veiculo)
CriarDestino == \E m \in De("municipio") : Inserir("destino", Destino(m))
CriarParada  == Inserir("parada", Parada)

\* validateParadas: there are stops.
Trajetos == (SUBSET De("parada")) \ {{}}

\* The stops of a route go in with it or not at all.
CriarRota == \E P \in Trajetos : Inserir("rota", Rota(P))

TrocarParadas ==
    \E k \in De("rota"), P \in Trajetos : P # banco[k].ref /\ Alterar(k, Rota(P))

ExcluirVeiculo   == \E k \in De("veiculo")   : Excluir({k})
ExcluirDestino   == \E k \in De("destino")   : Excluir({k})
ExcluirParada    == \E k \in De("parada")    : Excluir({k})
ExcluirRota      == \E k \in De("rota")      : Excluir({k})
ExcluirMotorista == \E k \in De("motorista") : Excluir({k})
ExcluirCliente   == \E k \in De("cliente")   : Excluir({k})
ExcluirVinculo   == \E k \in De("vinculo")   : Excluir({k})

-----------------------------------------------------------------------------
\* References hold, a route keeps its stops, and the registry has exactly the
\* telephones of the rows, each once.
CatalogoTypeOK ==
    /\ \A k \in Linhas : banco[k].ref \subseteq Linhas /\ k[2] <= sequencia
    /\ \A k \in De("rota") : banco[k].ref # {}
    /\ telefones = {<<banco[k].fone, k>> : k \in {j \in Linhas : banco[j].fone # SemFone}}
    /\ \A f, g \in telefones : f[1] = g[1] => f = g
=============================================================================
