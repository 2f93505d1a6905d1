------------------------------ MODULE Listagem ------------------------------
(***************************************************************************)
(* The listings by pages of clients, vinculos, reservas and trips (List of *)
(* their stores): the screen asks for a page, and then for the ones after  *)
(* its cursor, while the rows change.  Each page is one statement.  The    *)
(* filters, which stay the same from page to page, are left out; a trip is *)
(* listed as its ciclo.                                                    *)
(***************************************************************************)
EXTENDS Catalogo

CONSTANT Limite     \* rows per page

ASSUME ListagemAssumption == Limite \in Nat \ {0}

VARIABLES
    leitor,         \* the screen: what it lists, its cursor and what it has seen
    estaveis        \* history: rows that were there, and in their place, all along

SemCursor == <<>>
SemLeitor == [lista |-> "nenhuma", crescente |-> FALSE, cursor |-> SemCursor,
              vistos |-> {}, repetidos |-> {}]

ListagemInit == leitor = SemLeitor /\ estaveis = {}

\* Clients: id DESC.
PosicaoDoCliente(k) == <<0, -k[2]>>

\* Vinculos: name of the client, then id.
PosicaoDoVinculo(k) == <<banco[CHOOSE r \in banco[k].ref : r[1] = "cliente"].nome, k[2]>>

\* Reservas: the latest date first, then id DESC.
PosicaoDaReserva(k) == <<-banco[k].data, -k[2]>>

\* Trips: date and id, in the direction that was asked for.
PosicaoDaViagem(k) == IF leitor.crescente THEN <<banco[k].data, k[2]>> ELSE <<-banco[k].data, -k[2]>>

Listas == {"cliente", "vinculo", "reserva", "ciclo"}

Posicao(k) == CASE k[1] = "cliente" -> PosicaoDoCliente(k)
                [] k[1] = "vinculo" -> PosicaoDoVinculo(k)
                [] k[1] = "reserva" -> PosicaoDaReserva(k)
                [] k[1] = "ciclo"   -> PosicaoDaViagem(k)

Antes(p, q) == p[1] < q[1] \/ (p[1] = q[1] /\ p[2] < q[2])

\* The first n of the rows K.
Primeiros(K, n) == {k \in K : Cardinality({j \in K : Antes(Posicao(j), Posicao(k))}) < n}

Seguintes == {k \in De(leitor.lista) : leitor.cursor = SemCursor \/ Antes(leitor.cursor, Posicao(k))}

Ultima(K) == CHOOSE k \in K : \A j \in K : j = k \/ Antes(Posicao(j), Posicao(k))

\* Mutation: the cursor is the row that was read only to know of a next page.
CursorAdiante(K) == Posicao(Ultima(Primeiros(K, Limite + 1)))

\* NextCursor: where the last row of the page is.
Cursor(K) == Posicao(Ultima(Primeiros(K, Limite)))

AbrirLista ==
    /\ leitor.lista \notin Listas
    /\ \E t \in Listas, c \in BOOLEAN :
          /\ c => t = "ciclo"
          /\ leitor' = [SemLeitor EXCEPT !.lista = t, !.crescente = c]
          /\ estaveis' = De(t)
    /\ UNCHANGED catalogo

\* One row more than the page is read, to know whether there is a next one.
LerPagina ==
    LET P    == Primeiros(Seguintes, Limite)
        mais == Primeiros(Seguintes, Limite + 1) # P
    IN
    /\ leitor.lista \in Listas
    /\ leitor' = [crescente |-> leitor.crescente,
                  lista     |-> IF mais THEN leitor.lista ELSE "fim",
                  cursor    |-> IF mais THEN Cursor(Seguintes) ELSE SemCursor,
                  vistos    |-> leitor.vistos \cup P,
                  repetidos |-> leitor.repetidos \cup (P \cap leitor.vistos)]
    /\ UNCHANGED <<catalogo, estaveis>>

\* History, for the steps of the others.
Acompanhar ==
    /\ UNCHANGED leitor
    /\ estaveis' = {k \in estaveis : k \in Linhas' /\ Posicao(k)' = Posicao(k)}

\* A listing shows once every row that was there from the first page to the last
\* and kept its place, whatever else was created, removed or renamed between the
\* pages (the row of the cursor included).
ListagemCompleta ==
    leitor.lista = "fim" => estaveis \subseteq leitor.vistos \ leitor.repetidos
=============================================================================
