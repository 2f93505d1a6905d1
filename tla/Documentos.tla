----------------------------- MODULE Documentos -----------------------------
(***************************************************************************)
(* The registration of clients, vinculos and drivers (internal/clientes,   *)
(* internal/motoristas) with the files they refer to in Storage            *)
(* (internal/storage, an external service).                                *)
(*                                                                         *)
(* A file is sent to a waiting path before the row exists.  The handler    *)
(* that creates the row then moves each file to its definitive path and    *)
(* records the new path, one call after the other, with nothing around     *)
(* them: other requests edit or remove the row meanwhile.  Every creation  *)
(* and every edition comes with files of its own.                          *)
(***************************************************************************)
EXTENDS Catalogo, Sequences

CONSTANT Tarefa     \* requests of more than one step that may be under way

VARIABLES
    objetos,        \* paths with a file in Storage
    enviados,       \* uploads so far
    tarefa,         \* the requests, and the forms open on a screen
    perdidas        \* history: rows whose path was lost in one of the known ways

documentos == <<objetos, enviados, tarefa, perdidas>>

\* Paths: of the n-th upload, and the definitive one of a row.
Espera(n, c)    == [dono |-> <<"espera", n>>, campo |-> c]
Definitivo(k, c) == [dono |-> k, campo |-> c]

Campos(t) == CASE t = "cliente"   -> <<"identificacao", "residencia">>
               [] t = "vinculo"   -> <<"comprovante">>
               [] t = "motorista" -> <<"foto">>
               [] OTHER -> <<>>
Colunas(t) == {Campos(t)[i] : i \in DOMAIN Campos(t)}

\* The files of the rows there are: at their definitive path, or still at a waiting path
\* of their own, from before.
ASSUME DocumentosAssumption ==
    \A b \in Anteriores : \A k \in DOMAIN b :
        /\ DOMAIN b[k].arq = Colunas(k[1])
        /\ \A c \in Colunas(k[1]) : b[k].arq[c] \in {Definitivo(k, c), Espera(-k[2], c)}

Livre == [fase |-> "livre", dono |-> <<"", 0>>, dados |-> SemDados, falta |-> <<>>, movidos |-> {}]

DocumentosInit ==
    /\ objetos = UNION {{banco[k].arq[c] : c \in DOMAIN banco[k].arq} : k \in Linhas}
    /\ enviados = 0 /\ perdidas = {}
    /\ tarefa = [s \in Tarefa |-> Livre]

Proximo(s, r) == tarefa' = [tarefa EXCEPT ![s] = r]

-----------------------------------------------------------------------------
(* Creation *)

\* The row is inserted with the paths of the files sent before; the handler
\* goes on to organise them.
Criar(s, t, d) ==
    LET n == enviados + 1
        a == [c \in Colunas(t) |-> Espera(n, c)]
    IN
    /\ tarefa[s].fase = "livre"
    /\ Inserir(t, [d EXCEPT !.arq = a])
    /\ objetos' = objetos \cup {a[c] : c \in DOMAIN a}
    /\ enviados' = n
    /\ Proximo(s, [Livre EXCEPT !.fase = "mover", !.dono = Nova(t), !.falta = Campos(t),
                                !.dados = [d EXCEPT !.arq = a]])
    /\ UNCHANGED perdidas

\* The rows that the stores insert.
Cliente(n, f)    == [SemDados EXCEPT !.nome = n, !.fone = f]
Motorista(m, f)  == [SemDados EXCEPT !.ref = {m}, !.fone = f]
Vinculo(c, d, r) == [SemDados EXCEPT !.ref = {c, d, r}]

CriarCliente(s)   == \E n \in Nome, f \in Fone \cup {SemFone} : Criar(s, "cliente", Cliente(n, f))
CriarMotorista(s) ==
    \E m \in De("municipio"), f \in Fone \cup {SemFone} : Criar(s, "motorista", Motorista(m, f))
CriarVinculo(s) ==
    \E c \in De("cliente"), d \in De("destino"), r \in De("rota") :
        Criar(s, "vinculo", Vinculo(c, d, r))

-----------------------------------------------------------------------------
(* Organising the files of a new row *)

\* MoveObject of the next file: done, or not, or done with its answer lost.
Mover(s) ==
    LET t  == tarefa[s]
        c  == Head(t.falta)
        de == t.dados.arq[c]
        Seguir(M) == Proximo(s, IF Len(t.falta) > 1 \/ M # {}
                                THEN [t EXCEPT !.falta = Tail(@), !.movidos = M,
                                               !.fase = IF Len(t.falta) > 1 THEN @ ELSE "persistir"]
                                ELSE Livre)
        Levar == objetos' = (objetos \ {de}) \cup {Definitivo(t.dono, c)}
    IN
    /\ t.fase = "mover"
    /\ \/ Levar /\ Seguir(t.movidos \cup {c}) /\ UNCHANGED perdidas
       \/ Seguir(t.movidos) /\ UNCHANGED <<objetos, perdidas>>
       \/ Levar /\ Seguir(t.movidos) /\ perdidas' = perdidas \cup {t.dono}
    /\ UNCHANGED <<catalogo, enviados>>

\* Mutation: the definitive path is recorded whether the file was moved or not.
SempreDefinitivo(t) == [c \in DOMAIN t.dados.arq |-> Definitivo(t.dono, c)]

\* The paths that the handler records: the definitive one of each file that moved.
Organizados(t) ==
    [c \in DOMAIN t.dados.arq |-> IF c \in t.movidos THEN Definitivo(t.dono, c)
                                                     ELSE t.dados.arq[c]]

\* Update of the stores, holding the row.  Of clients and drivers: what the request
\* changes in the row as it is now.  Of a vinculo: all its columns.
AlterarCliente(k, d)   == k \in De("cliente") /\ d # banco[k] /\ Alterar(k, d)
AlterarMotorista(k, d) == k \in De("motorista") /\ d # banco[k] /\ Alterar(k, d)
AlterarVinculo(k, d)   == k \in De("vinculo") /\ Alterar(k, d)

PersistirCliente(t)   == AlterarCliente(t.dono, [banco[t.dono] EXCEPT !.arq = Organizados(t)])
PersistirMotorista(t) == AlterarMotorista(t.dono, [banco[t.dono] EXCEPT !.arq = Organizados(t)])
PersistirVinculo(t)   == AlterarVinculo(t.dono, [t.dados EXCEPT !.arq = Organizados(t)])

\* The new paths are recorded, or the row is gone or the UPDATE fails.
Persistir(s) ==
    LET t == tarefa[s] IN
    /\ t.fase = "persistir"
    /\ Proximo(s, Livre)
    /\ \/ /\ PersistirCliente(t) \/ PersistirMotorista(t) \/ PersistirVinculo(t)
          /\ UNCHANGED perdidas
       \/ perdidas' = perdidas \cup {t.dono} /\ UNCHANGED catalogo
    /\ UNCHANGED <<objetos, enviados>>

-----------------------------------------------------------------------------
(* Edition and removal *)

\* A file just sent for column c.
Enviar(c) ==
    /\ enviados' = enviados + 1
    /\ objetos' = objetos \cup {Espera(enviados', c)}

\* PATCH: only what was given, data or a document.
EditarCliente ==
    \E k \in De("cliente") :
        /\ \/ \E n \in Nome, f \in Fone \cup {SemFone} :
                 AlterarCliente(k, [banco[k] EXCEPT !.nome = n, !.fone = f])
              /\ UNCHANGED <<objetos, enviados>>
           \/ \E c \in DOMAIN banco[k].arq :
                 Enviar(c) /\ AlterarCliente(k, [banco[k] EXCEPT !.arq[c] = Espera(enviados', c)])
        /\ UNCHANGED <<tarefa, perdidas>>

EditarMotorista ==
    \E k \in De("motorista") :
        /\ \/ \E f \in Fone \cup {SemFone} : AlterarMotorista(k, [banco[k] EXCEPT !.fone = f])
              /\ UNCHANGED <<objetos, enviados>>
           \/ /\ Enviar("foto")
              /\ AlterarMotorista(k, [banco[k] EXCEPT !.arq["foto"] = Espera(enviados', "foto")])
        /\ UNCHANGED <<tarefa, perdidas>>

\* The screen loads a vinculo into its form.
AbrirVinculo(s) ==
    \E k \in De("vinculo") :
        /\ tarefa[s].fase = "livre"
        /\ Proximo(s, [Livre EXCEPT !.fase = "formulario", !.dono = k, !.dados = banco[k]])
        /\ UNCHANGED <<catalogo, objetos, enviados, perdidas>>

\* PUT of the form: destino changed or not, the comprovante as it was loaded or a
\* new one.  A path that is not the row's any more may have no file.
SalvarVinculo(s) ==
    LET t == tarefa[s] IN
    /\ t.fase = "formulario"
    /\ Proximo(s, Livre)
    /\ \/ /\ Enviar("comprovante")
          /\ AlterarVinculo(t.dono, [t.dados EXCEPT !.arq["comprovante"] =
                                        Espera(enviados', "comprovante")])
          /\ UNCHANGED perdidas
       \/ /\ \E d \in De("destino") :
                AlterarVinculo(t.dono, [t.dados EXCEPT !.ref = {r \in @ : r[1] # "destino"} \cup {d}])
          /\ perdidas' = IF t.dados.arq = banco[t.dono].arq THEN perdidas
                                                            ELSE perdidas \cup {t.dono}
          /\ UNCHANGED <<objetos, enviados>>

\* The form is left, its vinculo is gone, or the database refuses it.
FecharVinculo(s) ==
    /\ tarefa[s].fase = "formulario"
    /\ Proximo(s, Livre)
    /\ UNCHANGED <<catalogo, objetos, enviados, perdidas>>

-----------------------------------------------------------------------------
\* A file of row k has been moved and the row does not say so yet.
EmOrganizacao(k) == \E s \in Tarefa : tarefa[s].dono = k /\ tarefa[s].movidos # {}

\* Every path that a row has leads to a file, except while the files of the row are
\* being organised and, after that, in three cases: the answer of the move or of
\* the UPDATE was lost, or a form that was opened before has put back an older path
\* (vinculo_handler.go:126 knows only of files that stay at the waiting path).
ArquivoAchado ==
    \A k \in Linhas : \A c \in DOMAIN banco[k].arq :
        banco[k].arq[c] \in objetos \/ k \in perdidas \/ EmOrganizacao(k)
=============================================================================
