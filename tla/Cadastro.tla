------------------------------ MODULE Cadastro ------------------------------
(***************************************************************************)
(* The registry as a whole: its handlers, the organisation of its files,   *)
(* the listings that a screen reads page by page and the monthly clean-up, *)
(* on the same tables at the same time.                                    *)
(***************************************************************************)
EXTENDS Documentos, Retencao, Listagem

CONSTANT MaxEventos     \* bound: requests, and midnights, in all

ASSUME CadastroAssumption == MaxEventos \in Nat

VARIABLE eventos

vars == <<catalogo, documentos, retencao, leitor, estaveis, eventos>>

Init == CatalogoInit /\ DocumentosInit /\ RetencaoInit /\ ListagemInit /\ eventos = 0

\* A new request comes; or one goes on.
Pedido  == eventos < MaxEventos /\ eventos' = eventos + 1
Passo   == UNCHANGED eventos

DoCatalogo ==
    /\ Pedido
    /\ \/ ImportarMunicipios \/ CriarVeiculo \/ CriarDestino \/ CriarParada \/ CriarRota \/ TrocarParadas
       \/ ExcluirVeiculo \/ ExcluirDestino \/ ExcluirParada \/ ExcluirRota
       \/ ExcluirMotorista \/ ExcluirCliente \/ ExcluirVinculo
    /\ Acompanhar /\ UNCHANGED <<documentos, retencao>>

DeDocumentos ==
    /\ \/ /\ Pedido
          /\ \/ EditarCliente \/ EditarMotorista
             \/ \E s \in Tarefa : \/ CriarCliente(s) \/ CriarMotorista(s) \/ CriarVinculo(s)
                                  \/ AbrirVinculo(s)
       \/ /\ Passo
          /\ \E s \in Tarefa : Mover(s) \/ Persistir(s) \/ SalvarVinculo(s) \/ FecharVinculo(s)
    /\ Acompanhar /\ UNCHANGED retencao

DeRetencao ==
    /\ \/ Pedido /\ (Limpar \/ Amanhecer)
       \/ Passo /\ (Remover \/ FalharLimpeza)
    /\ Acompanhar /\ UNCHANGED documentos

DeListagem ==
    /\ \/ Pedido /\ AbrirLista
       \/ Passo /\ LerPagina
    /\ UNCHANGED <<documentos, retencao>>

Next == DoCatalogo \/ DeDocumentos \/ DeRetencao \/ DeListagem

Spec == Init /\ [][Next]_vars

-----------------------------------------------------------------------------
\* References, telephones and the clean-up's record are what they should be; a file
\* is organised for a row of its own.
TypeOK ==
    /\ CatalogoTypeOK /\ RetencaoTypeOK
    /\ \A s \in Tarefa : tarefa[s].fase \in {"livre", "mover", "persistir", "formulario"}
    /\ \A s, r \in Tarefa : {tarefa[s].fase, tarefa[r].fase} \subseteq {"mover", "persistir"}
                               /\ tarefa[s].dono = tarefa[r].dono => s = r
=============================================================================
