------------------------ MODULE ProcessadorRegistro ------------------------
(***************************************************************************)
(* The calls of Processar implement RegistroExecucao: the owner of a key   *)
(* is the call that is planning it and whose context is still alive.       *)
(***************************************************************************)
EXTENDS ProcessadorPlanejamento

Ninguem == "ninguem"

\* No call has the name of the absent owner.
ASSUME NinguemAssumption == Ninguem \notin Chamada

Donos(k) == {c \in Chamada : Planejando(c) /\ alvo[c] = k}

estadoRegistro == [k \in Chave |-> execucao[k].status]

donoRegistro ==
    [k \in Chave |-> IF Donos(k) = {} THEN Ninguem ELSE CHOOSE c \in Donos(k) : TRUE]

Registro == INSTANCE RegistroExecucao
                WITH estado <- estadoRegistro, dono <- donoRegistro

\* Every behaviour of the processor is one of the ledger: at most one owner
\* per key, ends only by the owner, final results final.
ImplementaRegistro == Registro!SpecRegistro
=============================================================================
