-------------------------- MODULE RegistroExecucao --------------------------
(***************************************************************************)
(* What the ledger of planning executions promises, without clock, leases, *)
(* retries or databases: every key has a state and at most one owner; only *)
(* an owner ends an execution; an execution that ended well is final; an   *)
(* execution without an owner can be taken up again.                       *)
(***************************************************************************)
CONSTANTS Chave, Chamada, Ninguem

VARIABLES estado, dono

varsRegistro == <<estado, dono>>

Final == {"concluido", "sem_demanda"}

InitRegistro ==
    /\ estado = [k \in Chave |-> "ausente"]
    /\ dono = [k \in Chave |-> Ninguem]

\* A call becomes the owner of a key nobody owns.
Tomar(k, c) ==
    /\ dono[k] = Ninguem
    /\ estado[k] \in {"ausente", "falhou", "processando"}
    /\ estado' = [estado EXCEPT ![k] = "processando"]
    /\ dono' = [dono EXCEPT ![k] = c]

\* The owner ends its execution.
Encerrar(k, r) ==
    /\ dono[k] # Ninguem
    /\ estado[k] = "processando"
    /\ estado' = [estado EXCEPT ![k] = r]
    /\ dono' = [dono EXCEPT ![k] = Ninguem]

\* Owners die or run out of time; their executions stay open.
Soltar(S) ==
    /\ S # {} /\ \A k \in S : dono[k] # Ninguem
    /\ dono' = [k \in Chave |-> IF k \in S THEN Ninguem ELSE dono[k]]
    /\ UNCHANGED estado

NextRegistro ==
    \/ \E k \in Chave, c \in Chamada : Tomar(k, c)
    \/ \E k \in Chave, r \in Final \cup {"falhou"} : Encerrar(k, r)
    \/ \E S \in SUBSET Chave : Soltar(S)

SpecRegistro == InitRegistro /\ [][NextRegistro]_varsRegistro
=============================================================================
