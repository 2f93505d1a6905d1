----------------------------- MODULE Inscricao -----------------------------
(***************************************************************************)
(* What booking promises to those who book, without locks, transactions,   *)
(* connections or retries: a key takes bookings until it closes; closing   *)
(* it calls the roll; its trips are made once, with everybody who is still *)
(* booked and with nobody who was not on the roll; it ends when they are   *)
(* made, or when nobody is left.                                           *)
(***************************************************************************)
CONSTANTS Chave, Reserva

VARIABLES
    inscritos,     \* who is booked, by key
    situacao,
    chamada,       \* who was booked when the key closed
    embarcados     \* who is in the trips of the key

varsInscricao == <<inscritos, situacao, chamada, embarcados>>

InitInscricao ==
    /\ inscritos = [k \in Chave |-> {}]
    /\ situacao = [k \in Chave |-> "aberta"]
    /\ chamada = [k \in Chave |-> {}]
    /\ embarcados = [k \in Chave |-> {}]

Inscrever(k, r) ==
    /\ situacao[k] = "aberta"
    /\ \A j \in Chave : r \notin inscritos[j]
    /\ inscritos' = [inscritos EXCEPT ![k] = @ \cup {r}]
    /\ UNCHANGED <<situacao, chamada, embarcados>>

Sair(k, r) ==
    /\ r \in inscritos[k]
    /\ inscritos' = [inscritos EXCEPT ![k] = @ \ {r}]
    /\ UNCHANGED <<situacao, chamada, embarcados>>

Fechar(k) ==
    /\ situacao[k] = "aberta"
    /\ situacao' = [situacao EXCEPT ![k] = "fechada"]
    /\ chamada' = [chamada EXCEPT ![k] = inscritos[k]]
    /\ UNCHANGED <<inscritos, embarcados>>

\* The trips of a key, all at once and only once.
Embarcar(k, S) ==
    /\ situacao[k] = "fechada"
    /\ embarcados[k] = {} /\ S # {}
    /\ inscritos[k] \subseteq S /\ S \subseteq chamada[k]
    /\ embarcados' = [embarcados EXCEPT ![k] = S]
    /\ UNCHANGED <<inscritos, situacao, chamada>>

Encerrar(k, s) ==
    /\ situacao[k] = "fechada"
    /\ \/ s = "planejada" /\ embarcados[k] # {} /\ inscritos[k] \subseteq embarcados[k]
       \/ s = "vazia" /\ inscritos[k] = {}
    /\ situacao' = [situacao EXCEPT ![k] = s]
    /\ UNCHANGED <<inscritos, chamada, embarcados>>

NextInscricao ==
    \E k \in Chave :
        \/ \E r \in Reserva : Inscrever(k, r) \/ Sair(k, r)
        \/ Fechar(k)
        \/ \E S \in SUBSET Reserva : Embarcar(k, S)
        \/ \E s \in {"planejada", "vazia"} : Encerrar(k, s)

SpecInscricao == InitInscricao /\ [][NextInscricao]_varsInscricao
=============================================================================
