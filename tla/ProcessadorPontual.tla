------------------------- MODULE ProcessadorPontual -------------------------
(***************************************************************************)
(* The processor under its production schedule                             *)
(* (deploy/supabase/planning_cron.sql): the cron calls it once in every    *)
(* minute, the call is over before the next one, and at most MaxFalhas     *)
(* steps fail.  The question is whether the leases and the backoff leave   *)
(* enough attempts between closing and departure.                          *)
(***************************************************************************)
EXTENDS ProcessadorPlanejamento

CONSTANT MaxFalhas      \* bound on the failing steps

ASSUME PontualAssumption == MaxFalhas \in Nat

VARIABLES
    disparado,          \* instant the cron last called, Nulo before
    falhas              \* failing steps so far

varsPontual == <<vars, disparado, falhas>>

InitPontual == Init /\ disparado = Nulo /\ falhas = 0

\* The minute ends after the call made in it.
TickPontual ==
    /\ disparado = relogio
    /\ \A c \in Chamada : pc[c] = "ocioso"
    /\ Tick
    /\ UNCHANGED <<disparado, falhas>>

\* cron.schedule('* * * * *'): net.http_post to the processor.
Disparar(c) ==
    /\ disparado < relogio
    /\ Chamar(c)
    /\ disparado' = relogio
    /\ UNCHANGED falhas

Prosseguir(c) ==
    /\ pc[c] # "ocioso"
    /\ Passo(c)
    /\ UNCHANGED <<disparado, falhas>>

FalharPasso(c) ==
    /\ falhas < MaxFalhas
    /\ Falha(c)
    /\ falhas' = falhas + 1
    /\ UNCHANGED disparado

NextPontual ==
    \/ TickPontual
    \/ Passageiros /\ UNCHANGED <<disparado, falhas>>
    \/ \E c \in Chamada : Disparar(c) \/ Prosseguir(c) \/ FalharPasso(c)

SpecPontual == InitPontual /\ [][NextPontual]_varsPontual

\* At departure every key that still has a confirmed reserva has its trips, and
\* its execution says so, in spite of up to MaxFalhas crashes and errors. A
\* shortage of vehicles or drivers is one of these errors: the property is about
\* keys for which the fleet suffices in all but those attempts, the attempt
\* after a committed plan whose answer was lost included.
PlanejadaAtePartida ==
    \A k \in Chave : relogio >= Partida[k] /\ reservada[k] =>
        plano[k] /\ execucao[k].status = "concluido"
=============================================================================
