----------------------------- MODULE LimiteLogin -----------------------------
(***************************************************************************)
(* The rate limit in front of the logins and of the change of password     *)
(* (internal/server/login_rate_limit.go): two fixedWindowLimiter of one    *)
(* process, byIP and byIdentity.                                           *)
(*                                                                         *)
(* allow reads the clock BEFORE it takes the mutex, so the instants come   *)
(* to the map out of order: another request may count, open or clean up    *)
(* with a later instant in between.  The limiter's operations are given    *)
(* the instant that was read; Acesso composes them with the requests.      *)
(***************************************************************************)
EXTENDS Integers

CONSTANTS
    Chave,      \* keys of the maps: addresses, hashed identities
    Limite,     \* requests per window of each limiter
    Janela,     \* length of a window
    Atraso,     \* assumption: a request waits less than this for the mutex
    MaxAgora    \* bound: instants of the clock

Limitador == {"ip", "identidade"}

ASSUME LimiteAssumption ==
    /\ Limite \in [Limitador -> Nat \ {0}]
    /\ Janela \in Nat \ {0} /\ Atraso \in Nat /\ MaxAgora \in Nat

VARIABLES
    agora,      \* the clock
    entradas,   \* entries: rateLimitEntry of each key, by limiter
    limpeza,    \* lastCleanup
    aberta,     \* history: instant the last window of a key was opened with
    admitidos   \* history: requests admitted since then

limite == <<entradas, limpeza, aberta, admitidos>>

Nunca      == -1                          \* the zero time.Time
SemEntrada == [conta |-> 0, fim |-> 0]    \* key not in the map
Entrada    == [conta : Nat, fim : Nat]

LimiteInit ==
    /\ agora = 0
    /\ entradas = [l \in Limitador |-> [k \in Chave |-> SemEntrada]]
    /\ limpeza = [l \in Limitador |-> Nunca]
    /\ aberta = [l \in Limitador |-> [k \in Chave |-> Nunca]]
    /\ admitidos = [l \in Limitador |-> [k \in Chave |-> 0]]

Limpa(l, t) == limpeza[l] = Nunca \/ t - limpeza[l] >= Janela

\* Mutation: the cleanup empties the map.
RestaNada(l, t) == IF Limpa(l, t) THEN [k \in Chave |-> SemEntrada] ELSE entradas[l]

\* Entries left by the cleanup of a call made with instant t, when it is due.
Resta(l, t) ==
    [k \in Chave |-> IF Limpa(l, t) /\ t >= entradas[l][k].fim THEN SemEntrada
                                                                ELSE entradas[l][k]]

\* No entry, or one whose window is over.
Abre(l, k, t)    == Resta(l, t)[k].conta = 0 \/ t >= Resta(l, t)[k].fim
Permite(l, k, t) == Abre(l, k, t) \/ Resta(l, t)[k].conta < Limite[l]

\* The locked part of allow, for a key k and the instant t read before.
Consultar(l, k, t) ==
    LET E == Resta(l, t)
        e == IF Abre(l, k, t) THEN [conta |-> 1, fim |-> t + Janela]
             ELSE [E[k] EXCEPT !.conta = IF Permite(l, k, t) THEN @ + 1 ELSE @]
    IN
    /\ entradas' = [entradas EXCEPT ![l] = [E EXCEPT ![k] = e]]
    /\ limpeza' = IF Limpa(l, t) THEN [limpeza EXCEPT ![l] = t] ELSE limpeza
    /\ aberta' = IF Abre(l, k, t) THEN [aberta EXCEPT ![l][k] = t] ELSE aberta
    /\ admitidos' = [admitidos EXCEPT ![l][k] =
                        IF Abre(l, k, t) THEN 1 ELSE IF Permite(l, k, t) THEN @ + 1 ELSE @]
    /\ UNCHANGED agora

LimiteTypeOK ==
    /\ agora \in 0..MaxAgora
    /\ entradas \in [Limitador -> [Chave -> Entrada]]
    /\ limpeza \in [Limitador -> Int]
    /\ aberta \in [Limitador -> [Chave -> Int]]
    /\ admitidos \in [Limitador -> [Chave -> Nat]]

\* What the map says of the history: an entry is the last window that was
\* opened, with the requests admitted in it; a key without one either never had
\* one or lost it to a cleanup after its end.
EntradaFiel ==
    \A l \in Limitador, k \in Chave :
        /\ admitidos[l][k] <= Limite[l]
        /\ entradas[l][k].conta > 0 => /\ entradas[l][k].conta = admitidos[l][k]
                                       /\ entradas[l][k].fim = aberta[l][k] + Janela
        /\ entradas[l][k].conta = 0 => \/ aberta[l][k] = Nunca
                                       \/ agora >= aberta[l][k] + Janela

\* README.md:216-219 promises so many attempts a minute.  What the code gives:
\* no window admits more than the limit, and two windows of a key are at least
\* a window apart, less what an instant may be late (so an interval as long as a
\* window may see two windows, and twice the limit).
JanelasEspacadas ==
    \A l \in Limitador, k \in Chave :
        /\ admitidos'[l][k] <= Limite[l]
        /\ aberta'[l][k] # aberta[l][k] /\ aberta[l][k] # Nunca
              => aberta'[l][k] >= aberta[l][k] + Janela - Atraso
=============================================================================
