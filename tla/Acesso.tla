-------------------------------- MODULE Acesso --------------------------------
(***************************************************************************)
(* The accounts of the administrators (internal/admin, internal/auth,      *)
(* cmd/admin): requests of login and of change of password, which pass the *)
(* rate limit first, beside the commands that operators run on the same    *)
(* table (seed, create, passwd, delete), each of which reads, waits for    *)
(* somebody at the terminal, and writes.                                   *)
(*                                                                         *)
(* A password is the number of the choice it comes from: new ones are new. *)
(* The bcrypt hash is its password, slow to compare: a step of its own.    *)
(***************************************************************************)
EXTENDS LimiteLogin, FiniteSets, Sequences

CONSTANTS
    Endereco,           \* addresses requests come from
    Email,
    Pedido,             \* requests that may be under way at the same time
    Operador,           \* terminals with a command under way
    Anteriores,         \* e-mails of the accounts the table may start with, by id
    MaxContas,          \* bound: accounts ever created
    MaxEventos          \* bound: requests and commands in all

Id == 1..MaxContas
Login(e)      == <<"admin", e>>         \* hashedIdentityKey of a login
TrocaSenha(i) == <<"admin-senha", i>>   \* and of a change of password

ASSUME AcessoAssumption ==
    /\ MaxEventos \in Nat /\ MaxContas \in Nat
    /\ Endereco # {} /\ Email # {}
    /\ Anteriores \in Seq(Email) /\ Len(Anteriores) <= MaxContas
    /\ \A i, j \in DOMAIN Anteriores : Anteriores[i] = Anteriores[j] => i = j
    /\ Endereco \cup {Login(e) : e \in Email} \cup {TrocaSenha(i) : i \in Id} \subseteq Chave

VARIABLES
    contas,     \* administrador: e-mail and senha of each id
    criadas,    \* sequence of the ids
    senhas,     \* passwords chosen so far
    sessoes,    \* ids a token was issued for; one that expires is not used any more
    pedido,     \* requests under way
    comando,    \* commands under way
    trocas,     \* history: <<id, senha conferred, senha set>> of the changes by the API
    eventos     \* requests and commands so far

contasVars == <<contas, criadas, senhas, sessoes, trocas>>
vars == <<agora, limite, contasVars, pedido, comando, eventos>>

SemPedido  == [fase |-> "livre", tipo |-> "login", ip |-> CHOOSE a \in Endereco : TRUE,
               email |-> CHOOSE e \in Email : TRUE, id |-> 0, senha |-> 0, lida |-> 0,
               carimbo |-> Nunca]
SemComando == [fase |-> "livre", email |-> CHOOSE e \in Email : TRUE, id |-> 0, vistas |-> 0]

Init ==
    /\ LimiteInit
    /\ criadas \in {0, Len(Anteriores)} /\ senhas = criadas
    /\ contas = [i \in 1..criadas |-> [email |-> Anteriores[i], senha |-> i]]
    /\ sessoes = DOMAIN contas /\ trocas = {}
    /\ pedido = [p \in Pedido |-> SemPedido]
    /\ comando = [o \in Operador |-> SemComando]
    /\ eventos = 0

DoEmail(e) == {i \in DOMAIN contas : contas[i].email = e}
Removidas  == criadas - Cardinality(DOMAIN contas)

-----------------------------------------------------------------------------
(* Requests *)

\* What may be typed as the password of account i: the present one, or another.
Tentativas(I) == {0} \cup {contas[i].senha : i \in I}

\* A request comes to the limiter by address, which reads the clock.
Chegar(p, r) ==
    /\ pedido[p].fase = "livre" /\ eventos < MaxEventos
    /\ pedido' = [pedido EXCEPT ![p] = [r EXCEPT !.fase = "ip", !.carimbo = agora]]
    /\ eventos' = eventos + 1
    /\ UNCHANGED <<agora, limite, contasVars, comando>>

\* POST /admin/login
PedirLogin(p) ==
    \E a \in Endereco, e \in Email : \E s \in Tentativas(DoEmail(e)) :
        Chegar(p, [SemPedido EXCEPT !.ip = a, !.email = e, !.senha = s])

\* resolveIdentity: the public id of a token leads to an account while it exists.
Identificados == sessoes \cap DOMAIN contas

\* PUT /admin/senha, behind AuthenticateWithCookie.
PedirTroca(p) ==
    \E a \in Endereco, i \in Identificados : \E s \in Tentativas({i}) :
        Chegar(p, [SemPedido EXCEPT !.tipo = "troca", !.ip = a, !.id = i, !.senha = s])

\* The limiter by identity reads the clock for itself.
LerRelogio(p) ==
    /\ pedido[p].fase = "identidade" /\ pedido[p].carimbo = Nunca
    /\ pedido' = [pedido EXCEPT ![p].carimbo = agora]
    /\ UNCHANGED <<agora, limite, contasVars, comando, eventos>>

\* allow of limiter l has the mutex; the request goes on to phase or is refused.
Passar(p, l, k, fase) ==
    /\ pedido[p].carimbo # Nunca
    /\ Consultar(l, k, pedido[p].carimbo)
    /\ pedido' = [pedido EXCEPT ![p] = IF Permite(l, k, @.carimbo)
                                       THEN [@ EXCEPT !.fase = fase, !.carimbo = Nunca]
                                       ELSE SemPedido]
    /\ UNCHANGED <<contasVars, comando, eventos>>

PassarIP(p) ==
    /\ pedido[p].fase = "ip"
    /\ Passar(p, "ip", pedido[p].ip, "identidade")

\* readLoginIdentity: the identity of a login is what its body says.
PassarLogin(p) ==
    /\ pedido[p].fase = "identidade" /\ pedido[p].tipo = "login"
    /\ Passar(p, "identidade", Login(pedido[p].email), "ler")

\* authenticatedMiddleware: that of a change is the account of the token.
PassarTroca(p) ==
    /\ pedido[p].fase = "identidade" /\ pedido[p].tipo = "troca"
    /\ Passar(p, "identidade", TrocaSenha(pedido[p].id), "travar")

\* adminService.Login: GetByEmail.
LerConta(p) ==
    /\ pedido[p].fase = "ler"
    /\ \/ /\ DoEmail(pedido[p].email) = {}
          /\ pedido' = [pedido EXCEPT ![p] = SemPedido]
       \/ \E i \in DoEmail(pedido[p].email) :
             pedido' = [pedido EXCEPT ![p].fase = "comparar", ![p].id = i,
                                      ![p].lida = contas[i].senha]
    /\ UNCHANGED <<agora, limite, contasVars, comando, eventos>>

\* CheckPassword of what was read, GenerateToken.
Entrar(p) ==
    /\ pedido[p].fase = "comparar"
    /\ sessoes' = IF pedido[p].senha = pedido[p].lida THEN sessoes \cup {pedido[p].id} ELSE sessoes
    /\ pedido' = [pedido EXCEPT ![p] = SemPedido]
    /\ UNCHANGED <<agora, limite, contas, criadas, senhas, trocas, comando, eventos>>

-----------------------------------------------------------------------------
(* The row of an account, under SELECT ... FOR UPDATE *)

\* Mutation: the row is read without FOR UPDATE.
SemTrava(i) == TRUE

\* No transaction holds the row.
Livre(i) == /\ \A p \in Pedido : ~(pedido[p].fase = "gravar" /\ pedido[p].id = i)
            /\ \A o \in Operador : ~(comando[o].fase = "gravar" /\ comando[o].id = i)

\* ChangePassword: Update locks the row and reads it, or finds that it is gone.
TravarTroca(p) ==
    /\ pedido[p].fase = "travar"
    /\ \/ /\ pedido[p].id \notin DOMAIN contas
          /\ pedido' = [pedido EXCEPT ![p] = SemPedido]
       \/ /\ pedido[p].id \in DOMAIN contas /\ Livre(pedido[p].id)
          /\ pedido' = [pedido EXCEPT ![p].fase = "gravar", ![p].lida = contas[pedido[p].id].senha]
    /\ UNCHANGED <<agora, limite, contasVars, comando, eventos>>

\* Inside the transaction: the password given is compared with the one read, the
\* new one is written, a new token is issued.
GravarTroca(p) ==
    LET r == pedido[p] IN
    /\ r.fase = "gravar"
    /\ pedido' = [pedido EXCEPT ![p] = SemPedido]
    /\ \/ r.senha # r.lida /\ UNCHANGED contasVars
       \/ /\ r.senha = r.lida
          /\ contas' = [contas EXCEPT ![r.id].senha = senhas + 1]
          /\ senhas' = senhas + 1
          /\ trocas' = trocas \cup {<<r.id, r.senha, senhas + 1>>}
          /\ sessoes' = sessoes \cup {r.id}
          /\ UNCHANGED criadas
    /\ UNCHANGED <<agora, limite, comando, eventos>>

-----------------------------------------------------------------------------
(* Commands *)

Iniciar(o, c) ==
    /\ comando[o].fase = "livre" /\ eventos < MaxEventos
    /\ eventos' = eventos + 1
    /\ comando' = [comando EXCEPT ![o] = c]
    /\ UNCHANGED <<agora, limite, contasVars, pedido>>

Terminar(o) == comando' = [comando EXCEPT ![o] = SemComando]

\* create and seed: findByEmail finds nobody; create then asks for a password.
ProcurarParaCriar(o) ==
    \E e \in Email :
        /\ DoEmail(e) = {}
        /\ Iniciar(o, [SemComando EXCEPT !.fase = "criar", !.email = e])

\* Mutation: the e-mails of the table are not UNIQUE.
SemUnicidade(e) == TRUE

\* administrador.email is UNIQUE.
EmailLivre(e) == DoEmail(e) = {}

\* createAdmin: the INSERT, refused when the e-mail was taken in the meantime.
Criar(o) ==
    /\ comando[o].fase = "criar"
    /\ Terminar(o)
    /\ \/ ~EmailLivre(comando[o].email) /\ UNCHANGED <<contas, criadas, senhas>>
       \/ /\ EmailLivre(comando[o].email) /\ criadas < MaxContas
          /\ criadas' = criadas + 1 /\ senhas' = senhas + 1
          /\ contas' = [i \in DOMAIN contas \cup {criadas + 1} |->
                           IF i = criadas + 1
                           THEN [email |-> comando[o].email, senha |-> senhas + 1]
                           ELSE contas[i]]
    /\ UNCHANGED <<agora, limite, sessoes, trocas, pedido, eventos>>

\* passwd: the account is found, a new password is asked for.
ProcurarParaTrocar(o) ==
    \E i \in DOMAIN contas : Iniciar(o, [SemComando EXCEPT !.fase = "travar", !.id = i])

\* store.Update of passwd: the row is locked, or gone.
TravarSenha(o) ==
    /\ comando[o].fase = "travar"
    /\ \/ comando[o].id \notin DOMAIN contas /\ Terminar(o)
       \/ /\ comando[o].id \in DOMAIN contas /\ Livre(comando[o].id)
          /\ comando' = [comando EXCEPT ![o].fase = "gravar"]
    /\ UNCHANGED <<agora, limite, contasVars, pedido, eventos>>

\* passwd asks for no current password: it writes the new one.
GravarSenha(o) ==
    /\ comando[o].fase = "gravar"
    /\ contas' = [contas EXCEPT ![comando[o].id].senha = senhas + 1]
    /\ senhas' = senhas + 1
    /\ Terminar(o)
    /\ UNCHANGED <<agora, limite, criadas, sessoes, trocas, pedido, eventos>>

\* Mutation: any account may be removed.
SempreRemovivel == TRUE

\* runDelete: not the only administrator.
HaOutro == Cardinality(DOMAIN contas) > 1

\* delete: the accounts are listed, one is chosen, and its e-mail has to be typed.
ProcurarParaRemover(o) ==
    /\ HaOutro
    /\ \E i \in DOMAIN contas :
          Iniciar(o, [SemComando EXCEPT !.fase = "confirmar", !.id = i, !.vistas = Removidas])

\* The e-mail was typed: DELETE by id, which waits for who holds the row.
Remover(o) ==
    LET i == comando[o].id IN
    /\ comando[o].fase = "confirmar"
    /\ i \in DOMAIN contas => Livre(i)
    /\ contas' = [j \in DOMAIN contas \ {i} |-> contas[j]]
    /\ Terminar(o)
    /\ UNCHANGED <<agora, limite, criadas, senhas, sessoes, trocas, pedido, eventos>>

\* Nothing, or something else, is typed.
Desistir(o) ==
    /\ comando[o].fase \in {"criar", "travar", "confirmar"}
    /\ Terminar(o)
    /\ UNCHANGED <<agora, limite, contasVars, pedido, eventos>>

-----------------------------------------------------------------------------
\* An instant that was read is used less than Atraso later.
Passa ==
    /\ agora < MaxAgora
    /\ \A p \in Pedido : pedido[p].carimbo # Nunca => agora + 1 - pedido[p].carimbo <= Atraso
    /\ agora' = agora + 1
    /\ UNCHANGED <<limite, contasVars, pedido, comando, eventos>>

PassoPedido(p) ==
    \/ PedirLogin(p) \/ PedirTroca(p) \/ LerRelogio(p)
    \/ PassarIP(p) \/ PassarLogin(p) \/ PassarTroca(p)
    \/ LerConta(p) \/ Entrar(p) \/ TravarTroca(p) \/ GravarTroca(p)

PassoComando(o) ==
    \/ ProcurarParaCriar(o) \/ Criar(o)
    \/ ProcurarParaTrocar(o) \/ TravarSenha(o) \/ GravarSenha(o)
    \/ ProcurarParaRemover(o) \/ Remover(o) \/ Desistir(o)

Next ==
    \/ \E p \in Pedido : PassoPedido(p)
    \/ \E o \in Operador : PassoComando(o)
    \/ Passa

Spec == Init /\ [][Next]_vars

-----------------------------------------------------------------------------
Conta == [email : Email, senha : Nat]

\* Types; the e-mail of an account is its own; a row is locked by at most one
\* transaction and exists while it is.
TypeOK ==
    /\ LimiteTypeOK
    /\ DOMAIN contas \subseteq 1..criadas /\ criadas \in 0..MaxContas /\ senhas \in Nat
    /\ \A i \in DOMAIN contas : contas[i] \in Conta
    /\ \A i, j \in DOMAIN contas : contas[i].email = contas[j].email => i = j
    /\ sessoes \subseteq 1..criadas
    /\ \A p \in Pedido : pedido[p].carimbo \in {Nunca} \cup 0..agora
    /\ \A p \in Pedido : pedido[p].fase = "gravar" => pedido[p].id \in DOMAIN contas
    /\ \A p, q \in {r \in Pedido : pedido[r].fase = "gravar"} :
          pedido[p].id = pedido[q].id => p = q

\* The limit as the requests meet it, whatever the order in which the instants
\* they read come to the limiter.
LimitePorJanela == [][JanelasEspacadas]_vars

\* admin_service.go:50-52: two simultaneous changes are not lost.  Two changes by
\* the API never both start from the same password of an account.
TrocasEncadeadas ==
    \A a, b \in trocas : a[1] = b[1] /\ a[2] = b[2] => a = b

\* cmd/admin/main.go:313-317: the last access to the panel is not removed, unless
\* another removal was committed between the list and the confirmation.
UltimoAdminFica ==
    [][DOMAIN contas # {} /\ DOMAIN contas' = {}
         => \E o \in Operador : /\ comando[o].fase = "confirmar" /\ comando'[o].fase = "livre"
                                /\ Removidas # comando[o].vistas]_vars
=============================================================================
