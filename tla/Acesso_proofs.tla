---------------------------- MODULE Acesso_proofs ----------------------------
(* Theorems about Acesso, for every value of its constants. *)
EXTENDS Acesso, FiniteSetTheorems, TLAPS

-----------------------------------------------------------------------------
(* Types of the requests, the commands and the accounts *)

PedidoTipo == [fase : {"livre", "ip", "identidade", "ler", "comparar", "travar", "gravar"},
               tipo : {"login", "troca"}, ip : Endereco, email : Email, id : Nat,
               senha : Nat, lida : Nat, carimbo : Int]
ComandoTipo == [fase : {"livre", "criar", "travar", "gravar", "confirmar"}, email : Email,
                id : Nat, vistas : Int]

ContasTipo ==
    /\ criadas \in 0..MaxContas /\ senhas \in Nat
    /\ contas \in [DOMAIN contas -> Conta]
    /\ DOMAIN contas \subseteq 1..criadas
    /\ sessoes \subseteq 1..criadas

\* Requests whose account is known.
ComConta(r) == r.tipo = "troca" \/ r.fase \in {"comparar", "gravar"}

PedidosTipo ==
    /\ pedido \in [Pedido -> PedidoTipo]
    /\ \A p \in Pedido : ComConta(pedido[p]) => pedido[p].id \in 1..criadas

ComandosTipo == comando \in [Operador -> ComandoTipo]

Tipos == ContasTipo /\ PedidosTipo /\ ComandosTipo

LEMMA SemPedidoTipo == SemPedido \in PedidoTipo /\ SemPedido.tipo = "login"
                       /\ SemPedido.fase = "livre" /\ SemPedido.carimbo = Nunca
  <1>1. (CHOOSE a \in Endereco : TRUE) \in Endereco
    BY AcessoAssumption
  <1>2. (CHOOSE e \in Email : TRUE) \in Email
    BY AcessoAssumption
  <1> QED
    BY <1>1, <1>2 DEF SemPedido, PedidoTipo, Nunca

LEMMA SemComandoTipo == SemComando \in ComandoTipo /\ SemComando.fase = "livre"
  <1>1. (CHOOSE e \in Email : TRUE) \in Email
    BY AcessoAssumption
  <1> QED
    BY <1>1 DEF SemComando, ComandoTipo

LEMMA TiposInit == Init => Tipos
  <1> SUFFICES ASSUME Init PROVE Tipos
    OBVIOUS
  <1>1. Len(Anteriores) \in Nat /\ \A i \in 1..Len(Anteriores) : Anteriores[i] \in Email
    BY AcessoAssumption
  <1>2. criadas \in 0..MaxContas /\ criadas <= Len(Anteriores)
    BY <1>1, AcessoAssumption DEF Init
  <1>3. ContasTipo
    BY <1>1, <1>2 DEF Init, ContasTipo, Conta
  <1>4. PedidosTipo /\ ComandosTipo
    BY SemPedidoTipo, SemComandoTipo DEF Init, PedidosTipo, ComandosTipo, ComConta
  <1> QED
    BY <1>3, <1>4 DEF Tipos

\* A step that gives one request another record of the right type.
LEMMA PedidoTrocado ==
    ASSUME PedidosTipo, NEW p \in Pedido, NEW r \in PedidoTipo, criadas' = criadas,
           ComConta(r) => r.id \in 1..criadas, pedido' = [pedido EXCEPT ![p] = r]
    PROVE  PedidosTipo'
  BY DEF PedidosTipo

LEMMA TentativasTipo ==
    ASSUME ContasTipo, NEW I \in SUBSET DOMAIN contas, NEW s \in Tentativas(I)
    PROVE  s \in Nat
  BY DEF ContasTipo, Tentativas, Conta

LEMMA TiposPedido ==
    ASSUME Tipos, LimiteTypeOK, NEW p \in Pedido, PassoPedido(p)
    PROVE  Tipos'
  <1> USE DEF Tipos
  <1>0. pedido[p] \in PedidoTipo /\ (ComConta(pedido[p]) => pedido[p].id \in 1..criadas)
    BY DEF PedidosTipo
  <1>a. ASSUME UNCHANGED contasVars PROVE ContasTipo'
    BY <1>a DEF contasVars, ContasTipo
  <1>b. ASSUME UNCHANGED comando PROVE ComandosTipo'
    BY <1>b DEF ComandosTipo
  <1>c. ASSUME NEW r \in PedidoTipo, ComConta(r) => r.id \in 1..criadas, criadas' = criadas,
               pedido' = [pedido EXCEPT ![p] = r]
        PROVE  PedidosTipo'
    BY <1>c, PedidoTrocado
  <1>d. ASSUME NEW r \in PedidoTipo, r.tipo = "troca" => r.id \in 1..criadas, Chegar(p, r)
        PROVE  Tipos'
    <2> DEFINE n == [r EXCEPT !.fase = "ip", !.carimbo = agora]
    <2>0. agora \in Int
      BY LimiteAssumption DEF LimiteTypeOK
    <2>1. n \in PedidoTipo /\ n.tipo = r.tipo /\ n.id = r.id /\ n.fase = "ip"
      BY <1>d, <2>0 DEF PedidoTipo
    <2>2. UNCHANGED contasVars /\ UNCHANGED comando /\ pedido' = [pedido EXCEPT ![p] = n]
      BY <1>d DEF Chegar
    <2> QED
      BY <1>d, <2>1, <2>2, <1>a, <1>b, <1>c DEF ComConta, contasVars
  <1>1. CASE PedirLogin(p)
    <2>1. PICK a \in Endereco, e \in Email : \E s \in Tentativas(DoEmail(e)) :
             Chegar(p, [SemPedido EXCEPT !.ip = a, !.email = e, !.senha = s])
      BY <1>1 DEF PedirLogin
    <2>2. PICK s \in Tentativas(DoEmail(e)) :
             Chegar(p, [SemPedido EXCEPT !.ip = a, !.email = e, !.senha = s])
      BY <2>1
    <2>3. s \in Nat
      BY TentativasTipo DEF DoEmail
    <2> DEFINE r == [SemPedido EXCEPT !.ip = a, !.email = e, !.senha = s]
    <2>4. r \in PedidoTipo /\ r.tipo = "login"
      BY <2>3, SemPedidoTipo DEF PedidoTipo
    <2> QED
      BY <2>2, <2>4, <1>d
  <1>2. CASE PedirTroca(p)
    <2>1. PICK a \in Endereco, i \in Identificados : \E s \in Tentativas({i}) :
             Chegar(p, [SemPedido EXCEPT !.tipo = "troca", !.ip = a, !.id = i, !.senha = s])
      BY <1>2 DEF PedirTroca
    <2>2. PICK s \in Tentativas({i}) :
             Chegar(p, [SemPedido EXCEPT !.tipo = "troca", !.ip = a, !.id = i, !.senha = s])
      BY <2>1
    <2>3. s \in Nat
      BY TentativasTipo DEF Identificados
    <2>4. i \in 1..criadas /\ i \in Nat
      BY AcessoAssumption DEF Identificados, ContasTipo
    <2> DEFINE r == [SemPedido EXCEPT !.tipo = "troca", !.ip = a, !.id = i, !.senha = s]
    <2>5. r \in PedidoTipo /\ r.id = i
      BY <2>3, <2>4, SemPedidoTipo DEF PedidoTipo
    <2> QED
      BY <2>2, <2>4, <2>5, <1>d
  <1>3. CASE LerRelogio(p)
    <2> DEFINE r == [pedido[p] EXCEPT !.carimbo = agora]
    <2>0. agora \in Int
      BY LimiteAssumption DEF LimiteTypeOK
    <2>1. r \in PedidoTipo /\ (ComConta(r) => ComConta(pedido[p])) /\ r.id = pedido[p].id
      BY <1>0, <2>0 DEF PedidoTipo, ComConta
    <2>2. UNCHANGED contasVars /\ UNCHANGED comando /\ pedido' = [pedido EXCEPT ![p] = r]
      BY <1>3, <1>0 DEF LerRelogio, PedidosTipo, PedidoTipo
    <2> QED
      BY <2>1, <2>2, <1>0, <1>a, <1>b, <1>c DEF contasVars
  <1>4. ASSUME NEW l, NEW k, NEW f \in {"identidade", "ler", "travar"}, Passar(p, l, k, f)
        PROVE  Tipos'
    <2> DEFINE r == [pedido[p] EXCEPT !.fase = f, !.carimbo = Nunca]
    <2>0. f \in {"identidade", "ler", "travar"} /\ Nunca \in Int
      BY <1>4 DEF Nunca
    <2>1. r \in PedidoTipo /\ r.fase = f /\ r.tipo = pedido[p].tipo /\ r.id = pedido[p].id
      BY <1>0, <2>0 DEF PedidoTipo
    <2>2. \/ pedido' = [pedido EXCEPT ![p] = r]
          \/ pedido' = [pedido EXCEPT ![p] = SemPedido]
      BY <1>4 DEF Passar, PedidosTipo
    <2>3. UNCHANGED contasVars /\ UNCHANGED comando
      BY <1>4 DEF Passar
    <2> QED
      BY <2>0, <2>1, <2>2, <2>3, <1>0, <1>a, <1>b, <1>c, SemPedidoTipo DEF ComConta, contasVars
  <1>5. CASE PassarIP(p)
    BY <1>5, <1>4 DEF PassarIP
  <1>6. CASE PassarLogin(p)
    BY <1>6, <1>4 DEF PassarLogin
  <1>7. CASE PassarTroca(p)
    BY <1>7, <1>4 DEF PassarTroca
  <1>8. CASE LerConta(p)
    <2>1. UNCHANGED contasVars /\ UNCHANGED comando
      BY <1>8 DEF LerConta
    <2>2. CASE pedido' = [pedido EXCEPT ![p] = SemPedido]
      BY <2>1, <2>2, <1>a, <1>b, <1>c, SemPedidoTipo DEF ComConta, contasVars
    <2>3. ASSUME NEW i \in DoEmail(pedido[p].email),
                 pedido' = [pedido EXCEPT ![p].fase = "comparar", ![p].id = i,
                                          ![p].lida = contas[i].senha]
          PROVE  Tipos'
      <3> DEFINE r == [pedido[p] EXCEPT !.fase = "comparar", !.id = i, !.lida = contas[i].senha]
      <3>1. i \in Nat /\ i \in 1..criadas /\ contas[i].senha \in Nat
        BY DEF DoEmail, ContasTipo, Conta
      <3>2. r \in PedidoTipo /\ r.id = i
        BY <1>0, <3>1 DEF PedidoTipo
      <3>3. pedido' = [pedido EXCEPT ![p] = r]
        BY <2>3, <1>0 DEF PedidosTipo, PedidoTipo
      <3> QED
        BY <2>1, <3>1, <3>2, <3>3, <1>a, <1>b, <1>c DEF contasVars
    <2> QED
      BY <1>8, <2>2, <2>3 DEF LerConta
  <1>9. CASE Entrar(p)
    <2>1. PedidosTipo' /\ ComandosTipo'
      BY <1>9, <1>b, <1>c, SemPedidoTipo DEF Entrar, ComConta
    <2>2. ContasTipo'
      BY <1>9, <1>0 DEF Entrar, ContasTipo, ComConta
    <2> QED
      BY <2>1, <2>2
  <1>10. CASE TravarTroca(p)
    <2>1. UNCHANGED contasVars /\ UNCHANGED comando
      BY <1>10 DEF TravarTroca
    <2>2. CASE pedido' = [pedido EXCEPT ![p] = SemPedido]
      BY <2>1, <2>2, <1>a, <1>b, <1>c, SemPedidoTipo DEF ComConta, contasVars
    <2>3. CASE /\ pedido[p].id \in DOMAIN contas
               /\ pedido' = [pedido EXCEPT ![p].fase = "gravar",
                                           ![p].lida = contas[pedido[p].id].senha]
      <3> DEFINE r == [pedido[p] EXCEPT !.fase = "gravar", !.lida = contas[pedido[p].id].senha]
      <3>1. contas[pedido[p].id].senha \in Nat
        BY <2>3 DEF ContasTipo, Conta
      <3>2. r \in PedidoTipo /\ r.tipo = pedido[p].tipo /\ r.id = pedido[p].id
        BY <1>0, <3>1 DEF PedidoTipo
      <3>3. pedido' = [pedido EXCEPT ![p] = r]
        BY <2>3, <1>0 DEF PedidosTipo, PedidoTipo
      <3> QED
        BY <2>1, <2>3, <3>2, <3>3, <1>a, <1>b, <1>c DEF contasVars, ContasTipo
    <2> QED
      BY <1>10, <2>2, <2>3 DEF TravarTroca
  <1>11. CASE GravarTroca(p)
    <2>1. PedidosTipo' /\ ComandosTipo'
      BY <1>11, <1>b, <1>c, SemPedidoTipo DEF GravarTroca, ComConta, contasVars
    <2>2. ContasTipo'
      BY <1>11, <1>0 DEF GravarTroca, contasVars, ContasTipo, Conta, ComConta
    <2> QED
      BY <2>1, <2>2
  <1> QED
    BY <1>1, <1>2, <1>3, <1>5, <1>6, <1>7, <1>8, <1>9, <1>10, <1>11 DEF PassoPedido

\* The ids in use are finitely many.
LEMMA ContasFinitas ==
    ASSUME ContasTipo
    PROVE  IsFiniteSet(DOMAIN contas) /\ Cardinality(DOMAIN contas) \in Nat
  <1>0. criadas \in Int
    BY DEF ContasTipo
  <1>1. IsFiniteSet(1..criadas)
    BY <1>0, FS_Interval
  <1>2. IsFiniteSet(DOMAIN contas)
    BY <1>1, FS_Subset DEF ContasTipo
  <1> QED
    BY <1>2, FS_CardinalityType

\* Changing the password of an account keeps the types.
LEMMA SenhaTrocada ==
    ASSUME contas \in [DOMAIN contas -> Conta], senhas \in Nat, NEW i
    PROVE  [contas EXCEPT ![i].senha = senhas + 1] \in [DOMAIN contas -> Conta]
  <1>1. ASSUME NEW j \in DOMAIN contas
        PROVE  [contas[j] EXCEPT !.senha = senhas + 1] \in Conta
    BY DEF Conta
  <1> QED
    BY <1>1

LEMMA TiposComando ==
    ASSUME Tipos, NEW o \in Operador, PassoComando(o)
    PROVE  Tipos'
  <1> USE DEF Tipos
  <1>0. comando[o] \in ComandoTipo
    BY DEF ComandosTipo
  <1>a. ASSUME UNCHANGED <<contasVars, pedido>> PROVE ContasTipo' /\ PedidosTipo'
    BY <1>a DEF contasVars, ContasTipo, PedidosTipo
  <1>b. ASSUME NEW c \in ComandoTipo, comando' = [comando EXCEPT ![o] = c]
        PROVE  ComandosTipo'
    BY <1>b DEF ComandosTipo
  <1>c. ASSUME Terminar(o) PROVE ComandosTipo'
    BY <1>b, <1>c, SemComandoTipo DEF Terminar
  <1>d. ASSUME NEW c \in ComandoTipo, Iniciar(o, c) PROVE Tipos'
    BY <1>a, <1>b, <1>d DEF Iniciar
  <1>e. ASSUME ContasTipo', pedido' = pedido, criadas' >= criadas PROVE PedidosTipo'
    BY <1>e DEF PedidosTipo, ContasTipo
  <1>1. CASE ProcurarParaCriar(o)
    <2>1. PICK e \in Email : Iniciar(o, [SemComando EXCEPT !.fase = "criar", !.email = e])
      BY <1>1 DEF ProcurarParaCriar
    <2>2. [SemComando EXCEPT !.fase = "criar", !.email = e] \in ComandoTipo
      BY SemComandoTipo DEF ComandoTipo
    <2> QED
      BY <2>1, <2>2, <1>d
  <1>2. CASE Criar(o)
    <2>1. ComandosTipo' /\ UNCHANGED <<sessoes, pedido>>
      BY <1>2, <1>c DEF Criar
    <2>2. comando[o].email \in Email
      BY <1>0 DEF ComandoTipo
    <2>3. CASE UNCHANGED <<contas, criadas, senhas>>
      BY <2>1, <2>3, <1>a, <1>e DEF ContasTipo
    <2>4. CASE /\ criadas < MaxContas /\ criadas' = criadas + 1 /\ senhas' = senhas + 1
               /\ contas' = [i \in DOMAIN contas \cup {criadas + 1} |->
                                IF i = criadas + 1
                                THEN [email |-> comando[o].email, senha |-> senhas + 1]
                                ELSE contas[i]]
      <3>1. criadas' \in 0..MaxContas /\ senhas' \in Nat /\ criadas' >= criadas
        BY <2>4, AcessoAssumption DEF ContasTipo
      <3>2. [email |-> comando[o].email, senha |-> senhas + 1] \in Conta
        BY <2>2 DEF ContasTipo, Conta
      <3>3. \A i \in DOMAIN contas : contas[i] \in Conta
        BY DEF ContasTipo
      <3>4. contas' \in [DOMAIN contas' -> Conta]
        BY <2>4, <3>2, <3>3
      <3>5. DOMAIN contas' \subseteq 1..criadas' /\ sessoes' \subseteq 1..criadas'
        BY <2>1, <2>4 DEF ContasTipo
      <3> QED
        BY <2>1, <3>1, <3>4, <3>5, <1>e DEF ContasTipo
    <2> QED
      BY <1>2, <2>3, <2>4 DEF Criar
  <1>3. CASE ProcurarParaTrocar(o)
    <2>1. PICK i \in DOMAIN contas : Iniciar(o, [SemComando EXCEPT !.fase = "travar", !.id = i])
      BY <1>3 DEF ProcurarParaTrocar
    <2>2. i \in Nat
      BY DEF ContasTipo
    <2>3. [SemComando EXCEPT !.fase = "travar", !.id = i] \in ComandoTipo
      BY <2>2, SemComandoTipo DEF ComandoTipo
    <2> QED
      BY <2>1, <2>3, <1>d
  <1>4. CASE TravarSenha(o)
    <2>1. [comando[o] EXCEPT !.fase = "gravar"] \in ComandoTipo
      BY <1>0 DEF ComandoTipo
    <2>2. CASE comando' = [comando EXCEPT ![o].fase = "gravar"]
      BY <1>4, <2>1, <2>2, <1>a, <1>b DEF TravarSenha
    <2>3. CASE Terminar(o)
      BY <1>4, <2>3, <1>a, <1>c DEF TravarSenha
    <2> QED
      BY <1>4, <2>2, <2>3 DEF TravarSenha
  <1>5. CASE GravarSenha(o)
    <2>1. ComandosTipo' /\ UNCHANGED <<sessoes, pedido, criadas>>
      BY <1>5, <1>c DEF GravarSenha
    <2>2. contas' \in [DOMAIN contas -> Conta] /\ senhas' \in Nat
      <3>1. contas \in [DOMAIN contas -> Conta] /\ senhas \in Nat
        BY DEF ContasTipo
      <3>2. [contas EXCEPT ![comando[o].id].senha = senhas + 1] \in [DOMAIN contas -> Conta]
        BY <3>1, SenhaTrocada
      <3> QED
        BY <1>5, <3>1, <3>2 DEF GravarSenha
    <2>3. DOMAIN contas' = DOMAIN contas
      BY <1>5 DEF GravarSenha
    <2>4. ContasTipo'
      BY <2>1, <2>2, <2>3 DEF ContasTipo
    <2> QED
      BY <2>1, <2>4, <1>e DEF ContasTipo
  <1>6. CASE ProcurarParaRemover(o)
    <2>1. PICK i \in DOMAIN contas :
             Iniciar(o, [SemComando EXCEPT !.fase = "confirmar", !.id = i, !.vistas = Removidas])
      BY <1>6 DEF ProcurarParaRemover
    <2>2. i \in Nat /\ Removidas \in Int
      BY ContasFinitas DEF ContasTipo, Removidas
    <2>3. [SemComando EXCEPT !.fase = "confirmar", !.id = i, !.vistas = Removidas] \in ComandoTipo
      BY <2>2, SemComandoTipo DEF ComandoTipo
    <2> QED
      BY <2>1, <2>3, <1>d
  <1>7. CASE Remover(o)
    <2>1. ComandosTipo' /\ UNCHANGED <<sessoes, pedido, criadas>>
      BY <1>7, <1>c DEF Remover
    <2>2. contas' = [j \in DOMAIN contas \ {comando[o].id} |-> contas[j]] /\ senhas' = senhas
      BY <1>7 DEF Remover
    <2>3. \A j \in DOMAIN contas : contas[j] \in Conta
      BY DEF ContasTipo
    <2>4. contas' \in [DOMAIN contas' -> Conta] /\ DOMAIN contas' \subseteq DOMAIN contas
      BY <2>2, <2>3
    <2>5. ContasTipo'
      BY <2>1, <2>2, <2>4 DEF ContasTipo
    <2> QED
      BY <2>1, <2>5, <1>e DEF ContasTipo
  <1>8. CASE Desistir(o)
    BY <1>8, <1>a, <1>c DEF Desistir
  <1> QED
    BY <1>1, <1>2, <1>3, <1>4, <1>5, <1>6, <1>7, <1>8 DEF PassoComando

-----------------------------------------------------------------------------
(* The limiter *)

LEMMA LimitePositivo ==
    /\ \A l \in Limitador : Limite[l] \in Nat /\ Limite[l] > 0
    /\ Janela \in Nat /\ Janela > 0 /\ Atraso \in Nat /\ MaxAgora \in Nat
  BY LimiteAssumption

\* A cleanup leaves an entry as it was, or removes one that is over.
LEMMA RestaFiel ==
    ASSUME LimiteTypeOK, NEW l \in Limitador, NEW t \in Nat
    PROVE  /\ Resta(l, t) \in [Chave -> Entrada]
           /\ \A k \in Chave : \/ Resta(l, t)[k] = entradas[l][k]
                               \/ Resta(l, t)[k] = SemEntrada /\ t >= entradas[l][k].fim
  BY DEF LimiteTypeOK, Resta, SemEntrada, Entrada

LEMMA ConsultarTipo ==
    ASSUME LimiteTypeOK, NEW l \in Limitador, NEW k \in Chave, NEW t \in Nat, Consultar(l, k, t)
    PROVE  LimiteTypeOK'
  <1> USE LimitePositivo
  <1> DEFINE e == IF Abre(l, k, t) THEN [conta |-> 1, fim |-> t + Janela]
                  ELSE [Resta(l, t)[k] EXCEPT !.conta = IF Permite(l, k, t) THEN @ + 1 ELSE @]
  <1>1. Resta(l, t) \in [Chave -> Entrada]
    BY RestaFiel
  <1>2. e \in Entrada
    <2>1. Resta(l, t)[k] \in Entrada
      BY <1>1
    <2>2. [conta |-> 1, fim |-> t + Janela] \in Entrada
      BY DEF Entrada
    <2>3. [Resta(l, t)[k] EXCEPT !.conta = IF Permite(l, k, t) THEN @ + 1 ELSE @] \in Entrada
      BY <2>1 DEF Entrada
    <2> QED
      BY <2>2, <2>3
  <1>3. entradas' = [entradas EXCEPT ![l] = [Resta(l, t) EXCEPT ![k] = e]]
    BY DEF Consultar
  <1>4. entradas' \in [Limitador -> [Chave -> Entrada]]
    BY <1>1, <1>2, <1>3 DEF LimiteTypeOK
  <1>5. limpeza' \in [Limitador -> Int]
    BY DEF Consultar, LimiteTypeOK
  <1>6. aberta' \in [Limitador -> [Chave -> Int]]
    BY DEF Consultar, LimiteTypeOK
  <1>7. admitidos' \in [Limitador -> [Chave -> Nat]]
    BY DEF Consultar, LimiteTypeOK
  <1> QED
    BY <1>4, <1>5, <1>6, <1>7 DEF Consultar, LimiteTypeOK

\* What EntradaFiel says of one key.
Fiel(l, k) ==
    /\ admitidos[l][k] <= Limite[l]
    /\ entradas[l][k].conta > 0 => /\ entradas[l][k].conta = admitidos[l][k]
                                   /\ entradas[l][k].fim = aberta[l][k] + Janela
    /\ entradas[l][k].conta = 0 => \/ aberta[l][k] = Nunca
                                   \/ agora >= aberta[l][k] + Janela

\* The call of a request, with an instant that is late by Atraso at most, keeps the
\* entries true to the history and opens a window only after the last one, less
\* that delay.
LEMMA ConsultarFiel ==
    ASSUME LimiteTypeOK, EntradaFiel, NEW l \in Limitador, NEW k \in Chave,
           NEW t \in Nat, t <= agora, agora - t <= Atraso, Consultar(l, k, t)
    PROVE  EntradaFiel' /\ JanelasEspacadas
  <1> USE LimitePositivo
  <1> DEFINE R == Resta(l, t)
  <1>1. /\ R[k] \in Entrada /\ entradas[l][k] \in Entrada
        /\ \/ R[k] = entradas[l][k]
           \/ R[k] = SemEntrada /\ t >= entradas[l][k].fim
    BY RestaFiel DEF LimiteTypeOK
  <1>2. agora \in Nat /\ aberta[l][k] \in Int /\ admitidos[l][k] \in Nat
    BY DEF LimiteTypeOK
  <1>3. Fiel(l, k)
    BY DEF EntradaFiel, Fiel
  <1>4. ASSUME NEW m \in Limitador, NEW j \in Chave, m # l \/ j # k
        PROVE  /\ Fiel(m, j)'
               /\ aberta'[m][j] = aberta[m][j] /\ admitidos'[m][j] <= Limite[m]
    <2>1. /\ aberta'[m][j] = aberta[m][j] /\ admitidos'[m][j] = admitidos[m][j]
          /\ agora' = agora
      BY <1>4 DEF Consultar, LimiteTypeOK
    <2>2. \/ entradas'[m][j] = entradas[m][j]
          \/ entradas'[m][j] = SemEntrada /\ m = l /\ t >= entradas[l][j].fim
      BY <1>4, RestaFiel DEF Consultar, LimiteTypeOK
    <2>3. Fiel(m, j)
      BY DEF EntradaFiel, Fiel
    <2>4. entradas[m][j] \in Entrada /\ aberta[m][j] \in Int /\ agora \in Nat
      BY DEF LimiteTypeOK
    <2> QED
      BY <2>1, <2>2, <2>3, <2>4 DEF Fiel, Entrada, SemEntrada
  <1>5. CASE Abre(l, k, t)
    <2>1. /\ entradas'[l][k] = [conta |-> 1, fim |-> t + Janela]
          /\ aberta'[l][k] = t /\ admitidos'[l][k] = 1
      BY <1>5, RestaFiel DEF Consultar, LimiteTypeOK
    <2>2. aberta[l][k] # Nunca => t >= aberta[l][k] + Janela - Atraso
      BY <1>1, <1>2, <1>3, <1>5 DEF Abre, Fiel, Entrada, SemEntrada
    <2> QED
      BY <2>1, <2>2, <1>4 DEF EntradaFiel, JanelasEspacadas, Fiel
  <1>6. CASE ~Abre(l, k, t)
    <2>1. R[k] = entradas[l][k] /\ R[k].conta > 0
      BY <1>1, <1>6 DEF Abre, SemEntrada, Entrada
    <2>2. aberta'[l][k] = aberta[l][k] /\ agora' = agora
      BY <1>6 DEF Consultar, LimiteTypeOK
    <2>3. CASE Permite(l, k, t)
      <3>1. /\ entradas'[l][k] = [R[k] EXCEPT !.conta = @ + 1]
            /\ admitidos'[l][k] = admitidos[l][k] + 1
        BY <1>6, <2>3, RestaFiel DEF Consultar, LimiteTypeOK
      <3>2. R[k].conta < Limite[l]
        BY <1>6, <2>3 DEF Permite
      <3> QED
        BY <1>1, <1>2, <1>3, <1>4, <2>1, <2>2, <3>1, <3>2
        DEF EntradaFiel, JanelasEspacadas, Fiel, Entrada
    <2>4. CASE ~Permite(l, k, t)
      <3>1. /\ entradas'[l][k] = R[k]
            /\ admitidos'[l][k] = admitidos[l][k]
        BY <1>1, <1>6, <2>4, RestaFiel DEF Consultar, LimiteTypeOK, Entrada
      <3> QED
        BY <1>1, <1>2, <1>3, <1>4, <2>1, <2>2, <3>1
        DEF EntradaFiel, JanelasEspacadas, Fiel, Entrada
    <2> QED
      BY <2>3, <2>4
  <1> QED
    BY <1>5, <1>6

\* A step that leaves the limiter alone.
LEMMA LimiteParado ==
    ASSUME LimiteTypeOK, EntradaFiel, UNCHANGED limite, agora' \in 0..MaxAgora, agora' >= agora
    PROVE  LimiteTypeOK' /\ EntradaFiel' /\ JanelasEspacadas
  <1> USE LimitePositivo
  <1>1. LimiteTypeOK'
    BY DEF LimiteTypeOK, limite
  <1>2. ASSUME NEW l \in Limitador, NEW k \in Chave PROVE Fiel(l, k)'
    <2>1. entradas[l][k] \in Entrada /\ aberta[l][k] \in Int /\ agora \in Nat
      BY DEF LimiteTypeOK
    <2> QED
      BY <2>1 DEF EntradaFiel, Fiel, limite, Entrada
  <1>3. EntradaFiel'
    BY <1>2 DEF EntradaFiel, Fiel
  <1>4. JanelasEspacadas
    BY DEF EntradaFiel, JanelasEspacadas, limite
  <1> QED
    BY <1>1, <1>3, <1>4

\* What the steps of a request change.
LEMMA PedidoMuda ==
    ASSUME Tipos, NEW p \in Pedido, PassoPedido(p)
    PROVE  /\ \A q \in Pedido \ {p} : pedido'[q] = pedido[q]
           /\ pedido'[p].fase = "gravar" => TravarTroca(p)
           /\ pedido'[p].carimbo \in {pedido[p].carimbo, Nunca, agora}
           /\ UNCHANGED <<agora, comando, criadas>>
           /\ UNCHANGED contasVars \/ Entrar(p) \/ GravarTroca(p)
  <1> USE SemPedidoTipo DEF Tipos, PedidosTipo
  <1>0. pedido[p] \in PedidoTipo
    OBVIOUS
  <1>1. CASE PedirLogin(p)
    BY <1>1 DEF PedirLogin, Chegar, PedidoTipo, contasVars
  <1>2. CASE PedirTroca(p)
    BY <1>2 DEF PedirTroca, Chegar, PedidoTipo, contasVars
  <1>3. CASE LerRelogio(p)
    BY <1>0, <1>3 DEF LerRelogio, PedidoTipo, contasVars
  <1>4. ASSUME NEW l, NEW k, NEW f \in {"identidade", "ler", "travar"}, Passar(p, l, k, f)
        PROVE  /\ \A q \in Pedido \ {p} : pedido'[q] = pedido[q]
               /\ pedido'[p].fase # "gravar" /\ pedido'[p].carimbo = Nunca
               /\ UNCHANGED <<agora, comando, criadas, contasVars>>
    BY <1>0, <1>4 DEF Passar, Consultar, PedidoTipo, contasVars
  <1>5. CASE PassarIP(p)
    BY <1>5, <1>4 DEF PassarIP
  <1>6. CASE PassarLogin(p)
    BY <1>6, <1>4 DEF PassarLogin
  <1>7. CASE PassarTroca(p)
    BY <1>7, <1>4 DEF PassarTroca
  <1>8. CASE LerConta(p)
    <2>1. UNCHANGED <<agora, comando, criadas, contasVars>>
      BY <1>8 DEF LerConta, contasVars
    <2>2. CASE pedido' = [pedido EXCEPT ![p] = SemPedido]
      BY <2>1, <2>2
    <2>3. ASSUME NEW i, pedido' = [pedido EXCEPT ![p].fase = "comparar", ![p].id = i,
                                                 ![p].lida = contas[i].senha]
          PROVE  /\ \A q \in Pedido \ {p} : pedido'[q] = pedido[q]
                 /\ pedido'[p].fase # "gravar" /\ pedido'[p].carimbo = pedido[p].carimbo
      <3> DEFINE r == [pedido[p] EXCEPT !.fase = "comparar", !.id = i, !.lida = contas[i].senha]
      <3>1. r.fase = "comparar" /\ r.carimbo = pedido[p].carimbo
        BY <1>0 DEF PedidoTipo
      <3>2. pedido' = [pedido EXCEPT ![p] = r]
        BY <2>3, <1>0 DEF PedidoTipo
      <3> QED
        BY <3>1, <3>2
    <2> QED
      BY <1>8, <2>1, <2>2, <2>3 DEF LerConta
  <1>9. CASE Entrar(p)
    BY <1>0, <1>9 DEF Entrar
  <1>10. CASE TravarTroca(p)
    BY <1>0, <1>10 DEF TravarTroca, PedidoTipo, contasVars
  <1>11. CASE GravarTroca(p)
    BY <1>0, <1>11 DEF GravarTroca, contasVars
  <1> QED
    BY <1>1, <1>2, <1>3, <1>5, <1>6, <1>7, <1>8, <1>9, <1>10, <1>11 DEF PassoPedido

\* An instant that a request has read is late by Atraso at most.
Carimbos ==
    \A p \in Pedido : pedido[p].carimbo # Nunca =>
        pedido[p].carimbo \in 0..agora /\ agora - pedido[p].carimbo <= Atraso

LimiteInv == LimiteTypeOK /\ EntradaFiel /\ Carimbos

LEMMA LimiteInicia == Init => LimiteInv
  <1> SUFFICES ASSUME Init PROVE LimiteInv
    OBVIOUS
  <1>1. LimiteTypeOK
    BY LimitePositivo DEF Init, LimiteInit, LimiteTypeOK, SemEntrada, Entrada, Nunca
  <1>2. EntradaFiel
    BY LimitePositivo DEF Init, LimiteInit, EntradaFiel, SemEntrada, Nunca
  <1>3. Carimbos
    BY SemPedidoTipo DEF Init, Carimbos
  <1> QED
    BY <1>1, <1>2, <1>3 DEF LimiteInv

LEMMA LimitePasso ==
    ASSUME Tipos, LimiteInv, [Next]_vars
    PROVE  LimiteInv' /\ JanelasEspacadas
  <1> USE LimitePositivo DEF LimiteInv
  <1>0. agora \in 0..MaxAgora
    BY DEF LimiteTypeOK
  <1>a. ASSUME UNCHANGED limite, agora' = agora
        PROVE  LimiteTypeOK' /\ EntradaFiel' /\ JanelasEspacadas
    BY <1>0, <1>a, LimiteParado
  <1>1. ASSUME NEW p \in Pedido, PassoPedido(p) PROVE LimiteInv' /\ JanelasEspacadas
    <2>1. /\ \A q \in Pedido \ {p} : pedido'[q] = pedido[q]
          /\ pedido'[p].carimbo \in {pedido[p].carimbo, Nunca, agora}
          /\ agora' = agora
      BY <1>1, PedidoMuda
    <2>2. Carimbos'
      BY <1>0, <2>1 DEF Carimbos
    <2>3. ASSUME NEW l \in Limitador, NEW k \in Chave, NEW f, Passar(p, l, k, f)
          PROVE  LimiteTypeOK' /\ EntradaFiel' /\ JanelasEspacadas
      <3>1. pedido[p].carimbo \in Nat /\ pedido[p].carimbo <= agora
            /\ agora - pedido[p].carimbo <= Atraso
        BY <1>0, <2>3 DEF Carimbos, Passar
      <3>2. Consultar(l, k, pedido[p].carimbo)
        BY <2>3 DEF Passar
      <3> QED
        BY <3>1, <3>2, ConsultarTipo, ConsultarFiel
    <2>4. pedido[p] \in PedidoTipo /\ (pedido[p].tipo = "troca" => pedido[p].id \in Id)
      BY AcessoAssumption DEF Tipos, PedidosTipo, ContasTipo, ComConta, Id
    <2>5. CASE PassarIP(p)
      <3>1. pedido[p].ip \in Chave /\ "ip" \in Limitador
        BY <2>4, AcessoAssumption DEF PedidoTipo, Limitador
      <3> QED
        BY <2>2, <2>3, <2>5, <3>1 DEF PassarIP
    <2>6. CASE PassarLogin(p)
      <3>1. Login(pedido[p].email) \in Chave /\ "identidade" \in Limitador
        BY <2>4, AcessoAssumption DEF PedidoTipo, Limitador
      <3> QED
        BY <2>2, <2>3, <2>6, <3>1 DEF PassarLogin
    <2>7. CASE PassarTroca(p)
      <3>1. TrocaSenha(pedido[p].id) \in Chave /\ "identidade" \in Limitador
        BY <2>4, <2>7, AcessoAssumption DEF PassarTroca, Limitador
      <3> QED
        BY <2>2, <2>3, <2>7, <3>1 DEF PassarTroca
    <2>8. CASE ~PassarIP(p) /\ ~PassarLogin(p) /\ ~PassarTroca(p)
      <3>1. UNCHANGED limite
        BY <1>1, <2>8
        DEF PassoPedido, PedirLogin, PedirTroca, Chegar, LerRelogio, LerConta, Entrar,
            TravarTroca, GravarTroca
      <3> QED
        BY <2>1, <2>2, <3>1, <1>a
    <2> QED
      BY <2>5, <2>6, <2>7, <2>8
  <1>2. ASSUME NEW o \in Operador, PassoComando(o) PROVE LimiteInv' /\ JanelasEspacadas
    <2>1. UNCHANGED <<limite, agora, pedido>>
      BY <1>2
      DEF PassoComando, ProcurarParaCriar, Iniciar, Criar, ProcurarParaTrocar, TravarSenha,
          GravarSenha, ProcurarParaRemover, Remover, Desistir
    <2>2. Carimbos'
      BY <2>1 DEF Carimbos
    <2> QED
      BY <2>1, <2>2, <1>a
  <1>3. CASE Passa
    <2>1. agora' = agora + 1 /\ agora' \in 0..MaxAgora /\ UNCHANGED <<limite, pedido>>
      BY <1>0, <1>3 DEF Passa
    <2>2. Carimbos'
      BY <1>0, <1>3, <2>1 DEF Carimbos, Passa
    <2> QED
      BY <1>0, <2>1, <2>2, LimiteParado
  <1>4. CASE UNCHANGED vars
    <2>1. Carimbos'
      BY <1>4 DEF Carimbos, vars
    <2> QED
      BY <1>4, <2>1, <1>a DEF vars
  <1> QED
    BY <1>1, <1>2, <1>3, <1>4 DEF Next

\* Requests and commands keep their types.
LEMMA TiposPasso ==
    ASSUME Tipos, LimiteTypeOK, [Next]_vars
    PROVE  Tipos'
  <1>1. CASE Passa \/ UNCHANGED vars
    BY <1>1
    DEF Passa, vars, contasVars, Tipos, ContasTipo, PedidosTipo, ComandosTipo
  <1> QED
    BY <1>1, TiposPedido, TiposComando DEF Next

\* The limit as the requests of login and of change of password meet it (property
\* of the run): at most Limite in a window, and windows that do not overlap
\* except by the delay between the clock and the mutex (login_rate_limit.go:69-95).
THEOREM LimiteDeTentativas == Spec => LimitePorJanela
  <1>1. Init => Tipos /\ LimiteInv
    BY TiposInit, LimiteInicia
  <1>2. Tipos /\ LimiteInv /\ [Next]_vars => (Tipos /\ LimiteInv)' /\ JanelasEspacadas
    BY TiposPasso, LimitePasso DEF LimiteInv
  <1> QED
    BY <1>1, <1>2, PTL DEF Spec, LimitePorJanela

-----------------------------------------------------------------------------
(* The rows of the accounts and who holds them *)

\* What the steps of a command change.
LEMMA ComandoMuda ==
    ASSUME Tipos, NEW o \in Operador, PassoComando(o)
    PROVE  /\ \A x \in Operador \ {o} : comando'[x] = comando[x]
           /\ comando'[o].fase = "gravar" => TravarSenha(o)
           /\ comando'[o].fase = "confirmar" => ProcurarParaRemover(o)
           /\ comando'[o].fase = "gravar" => comando'[o].id = comando[o].id
           /\ UNCHANGED <<agora, limite, pedido, trocas>>
           /\ UNCHANGED contasVars \/ Criar(o) \/ GravarSenha(o) \/ Remover(o)
  <1> USE SemComandoTipo DEF Tipos, ComandosTipo, contasVars
  <1>0. comando[o] \in ComandoTipo
    OBVIOUS
  <1>1. CASE ProcurarParaCriar(o)
    <2>1. PICK e \in Email : Iniciar(o, [SemComando EXCEPT !.fase = "criar", !.email = e])
      BY <1>1 DEF ProcurarParaCriar
    <2> QED
      BY <2>1 DEF Iniciar, ComandoTipo
  <1>2. CASE Criar(o)
    BY <1>2 DEF Criar, Terminar
  <1>3. CASE ProcurarParaTrocar(o)
    <2>1. PICK i \in DOMAIN contas : Iniciar(o, [SemComando EXCEPT !.fase = "travar", !.id = i])
      BY <1>3 DEF ProcurarParaTrocar
    <2> QED
      BY <2>1 DEF Iniciar, ComandoTipo
  <1>4. CASE TravarSenha(o)
    BY <1>0, <1>4 DEF TravarSenha, Terminar, ComandoTipo
  <1>5. CASE GravarSenha(o)
    BY <1>5 DEF GravarSenha, Terminar
  <1>6. CASE ProcurarParaRemover(o)
    <2>1. PICK i \in DOMAIN contas :
             Iniciar(o, [SemComando EXCEPT !.fase = "confirmar", !.id = i, !.vistas = Removidas])
      BY <1>6 DEF ProcurarParaRemover
    <2> QED
      BY <1>6, <2>1 DEF Iniciar, ComandoTipo
  <1>7. CASE Remover(o)
    BY <1>7 DEF Remover, Terminar
  <1>8. CASE Desistir(o)
    BY <1>8 DEF Desistir, Terminar
  <1> QED
    BY <1>1, <1>2, <1>3, <1>4, <1>5, <1>6, <1>7, <1>8 DEF PassoComando

\* Who is about to write has the row, and what it read of it is what it holds.
Travas ==
    /\ \A p \in Pedido : pedido[p].fase = "gravar" =>
          /\ pedido[p].id \in DOMAIN contas
          /\ pedido[p].lida = contas[pedido[p].id].senha
    /\ \A o \in Operador : comando[o].fase = "gravar" => comando[o].id \in DOMAIN contas
    /\ \A p, q \in Pedido : pedido[p].fase = "gravar" /\ pedido[q].fase = "gravar"
                            /\ pedido[p].id = pedido[q].id => p = q
    /\ \A p \in Pedido, o \in Operador : pedido[p].fase = "gravar" /\ comando[o].fase = "gravar"
                                         => pedido[p].id # comando[o].id

\* Passwords are chosen in order: a change started from one older than the present.
Senhas ==
    /\ \A i \in DOMAIN contas : contas[i].senha <= senhas
    /\ \A t \in trocas : /\ t[1] \in 1..criadas /\ t[2] \in Nat
                         /\ t[1] \in DOMAIN contas => t[2] < contas[t[1]].senha
    /\ TrocasEncadeadas

Encadeado == Travas /\ Senhas

LEMMA EncadeadoInit == Init => Encadeado
  <1> SUFFICES ASSUME Init PROVE Encadeado
    OBVIOUS
  <1>1. criadas \in Nat
    BY TiposInit, AcessoAssumption DEF Tipos, ContasTipo
  <1>2. Travas
    BY SemPedidoTipo, SemComandoTipo DEF Init, Travas
  <1>3. Senhas
    BY <1>1 DEF Init, Senhas, TrocasEncadeadas
  <1> QED
    BY <1>2, <1>3 DEF Encadeado

LEMMA EncadeadoPedido ==
    ASSUME Tipos, Encadeado, NEW p \in Pedido, PassoPedido(p)
    PROVE  Encadeado'
  <1> USE DEF Encadeado
  <1>0. /\ \A q \in Pedido \ {p} : pedido'[q] = pedido[q]
        /\ pedido'[p].fase = "gravar" => TravarTroca(p)
        /\ UNCHANGED <<comando, criadas>>
    BY PedidoMuda
  <1>1. pedido[p] \in PedidoTipo /\ contas \in [DOMAIN contas -> Conta] /\ senhas \in Nat
        /\ (ComConta(pedido[p]) => pedido[p].id \in 1..criadas)
    BY DEF Tipos, PedidosTipo, ContasTipo
  <1>2. CASE UNCHANGED <<contas, senhas, trocas>>
    <2>1. CASE pedido'[p].fase # "gravar"
      BY <1>0, <1>2, <2>1 DEF Travas, Senhas, TrocasEncadeadas
    <2>2. CASE pedido'[p].fase = "gravar"
      <3>1. TravarTroca(p) /\ pedido[p].fase = "travar"
        BY <1>0, <2>2 DEF TravarTroca
      <3> DEFINE r == [pedido[p] EXCEPT !.fase = "gravar", !.lida = contas[pedido[p].id].senha]
      <3>2. pedido[p].id \in DOMAIN contas /\ Livre(pedido[p].id) /\ pedido'[p] = r
        BY <1>1, <2>2, <3>1, SemPedidoTipo DEF TravarTroca, Tipos, PedidosTipo, PedidoTipo
      <3>3. /\ pedido'[p].id \in DOMAIN contas /\ Livre(pedido'[p].id)
            /\ pedido'[p].lida = contas[pedido'[p].id].senha
        BY <1>1, <3>2 DEF PedidoTipo
      <3>4. Travas'
        BY <1>0, <1>2, <3>3 DEF Travas, Livre
      <3>5. Senhas'
        BY <1>0, <1>2 DEF Senhas, TrocasEncadeadas
      <3> QED
        BY <3>4, <3>5
    <2> QED
      BY <2>1, <2>2
  <1>3. CASE GravarTroca(p) /\ ~UNCHANGED <<contas, senhas, trocas>>
    <2> DEFINE r == pedido[p]
    <2>1. /\ r.fase = "gravar" /\ r.senha = r.lida
          /\ contas' = [contas EXCEPT ![r.id].senha = senhas + 1]
          /\ senhas' = senhas + 1 /\ trocas' = trocas \cup {<<r.id, r.senha, senhas + 1>>}
          /\ pedido' = [pedido EXCEPT ![p] = SemPedido]
      BY <1>3 DEF GravarTroca, contasVars
    <2>2. r.id \in DOMAIN contas /\ r.lida = contas[r.id].senha /\ r.id \in 1..criadas
          /\ r.senha \in Nat
      BY <1>1, <2>1 DEF Travas, ComConta, PedidoTipo
    <2>3. /\ DOMAIN contas' = DOMAIN contas /\ contas'[r.id].senha = senhas + 1
          /\ \A i \in DOMAIN contas \ {r.id} : contas'[i] = contas[i]
      BY <1>1, <2>1, <2>2 DEF Conta
    <2>4. pedido'[p].fase = "livre"
      BY <2>1, SemPedidoTipo DEF Tipos, PedidosTipo
    <2>5. Travas'
      BY <1>0, <2>1, <2>2, <2>3, <2>4 DEF Travas
    <2>6. \A i \in DOMAIN contas' : contas'[i].senha <= senhas'
      BY <1>1, <2>1, <2>3 DEF Senhas, Conta
    <2>7. \A t \in trocas' : /\ t[1] \in 1..criadas' /\ t[2] \in Nat
                             /\ t[1] \in DOMAIN contas' => t[2] < contas'[t[1]].senha
      <3>1. ASSUME NEW t \in trocas
            PROVE  /\ t[1] \in 1..criadas /\ t[2] \in Nat
                   /\ t[1] \in DOMAIN contas' => t[2] < contas'[t[1]].senha
        BY <1>1, <2>1, <2>2, <2>3 DEF Senhas, Conta
      <3>2. r.senha < contas'[r.id].senha
        BY <1>1, <2>1, <2>2, <2>3 DEF Senhas, Conta
      <3>3. ASSUME NEW t \in trocas', t \notin trocas PROVE t[1] = r.id /\ t[2] = r.senha
        BY <2>1, <3>3
      <3> QED
        BY <1>0, <2>2, <3>1, <3>2, <3>3
    <2>8. TrocasEncadeadas'
      <3>1. ASSUME NEW t \in trocas, t[1] = r.id PROVE t[2] # r.senha
        BY <1>1, <2>1, <2>2, <3>1 DEF Senhas, Conta
      <3>2. \A a, b \in trocas : a[1] = b[1] /\ a[2] = b[2] => a = b
        BY DEF Senhas, TrocasEncadeadas
      <3> QED
        BY <2>1, <3>1, <3>2 DEF TrocasEncadeadas
    <2> QED
      BY <2>5, <2>6, <2>7, <2>8 DEF Senhas
  <1> QED
    BY <1>2, <1>3, PedidoMuda DEF Entrar, contasVars

LEMMA EncadeadoComando ==
    ASSUME Tipos, Encadeado, NEW o \in Operador, PassoComando(o)
    PROVE  Encadeado'
  <1> USE DEF Encadeado
  <1>0. /\ \A x \in Operador \ {o} : comando'[x] = comando[x]
        /\ comando'[o].fase = "gravar" => TravarSenha(o) /\ comando'[o].id = comando[o].id
        /\ UNCHANGED <<pedido, trocas>>
    BY ComandoMuda
  <1>1. contas \in [DOMAIN contas -> Conta] /\ senhas \in Nat /\ criadas \in Nat
        /\ DOMAIN contas \subseteq 1..criadas
    BY AcessoAssumption DEF Tipos, ContasTipo
  <1>2. CASE UNCHANGED contasVars
    <2>1. comando'[o].fase = "gravar" => comando'[o].id \in DOMAIN contas /\ Livre(comando'[o].id)
      BY <1>0, SemComandoTipo DEF TravarSenha, Terminar, Tipos, ComandosTipo
    <2> QED
      BY <1>0, <1>2, <2>1 DEF Travas, Senhas, TrocasEncadeadas, contasVars, Livre
  <1>3. CASE Criar(o) /\ ~UNCHANGED contasVars
    <2>1. /\ criadas' = criadas + 1 /\ senhas' = senhas + 1
          /\ contas' = [i \in DOMAIN contas \cup {criadas + 1} |->
                           IF i = criadas + 1
                           THEN [email |-> comando[o].email, senha |-> senhas + 1]
                           ELSE contas[i]]
      BY <1>3 DEF Criar, contasVars
    <2>2. /\ DOMAIN contas' = DOMAIN contas \cup {criadas + 1}
          /\ \A i \in DOMAIN contas : contas'[i] = contas[i]
          /\ contas'[criadas + 1].senha = senhas + 1
      BY <1>1, <2>1
    <2>3. comando'[o].fase # "gravar"
      BY <1>0, <1>3 DEF Criar, TravarSenha
    <2>4. Travas'
      BY <1>0, <2>2, <2>3 DEF Travas
    <2>5. \A i \in DOMAIN contas' : contas'[i].senha <= senhas'
      BY <1>1, <2>1, <2>2 DEF Senhas, Conta
    <2>6. \A t \in trocas' : /\ t[1] \in 1..criadas' /\ t[2] \in Nat
                             /\ t[1] \in DOMAIN contas' => t[2] < contas'[t[1]].senha
      BY <1>0, <1>1, <2>1, <2>2 DEF Senhas
    <2> QED
      BY <1>0, <2>4, <2>5, <2>6 DEF Senhas, TrocasEncadeadas
  <1>4. CASE GravarSenha(o)
    <2> DEFINE i == comando[o].id
    <2>1. /\ contas' = [contas EXCEPT ![i].senha = senhas + 1]
          /\ senhas' = senhas + 1 /\ criadas' = criadas
          /\ comando[o].fase = "gravar" /\ comando'[o].fase # "gravar"
      BY <1>0, <1>4 DEF GravarSenha, TravarSenha
    <2>2. /\ i \in DOMAIN contas
          /\ \A p \in Pedido : pedido[p].fase = "gravar" => pedido[p].id # i
      BY <2>1 DEF Travas
    <2>3. /\ DOMAIN contas' = DOMAIN contas /\ contas'[i].senha = senhas + 1
          /\ \A j \in DOMAIN contas \ {i} : contas'[j] = contas[j]
      BY <1>1, <2>1, <2>2 DEF Conta
    <2>4. Travas'
      BY <1>0, <2>1, <2>2, <2>3 DEF Travas
    <2>5. \A j \in DOMAIN contas' : contas'[j].senha <= senhas'
      BY <1>1, <2>1, <2>3 DEF Senhas, Conta
    <2>6. \A t \in trocas' : /\ t[1] \in 1..criadas' /\ t[2] \in Nat
                             /\ t[1] \in DOMAIN contas' => t[2] < contas'[t[1]].senha
      BY <1>0, <1>1, <2>1, <2>2, <2>3 DEF Senhas, Conta
    <2> QED
      BY <1>0, <2>4, <2>5, <2>6 DEF Senhas, TrocasEncadeadas
  <1>5. CASE Remover(o)
    <2> DEFINE i == comando[o].id
    <2>1. /\ contas' = [j \in DOMAIN contas \ {i} |-> contas[j]]
          /\ i \in DOMAIN contas => Livre(i)
          /\ UNCHANGED <<senhas, criadas>> /\ comando'[o].fase # "gravar"
      BY <1>0, <1>5 DEF Remover, TravarSenha
    <2>2. /\ DOMAIN contas' = DOMAIN contas \ {i}
          /\ \A j \in DOMAIN contas \ {i} : contas'[j] = contas[j]
      BY <2>1
    <2>3. Travas'
      BY <1>0, <2>1, <2>2 DEF Travas, Livre
    <2> QED
      BY <1>0, <2>1, <2>2, <2>3 DEF Senhas, TrocasEncadeadas
  <1> QED
    BY <1>2, <1>3, <1>4, <1>5, ComandoMuda

LEMMA EncadeadoPasso ==
    ASSUME Tipos, Encadeado, [Next]_vars
    PROVE  Encadeado'
  <1>1. CASE Passa \/ UNCHANGED vars
    BY <1>1 DEF Passa, vars, contasVars, Encadeado, Travas, Senhas, TrocasEncadeadas
  <1> QED
    BY <1>1, EncadeadoPedido, EncadeadoComando DEF Next

\* Two changes of password by the API never both start from the same password of an
\* account (property of the run), whatever the requests and the commands under way
\* (admin_service.go:48-82).
THEOREM TrocasSaoEncadeadas == Spec => []TrocasEncadeadas
  <1>1. Init => Tipos /\ LimiteInv /\ Encadeado
    BY TiposInit, LimiteInicia, EncadeadoInit
  <1>2. Tipos /\ LimiteInv /\ Encadeado /\ [Next]_vars => (Tipos /\ LimiteInv /\ Encadeado)'
    BY TiposPasso, LimitePasso, EncadeadoPasso DEF LimiteInv
  <1>3. Encadeado => TrocasEncadeadas
    BY DEF Encadeado, Senhas
  <1> QED
    BY <1>1, <1>2, <1>3, PTL DEF Spec

\* The e-mail of an account is its own.
EmailProprio ==
    \A i, j \in DOMAIN contas : contas[i].email = contas[j].email => i = j

LEMMA EmailPasso ==
    ASSUME Tipos, EmailProprio, [Next]_vars
    PROVE  EmailProprio'
  <1>1. CASE UNCHANGED contas
    BY <1>1 DEF EmailProprio
  <1>2. ASSUME NEW p \in Pedido, GravarTroca(p), ~UNCHANGED contas PROVE EmailProprio'
    <2>1. contas' = [contas EXCEPT ![pedido[p].id].senha = senhas + 1]
      BY <1>2 DEF GravarTroca, contasVars
    <2>2. DOMAIN contas' = DOMAIN contas /\ \A i \in DOMAIN contas : contas'[i].email = contas[i].email
      BY <2>1 DEF Tipos, ContasTipo, Conta
    <2> QED
      BY <2>2 DEF EmailProprio
  <1>3. ASSUME NEW o \in Operador, GravarSenha(o) PROVE EmailProprio'
    <2>1. contas' = [contas EXCEPT ![comando[o].id].senha = senhas + 1]
      BY <1>3 DEF GravarSenha
    <2>2. DOMAIN contas' = DOMAIN contas /\ \A i \in DOMAIN contas : contas'[i].email = contas[i].email
      BY <2>1 DEF Tipos, ContasTipo, Conta
    <2> QED
      BY <2>2 DEF EmailProprio
  <1>4. ASSUME NEW o \in Operador, Remover(o) PROVE EmailProprio'
    BY <1>4 DEF Remover, EmailProprio
  <1>5. ASSUME NEW o \in Operador, Criar(o), ~UNCHANGED contas PROVE EmailProprio'
    <2>1. /\ EmailLivre(comando[o].email)
          /\ contas' = [i \in DOMAIN contas \cup {criadas + 1} |->
                           IF i = criadas + 1
                           THEN [email |-> comando[o].email, senha |-> senhas + 1]
                           ELSE contas[i]]
      BY <1>5 DEF Criar
    <2>2. \A i \in DOMAIN contas : contas[i].email # comando[o].email /\ i # criadas + 1
      BY <2>1, AcessoAssumption DEF EmailLivre, DoEmail, Tipos, ContasTipo
    <2>3. /\ DOMAIN contas' = DOMAIN contas \cup {criadas + 1}
          /\ contas'[criadas + 1].email = comando[o].email
          /\ \A i \in DOMAIN contas : contas'[i].email = contas[i].email
      BY <2>1, <2>2
    <2> QED
      BY <2>2, <2>3 DEF EmailProprio
  <1>6. ASSUME NEW p \in Pedido, PassoPedido(p) PROVE EmailProprio'
    BY <1>1, <1>2, <1>6, PedidoMuda DEF Entrar, contasVars
  <1>7. ASSUME NEW o \in Operador, PassoComando(o) PROVE EmailProprio'
    BY <1>1, <1>3, <1>4, <1>5, <1>7, ComandoMuda DEF contasVars
  <1>8. CASE Passa \/ UNCHANGED vars
    BY <1>1, <1>8 DEF Passa, vars, contasVars
  <1> QED
    BY <1>6, <1>7, <1>8 DEF Next

\* Every reachable state is well typed, an e-mail belongs to one account, and a row
\* about to be written exists and is held by one transaction (invariant TypeOK of
\* the run; migration 00002, admin_store.go's SELECT ... FOR UPDATE).
THEOREM TipoDoAcesso == Spec => []TypeOK
  <1>1. Init => Tipos /\ LimiteInv /\ Encadeado /\ EmailProprio
    <2>1. Init => EmailProprio
      BY AcessoAssumption DEF Init, EmailProprio
    <2> QED
      BY <2>1, TiposInit, LimiteInicia, EncadeadoInit
  <1>2. Tipos /\ LimiteInv /\ Encadeado /\ EmailProprio /\ [Next]_vars
            => (Tipos /\ LimiteInv /\ Encadeado /\ EmailProprio)'
    BY TiposPasso, LimitePasso, EncadeadoPasso, EmailPasso DEF LimiteInv
  <1>3. Tipos /\ LimiteInv /\ Encadeado /\ EmailProprio => TypeOK
    BY DEF Tipos, ContasTipo, LimiteInv, Carimbos, Encadeado, Travas, EmailProprio, TypeOK
  <1> QED
    BY <1>1, <1>2, <1>3, PTL DEF Spec

-----------------------------------------------------------------------------
(* The last administrator *)

\* A removal about to be confirmed: unless others were committed since the accounts
\* were listed, there is more than one account.
Vistas ==
    \A o \in Operador : comando[o].fase = "confirmar" =>
        /\ comando[o].vistas <= Removidas
        /\ comando[o].vistas = Removidas => Cardinality(DOMAIN contas) > 1

\* What each way of changing the accounts does to their number.
LEMMA ContasMudam ==
    ASSUME Tipos, [Next]_vars
    PROVE  \/ DOMAIN contas' = DOMAIN contas /\ criadas' = criadas
           \/ /\ criadas' = criadas + 1
              /\ Cardinality(DOMAIN contas') = Cardinality(DOMAIN contas) + 1
              /\ DOMAIN contas' # {}
           \/ /\ criadas' = criadas
              /\ Cardinality(DOMAIN contas') = Cardinality(DOMAIN contas) - 1
              /\ \E o \in Operador : PassoComando(o) /\ Remover(o)
  <1> USE DEF Tipos
  <1>1. CASE UNCHANGED contasVars
    BY <1>1 DEF contasVars
  <1>2. ASSUME NEW p \in Pedido, Entrar(p) PROVE DOMAIN contas' = DOMAIN contas /\ criadas' = criadas
    BY <1>2 DEF Entrar
  <1>3. ASSUME NEW p \in Pedido, GravarTroca(p), ~UNCHANGED contasVars
        PROVE  DOMAIN contas' = DOMAIN contas /\ criadas' = criadas
    BY <1>3 DEF GravarTroca
  <1>4. ASSUME NEW o \in Operador, GravarSenha(o)
        PROVE  DOMAIN contas' = DOMAIN contas /\ criadas' = criadas
    BY <1>4 DEF GravarSenha
  <1>5. ASSUME NEW o \in Operador, Criar(o), ~UNCHANGED <<contas, criadas>>
        PROVE  /\ criadas' = criadas + 1
               /\ Cardinality(DOMAIN contas') = Cardinality(DOMAIN contas) + 1
               /\ DOMAIN contas' # {}
    <2>1. DOMAIN contas' = DOMAIN contas \cup {criadas + 1} /\ criadas' = criadas + 1
      BY <1>5 DEF Criar
    <2>2. criadas + 1 \notin DOMAIN contas
      BY AcessoAssumption DEF ContasTipo
    <2> QED
      BY <2>1, <2>2, ContasFinitas, FS_AddElement
  <1>6. ASSUME NEW o \in Operador, Remover(o), PassoComando(o)
        PROVE  \/ DOMAIN contas' = DOMAIN contas /\ criadas' = criadas
               \/ /\ criadas' = criadas
                  /\ Cardinality(DOMAIN contas') = Cardinality(DOMAIN contas) - 1
    <2>1. DOMAIN contas' = DOMAIN contas \ {comando[o].id} /\ criadas' = criadas
      BY <1>6 DEF Remover
    <2>2. CASE comando[o].id \in DOMAIN contas
      BY <2>1, <2>2, ContasFinitas, FS_RemoveElement
    <2>3. CASE comando[o].id \notin DOMAIN contas
      BY <2>1, <2>3
    <2> QED
      BY <2>2, <2>3
  <1>7. ASSUME NEW p \in Pedido, PassoPedido(p)
        PROVE  DOMAIN contas' = DOMAIN contas /\ criadas' = criadas
    BY <1>1, <1>2, <1>3, <1>7, PedidoMuda DEF contasVars
  <1>8. ASSUME NEW o \in Operador, Criar(o), UNCHANGED <<contas, criadas>>
        PROVE  DOMAIN contas' = DOMAIN contas /\ criadas' = criadas
    BY <1>8
  <1>9. ASSUME NEW o \in Operador, PassoComando(o)
        PROVE  \/ DOMAIN contas' = DOMAIN contas /\ criadas' = criadas
               \/ /\ criadas' = criadas + 1
                  /\ Cardinality(DOMAIN contas') = Cardinality(DOMAIN contas) + 1
                  /\ DOMAIN contas' # {}
               \/ /\ criadas' = criadas
                  /\ Cardinality(DOMAIN contas') = Cardinality(DOMAIN contas) - 1
                  /\ Remover(o)
    <2>1. UNCHANGED contasVars \/ Criar(o) \/ GravarSenha(o) \/ Remover(o)
      BY <1>9, ComandoMuda
    <2> QED
      BY <2>1, <1>1, <1>4, <1>5, <1>6, <1>8, <1>9 DEF contasVars
  <1>10. CASE Passa \/ UNCHANGED vars
    BY <1>1, <1>10 DEF Passa, vars, contasVars
  <1> QED
    BY <1>7, <1>9, <1>10 DEF Next

LEMMA VistasPasso ==
    ASSUME Tipos, Vistas, [Next]_vars
    PROVE  Vistas'
  <1>0. /\ Cardinality(DOMAIN contas) \in Nat /\ criadas \in Nat
        /\ \A o \in Operador : comando[o].vistas \in Int
    BY ContasFinitas, AcessoAssumption DEF Tipos, ContasTipo, ComandosTipo, ComandoTipo
  <1>1. ASSUME NEW o \in Operador, comando'[o] = comando[o], comando[o].fase = "confirmar"
        PROVE  /\ comando'[o].vistas <= Removidas'
               /\ comando'[o].vistas = Removidas' => Cardinality(DOMAIN contas') > 1
    <2>1. /\ comando[o].vistas <= Removidas
          /\ comando[o].vistas = Removidas => Cardinality(DOMAIN contas) > 1
      BY <1>1 DEF Vistas
    <2>2. CASE DOMAIN contas' = DOMAIN contas /\ criadas' = criadas
      BY <1>1, <2>1, <2>2 DEF Removidas
    <2>3. CASE criadas' = criadas + 1 /\ Cardinality(DOMAIN contas') = Cardinality(DOMAIN contas) + 1
      BY <1>0, <1>1, <2>1, <2>3 DEF Removidas
    <2>4. CASE criadas' = criadas /\ Cardinality(DOMAIN contas') = Cardinality(DOMAIN contas) - 1
      BY <1>0, <1>1, <2>1, <2>4 DEF Removidas
    <2> QED
      BY <2>2, <2>3, <2>4, ContasMudam
  <1>2. ASSUME NEW o \in Operador, ProcurarParaRemover(o)
        PROVE  /\ comando'[o].vistas <= Removidas'
               /\ comando'[o].vistas = Removidas' => Cardinality(DOMAIN contas') > 1
    <2>1. PICK i \in DOMAIN contas :
             Iniciar(o, [SemComando EXCEPT !.fase = "confirmar", !.id = i, !.vistas = Removidas])
      BY <1>2 DEF ProcurarParaRemover
    <2>2. comando'[o].vistas = Removidas /\ UNCHANGED <<contas, criadas>>
      BY <2>1, SemComandoTipo DEF Iniciar, contasVars, ComandoTipo, Tipos, ComandosTipo
    <2>3. HaOutro /\ Removidas' = Removidas /\ Removidas \in Int
      BY <1>0, <1>2, <2>2 DEF ProcurarParaRemover, Removidas
    <2> QED
      BY <2>2, <2>3 DEF HaOutro
  <1>3. ASSUME NEW o \in Operador, PassoComando(o) PROVE Vistas'
    BY <1>1, <1>2, <1>3, ComandoMuda DEF Vistas
  <1>4. CASE UNCHANGED comando
    BY <1>1, <1>4 DEF Vistas
  <1>5. ASSUME NEW p \in Pedido, PassoPedido(p) PROVE UNCHANGED comando
    BY <1>5, PedidoMuda
  <1>6. CASE Passa \/ UNCHANGED vars
    BY <1>4, <1>6 DEF Passa, vars
  <1> QED
    BY <1>3, <1>4, <1>5, <1>6 DEF Next

LEMMA UltimoPasso ==
    ASSUME Tipos, Vistas, [Next]_vars, DOMAIN contas # {}, DOMAIN contas' = {}
    PROVE  \E o \in Operador : /\ comando[o].fase = "confirmar" /\ comando'[o].fase = "livre"
                               /\ Removidas # comando[o].vistas
  <1>1. Cardinality(DOMAIN contas') = 0
    BY FS_EmptySet
  <1>2. PICK o \in Operador : /\ PassoComando(o) /\ Remover(o)
                              /\ Cardinality(DOMAIN contas') = Cardinality(DOMAIN contas) - 1
    BY ContasMudam
  <1>3. Cardinality(DOMAIN contas) = 1
    BY <1>1, <1>2, ContasFinitas DEF Tipos
  <1>4. comando[o].fase = "confirmar" /\ comando'[o].fase = "livre"
    BY <1>2, SemComandoTipo DEF Remover, Terminar, Tipos, ComandosTipo
  <1> QED
    BY <1>3, <1>4 DEF Vistas

\* The table of administrators is emptied only by a removal whose list is older
\* than another removal (property of the run; cmd/admin/main.go:298-327).
THEOREM UltimoFica == Spec => UltimoAdminFica
  <1>1. Init => Tipos /\ LimiteInv /\ Vistas
    <2>1. Init => Vistas
      BY SemComandoTipo DEF Init, Vistas
    <2> QED
      BY <2>1, TiposInit, LimiteInicia
  <1>2. Tipos /\ LimiteInv /\ Vistas /\ [Next]_vars => (Tipos /\ LimiteInv /\ Vistas)'
    BY TiposPasso, LimitePasso, VistasPasso DEF LimiteInv
  <1>3. Tipos /\ Vistas /\ [Next]_vars
          => (DOMAIN contas # {} /\ DOMAIN contas' = {}
                => \E o \in Operador : /\ comando[o].fase = "confirmar" /\ comando'[o].fase = "livre"
                                       /\ Removidas # comando[o].vistas)
    BY UltimoPasso
  <1> QED
    BY <1>1, <1>2, <1>3, PTL DEF Spec, UltimoAdminFica

=============================================================================
