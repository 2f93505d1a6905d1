------------------- MODULE ProcessadorPlanejamento_proofs -------------------
(* Theorems about the processor, for every value of its constants: what holds *)
(* whoever calls it and whenever, that it implements RegistroExecucao, and    *)
(* what holds under the schedule of the cron.                                 *)
EXTENDS ProcessadorRegistro, ProcessadorPontual, TLAPS

\* The caller hangs up before the claim it took can lapse: 55 seconds against
\* five minutes in production.
PrazoMenorQueBloqueio == DuracaoChamada < DuracaoBloqueio

\* The backoff is at least the first interval and at most the cap.
LEMMA IntervaloRetryLimitado ==
    ASSUME NEW n
    PROVE  IntervaloRetry(n) \in IntervaloRetryInicial..IntervaloRetryMaximo
  BY ConfiguracaoAssumption DEF IntervaloRetry

-----------------------------------------------------------------------------
(* Types *)

LEMMA TipoInit == Init => TypeOK
  BY ConfiguracaoAssumption
  DEF Init, TypeOK, Execucao, SemExecucao, Status, Terminal, Instante, Nulo, ComClaim

LEMMA TipoPasso ==
    ASSUME TypeOK, NEW c \in Chamada, Passo(c)
    PROVE  TypeOK'
  <1> USE ConfiguracaoAssumption DEF TypeOK, tabelas, locais, ComClaim, Terminal
  <1>1. CASE Chamar(c)
    BY <1>1 DEF Chamar
  <1>2. CASE Listar(c)
    BY <1>2 DEF Listar
  <1>3. CASE Ler(c)
    BY <1>3 DEF Ler
  <1>4. CASE Gravar(c)
    BY <1>4 DEF Gravar
  <1>5. CASE GravarJaExiste(c)
    BY <1>5 DEF GravarJaExiste
  <1>6. CASE Finalizar(c)
    <2>1. Finalizada(alvo[c], resultado[c]) \in Execucao
      BY <1>6 DEF Finalizar, Finalizada, Encerrada, Execucao, Status, Instante, Nulo
    <2>2. execucao' \in [Chave -> Execucao]
      BY <1>6, <2>1 DEF Finalizar
    <2> QED
      BY <1>6, <2>2 DEF Finalizar, ProximoCandidato
  <1>7. CASE Falhar(c)
    <2>1. Falhada(alvo[c], agora[c], tentativa[c]) \in Execucao
      BY <1>7, IntervaloRetryLimitado DEF Falhar, Falhada, Encerrada, Execucao, Status, Instante, Nulo
    <2>2. execucao' \in [Chave -> Execucao]
      BY <1>7, <2>1 DEF Falhar
    <2> QED
      BY <1>7, <2>2 DEF Falhar, ProximoCandidato
  <1>9. CASE Retornar(c)
    BY <1>9 DEF Retornar, Encerra
  <1>10. ASSUME NEW k \in Chave, Adquirir(c, k) PROVE TypeOK'
    <2>1. Iniciada(k, agora[c]) \in Execucao
      BY DEF Iniciada, Execucao, Status, Instante, Nulo
    <2>2. execucao' \in [Chave -> Execucao]
      BY <1>10, <2>1 DEF Adquirir
    <2>3. execucao[k].tentativas \in Nat
      BY DEF Execucao
    <2> QED
      BY <1>10, <2>2, <2>3 DEF Adquirir
  <1>11. ASSUME NEW k \in Chave, Recusar(c, k) PROVE TypeOK'
    BY <1>11 DEF Recusar
  <1> QED
    BY <1>1, <1>2, <1>3, <1>4, <1>5, <1>6, <1>7, <1>9, <1>10, <1>11 DEF Passo

LEMMA TipoFalha ==
    ASSUME TypeOK, NEW c \in Chamada, Falha(c)
    PROVE  TypeOK'
  <1> USE DEF TypeOK, tabelas, locais, ComClaim, Terminal
  <1>1. CASE PlanejarErro(c)
    BY <1>1 DEF PlanejarErro
  <1>2. CASE EncerrarErro(c)
    BY <1>2 DEF EncerrarErro, ProximoCandidato
  <1>3. CASE Interromper(c)
    BY <1>3 DEF Interromper, Encerra
  <1>4. ASSUME NEW k \in Chave, IniciarErro(c, k) PROVE TypeOK'
    BY <1>4 DEF IniciarErro
  <1>5. CASE GravarSemResposta(c)
    BY <1>5 DEF GravarSemResposta
  <1> QED
    BY <1>1, <1>2, <1>3, <1>4, <1>5 DEF Falha

LEMMA TipoNext == TypeOK /\ [Next]_vars => TypeOK'
  <1> SUFFICES ASSUME TypeOK, [Next]_vars PROVE TypeOK'
    OBVIOUS
  <1>1. CASE Tick
    BY <1>1 DEF Tick, TypeOK, tabelas, locais
  <1>2. CASE Passageiros
    BY <1>2 DEF Passageiros, CriarReserva, CancelarReservas, TypeOK, locais
  <1>3. CASE \E c \in Chamada : Passo(c) \/ Falha(c)
    BY <1>3, TipoPasso, TipoFalha
  <1>4. CASE UNCHANGED vars
    BY <1>4 DEF vars, tabelas, locais, TypeOK
  <1> QED
    BY <1>1, <1>2, <1>3, <1>4 DEF Next

\* Type correctness, whatever the constants: every row a call writes is a row
\* of the table, and a call that plans has a key.
THEOREM TipoCorreto == Spec => []TypeOK
  BY TipoInit, TipoNext, PTL DEF Spec

-----------------------------------------------------------------------------
(* Exclusion *)

\* The instants of the calls are past, and a claim lasts DuracaoBloqueio.
Instantes ==
    /\ \A c \in Chamada : agora[c] <= relogio
    /\ \A k \in Chave : execucao[k].status = "processando" =>
          execucao[k].bloqueioExpiraEm = execucao[k].iniciadoEm + DuracaoBloqueio

\* Inductive invariant: a live call owns the current claim of its key, and so
\* two of them own different keys.
ClaimInv == TypeOK /\ Instantes /\ ClaimVivo /\ ExclusaoPorChave

LEMMA ClaimInit == Init => ClaimInv
  <1> SUFFICES ASSUME Init PROVE Instantes /\ ClaimVivo /\ ExclusaoPorChave
    BY TipoInit DEF ClaimInv
  <1> QED
    BY DEF Init, Instantes, ClaimVivo, ExclusaoPorChave, Planejando, ComClaim, SemExecucao

\* What a call says of its claim, and whether it still does.
Conserva(d) ==
    /\ pc'[d] \in ComClaim => pc[d] \in ComClaim
    /\ pc'[d] \in ComClaim => /\ agora'[d] = agora[d]
                              /\ alvo'[d] = alvo[d]
                              /\ tentativa'[d] = tentativa[d]

\* A call that keeps its claim, while no clock goes back, is as live after the
\* step only if it was before.
LEMMA ConservaPlanejando ==
    ASSUME TypeOK, TypeOK', relogio' >= relogio, NEW d \in Chamada, Conserva(d),
           Planejando(d)'
    PROVE  /\ Planejando(d)
           /\ agora'[d] = agora[d] /\ alvo'[d] = alvo[d] /\ tentativa'[d] = tentativa[d]
           /\ alvo[d] \in Chave
  <1>1. pc'[d] \in ComClaim /\ relogio' <= agora'[d] + DuracaoChamada
    BY DEF Planejando, NoPrazo
  <1>2. /\ pc[d] \in ComClaim
        /\ agora'[d] = agora[d] /\ alvo'[d] = alvo[d] /\ tentativa'[d] = tentativa[d]
    BY <1>1 DEF Conserva
  <1>3. relogio \in Nat /\ relogio' \in Nat /\ agora[d] \in Nat
    BY DEF TypeOK
  <1>4. relogio <= agora[d] + DuracaoChamada
    BY <1>1, <1>2, <1>3, ConfiguracaoAssumption
  <1>5. alvo[d] \in Chave
    BY <1>2 DEF TypeOK
  <1> QED
    BY <1>2, <1>4, <1>5 DEF Planejando, NoPrazo

\* Steps in which every call keeps or drops its claim.
LEMMA PassoConserva ==
    ASSUME ClaimInv, TypeOK', relogio' >= relogio,
           \A d \in Chamada : Conserva(d),
           \A d \in Chamada : Planejando(d)' => execucao'[alvo[d]] = execucao[alvo[d]]
    PROVE  ClaimVivo' /\ ExclusaoPorChave'
  <1>1. ClaimVivo'
    <2> SUFFICES ASSUME NEW d \in Chamada, Planejando(d)'
                 PROVE  /\ execucao'[alvo'[d]].status = "processando"
                        /\ execucao'[alvo'[d]].tentativas = tentativa'[d]
                        /\ execucao'[alvo'[d]].iniciadoEm = agora'[d]
      BY DEF ClaimVivo
    <2> QED
      BY ConservaPlanejando DEF ClaimInv, ClaimVivo
  <1>2. ExclusaoPorChave'
    <2> SUFFICES ASSUME NEW c \in Chamada, NEW d \in Chamada,
                        Planejando(c)', Planejando(d)', alvo'[c] = alvo'[d]
                 PROVE  c = d
      BY DEF ExclusaoPorChave
    <2> QED
      BY ConservaPlanejando DEF ClaimInv, ExclusaoPorChave
  <1> QED
    BY <1>1, <1>2

\* A claim whose call is live has not lapsed: nobody else can take its key.
LEMMA ClaimNaoExpirou ==
    ASSUME PrazoMenorQueBloqueio, ClaimInv,
           NEW c \in Chamada, NEW d \in Chamada, Planejando(d),
           PodeIniciar(alvo[d], agora[c])
    PROVE  FALSE
  <1>1. alvo[d] \in Chave /\ agora[c] \in Nat /\ agora[d] \in Nat /\ relogio \in Nat
    BY DEF ClaimInv, TypeOK, Planejando
  <1>2. /\ execucao[alvo[d]].status = "processando"
        /\ execucao[alvo[d]].bloqueioExpiraEm = agora[d] + DuracaoBloqueio
    BY <1>1 DEF ClaimInv, ClaimVivo, Instantes
  <1>3. agora[d] + DuracaoBloqueio <= agora[c]
    BY <1>2 DEF PodeIniciar
  <1>4. agora[c] <= relogio /\ relogio <= agora[d] + DuracaoChamada
    BY DEF ClaimInv, Instantes, Planejando, NoPrazo
  <1> QED
    BY <1>1, <1>3, <1>4, ConfiguracaoAssumption DEF PrazoMenorQueBloqueio

\* Claims of the other calls are on other keys, so taking k disturbs none.
LEMMA AdquirirClaim ==
    ASSUME PrazoMenorQueBloqueio, ClaimInv, TypeOK',
           NEW c \in Chamada, NEW k \in Chave, Adquirir(c, k)
    PROVE  ClaimVivo' /\ ExclusaoPorChave'
  <1>1. /\ pc' = [pc EXCEPT ![c] = "ler"]
        /\ alvo' = [alvo EXCEPT ![c] = k]
        /\ tentativa' = [tentativa EXCEPT ![c] = execucao[k].tentativas + 1]
        /\ execucao' = [execucao EXCEPT ![k] = Iniciada(k, agora[c])]
        /\ PodeIniciar(k, agora[c])
        /\ relogio' = relogio /\ agora' = agora
    BY DEF Adquirir
  <1>2. TypeOK
    BY DEF ClaimInv
  <1>3. ASSUME NEW d \in Chamada, d # c, Planejando(d)'
        PROVE  /\ Planejando(d) /\ alvo'[d] = alvo[d] /\ tentativa'[d] = tentativa[d]
               /\ alvo[d] \in Chave /\ alvo[d] # k
    <2>1. pc'[d] = pc[d] /\ alvo'[d] = alvo[d] /\ tentativa'[d] = tentativa[d]
      BY <1>1, <1>2, <1>3 DEF TypeOK
    <2>2. Planejando(d)
      BY <1>1, <1>3, <2>1 DEF Planejando, NoPrazo
    <2>3. alvo[d] \in Chave
      BY <1>2, <2>2 DEF TypeOK, Planejando
    <2>4. alvo[d] # k
      BY <1>1, <2>2, ClaimNaoExpirou
    <2> QED
      BY <2>1, <2>2, <2>3, <2>4
  <1>4. ClaimVivo'
    <2> SUFFICES ASSUME NEW d \in Chamada, Planejando(d)'
                 PROVE  /\ execucao'[alvo'[d]].status = "processando"
                        /\ execucao'[alvo'[d]].tentativas = tentativa'[d]
                        /\ execucao'[alvo'[d]].iniciadoEm = agora'[d]
      BY DEF ClaimVivo
    <2>1. CASE d = c
      <3>1. alvo'[c] = k /\ tentativa'[c] = execucao[k].tentativas + 1
        BY <1>1, <1>2 DEF TypeOK
      <3>2. execucao'[k] = Iniciada(k, agora[c])
        BY <1>1, <1>2 DEF TypeOK
      <3> QED
        BY <1>1, <2>1, <3>1, <3>2 DEF Iniciada
    <2>2. CASE d # c
      <3>1. execucao'[alvo[d]] = execucao[alvo[d]]
        BY <1>1, <1>2, <1>3, <2>2 DEF TypeOK
      <3> QED
        BY <1>1, <1>3, <2>2, <3>1 DEF ClaimInv, ClaimVivo
    <2> QED
      BY <2>1, <2>2
  <1>5. ExclusaoPorChave'
    <2> SUFFICES ASSUME NEW d \in Chamada, NEW e \in Chamada,
                        Planejando(d)', Planejando(e)', alvo'[d] = alvo'[e], d # e
                 PROVE  FALSE
      BY DEF ExclusaoPorChave
    <2>1. alvo'[c] = k
      BY <1>1, <1>2 DEF TypeOK
    <2>2. CASE d = c
      BY <1>3, <2>1, <2>2
    <2>3. CASE e = c
      BY <1>3, <2>1, <2>3
    <2>4. CASE d # c /\ e # c
      BY <1>3, <2>4 DEF ClaimInv, ExclusaoPorChave
    <2> QED
      BY <2>2, <2>3, <2>4
  <1> QED
    BY <1>4, <1>5

\* A call that ends its key gives up the claim and touches no other row.
LEMMA EncerrarClaim ==
    ASSUME ClaimInv, TypeOK', NEW c \in Chamada, NEW linha,
           Planejando(c), relogio' = relogio,
           execucao' = [execucao EXCEPT ![alvo[c]] = linha],
           ProximoCandidato(c)
    PROVE  ClaimVivo' /\ ExclusaoPorChave'
  <1>1. TypeOK
    BY DEF ClaimInv
  <1>2. ASSUME NEW d \in Chamada PROVE Conserva(d)
    BY <1>1 DEF TypeOK, ProximoCandidato, Conserva, ComClaim
  <1>3. ASSUME NEW d \in Chamada, Planejando(d)'
        PROVE  execucao'[alvo[d]] = execucao[alvo[d]]
    <2>0. relogio' >= relogio
      BY <1>1 DEF TypeOK
    <2>1. Planejando(d) /\ alvo[d] \in Chave
      BY <1>1, <1>2, <1>3, <2>0, ConservaPlanejando
    <2>2. d # c
      BY <1>1, <1>3 DEF TypeOK, ProximoCandidato, Planejando, ComClaim
    <2>3. alvo[d] # alvo[c]
      BY <2>1, <2>2 DEF ClaimInv, ExclusaoPorChave
    <2> QED
      BY <1>1, <2>1, <2>3 DEF TypeOK
  <1> QED
    BY <1>1, <1>2, <1>3, PassoConserva DEF TypeOK

LEMMA InstantesPasso ==
    ASSUME ClaimInv, NEW c \in Chamada, Passo(c)
    PROVE  Instantes'
  <1> USE DEF ClaimInv, TypeOK, Instantes, tabelas, locais
  <1>1. CASE Chamar(c)
    BY <1>1 DEF Chamar
  <1>2. CASE Listar(c)
    BY <1>2 DEF Listar
  <1>3. CASE Ler(c)
    BY <1>3 DEF Ler
  <1>4. CASE Gravar(c)
    BY <1>4 DEF Gravar
  <1>5. CASE GravarJaExiste(c)
    BY <1>5 DEF GravarJaExiste
  <1>6. CASE Finalizar(c)
    BY <1>6 DEF Finalizar, ProximoCandidato, Finalizada, Encerrada, Terminal
  <1>7. CASE Falhar(c)
    BY <1>7 DEF Falhar, ProximoCandidato, Falhada, Encerrada
  <1>9. CASE Retornar(c)
    BY <1>9 DEF Retornar, Encerra
  <1>10. ASSUME NEW k \in Chave, Adquirir(c, k) PROVE Instantes'
    BY <1>10 DEF Adquirir, Iniciada
  <1>11. ASSUME NEW k \in Chave, Recusar(c, k) PROVE Instantes'
    BY <1>11 DEF Recusar
  <1> QED
    BY <1>1, <1>2, <1>3, <1>4, <1>5, <1>6, <1>7, <1>9, <1>10, <1>11 DEF Passo

LEMMA InstantesFalha ==
    ASSUME ClaimInv, NEW c \in Chamada, Falha(c)
    PROVE  Instantes'
  <1> USE DEF ClaimInv, TypeOK, Instantes, tabelas, locais
  <1>1. CASE PlanejarErro(c)
    BY <1>1 DEF PlanejarErro
  <1>2. CASE EncerrarErro(c)
    BY <1>2 DEF EncerrarErro, ProximoCandidato
  <1>3. CASE Interromper(c)
    BY <1>3 DEF Interromper, Encerra
  <1>4. ASSUME NEW k \in Chave, IniciarErro(c, k) PROVE Instantes'
    BY <1>4 DEF IniciarErro
  <1>5. CASE GravarSemResposta(c)
    BY <1>5 DEF GravarSemResposta
  <1> QED
    BY <1>1, <1>2, <1>3, <1>4, <1>5 DEF Falha

\* Steps that touch no row of the ledger and take no claim.
LEMMA SemLinhaClaim ==
    ASSUME ClaimInv, TypeOK', relogio' >= relogio, execucao' = execucao,
           \A d \in Chamada : Conserva(d)
    PROVE  ClaimVivo' /\ ExclusaoPorChave'
  BY PassoConserva

LEMMA ClaimPasso ==
    ASSUME PrazoMenorQueBloqueio, ClaimInv, TypeOK', NEW c \in Chamada, Passo(c)
    PROVE  ClaimVivo' /\ ExclusaoPorChave'
  <1> USE DEF TypeOK, Conserva, ComClaim, tabelas, locais
  <1>0. TypeOK
    BY DEF ClaimInv
  <1>1. CASE Chamar(c)
    BY <1>0, <1>1, SemLinhaClaim DEF Chamar
  <1>2. CASE Listar(c)
    BY <1>0, <1>2, SemLinhaClaim DEF Listar
  <1>3. CASE Ler(c)
    BY <1>0, <1>3, SemLinhaClaim DEF Ler
  <1>4. CASE Gravar(c)
    BY <1>0, <1>4, SemLinhaClaim DEF Gravar
  <1>5. CASE GravarJaExiste(c)
    BY <1>0, <1>5, SemLinhaClaim DEF GravarJaExiste
  <1>6. CASE Finalizar(c)
    BY <1>6, EncerrarClaim DEF Finalizar, Planejando
  <1>7. CASE Falhar(c)
    BY <1>7, EncerrarClaim DEF Falhar, Planejando
  <1>9. CASE Retornar(c)
    BY <1>0, <1>9, SemLinhaClaim DEF Retornar, Encerra
  <1>10. ASSUME NEW k \in Chave, Adquirir(c, k) PROVE ClaimVivo' /\ ExclusaoPorChave'
    BY <1>10, AdquirirClaim
  <1>11. ASSUME NEW k \in Chave, Recusar(c, k) PROVE ClaimVivo' /\ ExclusaoPorChave'
    BY <1>0, <1>11, SemLinhaClaim DEF Recusar
  <1> QED
    BY <1>1, <1>2, <1>3, <1>4, <1>5, <1>6, <1>7, <1>9, <1>10, <1>11 DEF Passo

LEMMA ClaimFalha ==
    ASSUME ClaimInv, TypeOK', NEW c \in Chamada, Falha(c)
    PROVE  ClaimVivo' /\ ExclusaoPorChave'
  <1> USE DEF TypeOK, Conserva, ComClaim, tabelas, locais
  <1>0. TypeOK
    BY DEF ClaimInv
  <1>1. CASE PlanejarErro(c)
    BY <1>0, <1>1, SemLinhaClaim DEF PlanejarErro
  <1>2. CASE EncerrarErro(c)
    BY <1>0, <1>2, SemLinhaClaim DEF EncerrarErro, ProximoCandidato
  <1>3. CASE Interromper(c)
    BY <1>0, <1>3, SemLinhaClaim DEF Interromper, Encerra
  <1>4. ASSUME NEW k \in Chave, IniciarErro(c, k) PROVE ClaimVivo' /\ ExclusaoPorChave'
    BY <1>0, <1>4, SemLinhaClaim DEF IniciarErro
  <1>5. CASE GravarSemResposta(c)
    BY <1>0, <1>5, SemLinhaClaim DEF GravarSemResposta
  <1> QED
    BY <1>1, <1>2, <1>3, <1>4, <1>5 DEF Falha

LEMMA ClaimNext ==
    ASSUME PrazoMenorQueBloqueio, ClaimInv, [Next]_vars
    PROVE  ClaimInv'
  <1> USE DEF ClaimInv
  <1>1. TypeOK'
    BY TipoNext
  <1>2. CASE Tick
    <2>1. Instantes'
      BY <1>2 DEF Tick, TypeOK, Instantes, tabelas, locais
    <2>2. ClaimVivo' /\ ExclusaoPorChave'
      BY <1>1, <1>2, SemLinhaClaim DEF Tick, TypeOK, Conserva, tabelas, locais
    <2> QED
      BY <1>1, <2>1, <2>2
  <1>3. CASE Passageiros
    <2>1. UNCHANGED <<relogio, execucao, pc, locais>>
      BY <1>3 DEF Passageiros, CriarReserva, CancelarReservas
    <2>2. Instantes'
      BY <2>1 DEF Instantes, locais
    <2>3. ClaimVivo' /\ ExclusaoPorChave'
      BY <1>1, <2>1, SemLinhaClaim DEF TypeOK, Conserva, locais
    <2> QED
      BY <1>1, <2>2, <2>3
  <1>4. ASSUME NEW c \in Chamada, Passo(c) PROVE ClaimInv'
    BY <1>1, <1>4, InstantesPasso, ClaimPasso
  <1>5. ASSUME NEW c \in Chamada, Falha(c) PROVE ClaimInv'
    BY <1>1, <1>5, InstantesFalha, ClaimFalha
  <1>6. CASE UNCHANGED vars
    <2>1. Instantes'
      BY <1>6 DEF vars, tabelas, locais, Instantes
    <2>2. ClaimVivo' /\ ExclusaoPorChave'
      BY <1>1, <1>6, SemLinhaClaim DEF vars, tabelas, locais, TypeOK, Conserva
    <2> QED
      BY <1>1, <2>1, <2>2
  <1> QED
    BY <1>2, <1>3, <1>4, <1>5, <1>6 DEF Next

LEMMA ClaimSempre ==
    ASSUME PrazoMenorQueBloqueio
    PROVE  Spec => []ClaimInv
  <1>1. ClaimInv /\ [Next]_vars => ClaimInv'
    BY ClaimNext
  <1> QED
    BY <1>1, ClaimInit, PTL DEF Spec

\* Two calls never plan the same key at the same time, for any number of keys
\* and calls and any interleaving, crashes included, provided that the caller
\* hangs up before a claim lapses.
THEOREM Exclusao ==
    ASSUME PrazoMenorQueBloqueio
    PROVE  Spec => []ExclusaoPorChave
  BY ClaimSempre, PTL DEF ClaimInv

\* Under the same proviso a call that can still end its key holds the claim the
\* row carries.
THEOREM ClaimSempreVivo ==
    ASSUME PrazoMenorQueBloqueio
    PROVE  Spec => []ClaimVivo
  BY ClaimSempre, PTL DEF ClaimInv

\* Finalizar and Falhar, the only steps that end a row, end that of their claim.
LEMMA EncerraProprioNext ==
    ASSUME ClaimInv, [Next]_vars
    PROVE  EncerraProprio
  <1>0. TypeOK
    BY DEF ClaimInv
  <1> SUFFICES ASSUME NEW k \in Chave, execucao[k].status = "processando",
                      execucao'[k].status # "processando"
               PROVE  \E c \in Chamada : /\ pc[c] \in {"finalizar", "falhar"}
                                         /\ alvo[c] = k
                                         /\ tentativa[c] = execucao[k].tentativas
    BY DEF EncerraProprio
  <1>1. execucao' # execucao
    OBVIOUS
  <1>2. ASSUME NEW c \in Chamada, Finalizar(c) \/ Falhar(c)
        PROVE  /\ pc[c] \in {"finalizar", "falhar"}
               /\ alvo[c] = k
               /\ tentativa[c] = execucao[k].tentativas
    <2>1. Planejando(c) /\ pc[c] \in {"finalizar", "falhar"}
      BY <1>2 DEF Finalizar, Falhar, Planejando, ComClaim
    <2>2. alvo[c] = k
      BY <1>0, <1>2 DEF Finalizar, Falhar, TypeOK
    <2> QED
      BY <2>1, <2>2 DEF ClaimInv, ClaimVivo
  <1>3. ASSUME NEW c \in Chamada, NEW j \in Chave, Adquirir(c, j) PROVE FALSE
    BY <1>0, <1>3 DEF Adquirir, Iniciada, TypeOK
  <1>4. CASE Tick \/ Passageiros \/ UNCHANGED vars
    BY <1>1, <1>4 DEF Tick, Passageiros, CriarReserva, CancelarReservas, vars, tabelas
  <1>5. ASSUME NEW c \in Chamada, Falha(c) PROVE FALSE
    BY <1>1, <1>5 DEF Falha, PlanejarErro, GravarSemResposta, EncerrarErro, Interromper, IniciarErro,
                      ProximoCandidato, Encerra, tabelas
  <1>6. ASSUME NEW c \in Chamada, Passo(c)
        PROVE  Finalizar(c) \/ Falhar(c)
    BY <1>1, <1>3, <1>6 DEF Passo, Chamar, Listar, Ler, Gravar, GravarJaExiste,
                            Retornar, Recusar,
                            ProximoCandidato, Encerra, tabelas
  <1> QED
    BY <1>2, <1>4, <1>5, <1>6 DEF Next

\* Under the same proviso no call ends a row that a later claim has taken over.
THEOREM EncerramentoProprio ==
    ASSUME PrazoMenorQueBloqueio
    PROVE  Spec => EncerraProprioClaim
  <1>1. ClaimInv /\ [Next]_vars => [EncerraProprio]_vars
    BY EncerraProprioNext
  <1> QED
    BY <1>1, ClaimSempre, PTL DEF Spec, EncerraProprioClaim
-----------------------------------------------------------------------------
(* The rows of the ledger *)

\* Which steps touch a row of the ledger, and how.
LEMMA PassoDaLinha ==
    ASSUME TypeOK, [Next]_vars
    PROVE  \/ execucao' = execucao
           \/ \E c \in Chamada, k \in Chave :
                 /\ agora[c] \in Nat /\ PodeIniciar(k, agora[c])
                 /\ execucao' = [execucao EXCEPT ![k] = Iniciada(k, agora[c])]
           \/ \E c \in Chamada :
                 /\ alvo[c] \in Chave /\ execucao[alvo[c]].status = "processando"
                 /\ resultado[c] \in Terminal
                 /\ execucao' = [execucao EXCEPT ![alvo[c]] = Finalizada(alvo[c], resultado[c])]
           \/ \E c \in Chamada :
                 /\ alvo[c] \in Chave /\ execucao[alvo[c]].status = "processando"
                 /\ execucao' = [execucao EXCEPT ![alvo[c]] =
                                    Falhada(alvo[c], agora[c], tentativa[c])]
  <1>1. CASE Tick \/ Passageiros \/ UNCHANGED vars
    BY <1>1 DEF Tick, Passageiros, CriarReserva, CancelarReservas, vars, tabelas
  <1>2. ASSUME NEW c \in Chamada, Falha(c) PROVE execucao' = execucao
    BY <1>2 DEF Falha, PlanejarErro, GravarSemResposta, EncerrarErro, Interromper, IniciarErro,
                ProximoCandidato, Encerra, tabelas
  <1>3. ASSUME NEW c \in Chamada, Passo(c), execucao' # execucao
        PROVE  Finalizar(c) \/ Falhar(c) \/ \E k \in Chave : Adquirir(c, k)
    BY <1>3 DEF Passo, Chamar, Listar, Ler, Gravar, GravarJaExiste, Retornar, Recusar,
                ProximoCandidato, Encerra, tabelas
  <1>4. ASSUME NEW c \in Chamada, NEW k \in Chave, Adquirir(c, k)
        PROVE  /\ agora[c] \in Nat /\ PodeIniciar(k, agora[c])
               /\ execucao' = [execucao EXCEPT ![k] = Iniciada(k, agora[c])]
    BY <1>4 DEF Adquirir, TypeOK
  <1>5. ASSUME NEW c \in Chamada, Finalizar(c)
        PROVE  /\ alvo[c] \in Chave /\ execucao[alvo[c]].status = "processando"
               /\ resultado[c] \in Terminal
               /\ execucao' = [execucao EXCEPT ![alvo[c]] = Finalizada(alvo[c], resultado[c])]
    BY <1>5 DEF Finalizar, TypeOK, ComClaim
  <1>6. ASSUME NEW c \in Chamada, Falhar(c)
        PROVE  /\ alvo[c] \in Chave /\ execucao[alvo[c]].status = "processando"
               /\ execucao' = [execucao EXCEPT ![alvo[c]] =
                                  Falhada(alvo[c], agora[c], tentativa[c])]
    BY <1>6 DEF Falhar, TypeOK, ComClaim
  <1>7. CASE \E c \in Chamada : Passo(c)
    BY <1>3, <1>4, <1>5, <1>6, <1>7
  <1> QED
    BY <1>1, <1>2, <1>7 DEF Next

\* What chk_execucoes_planejamento_estado says of one row.
LinhaValida(e) ==
    \/ e = SemExecucao
    \/ /\ e.status = "processando" /\ ~e.ultimoErro
       /\ e.bloqueioExpiraEm > e.iniciadoEm
       /\ e.proximaTentativaEm = Nulo /\ e.finalizadoEm = Nulo
       /\ e.tentativas > 0
    \/ /\ e.status \in Terminal /\ ~e.ultimoErro
       /\ e.bloqueioExpiraEm = Nulo /\ e.proximaTentativaEm = Nulo
       /\ e.finalizadoEm # Nulo /\ e.tentativas > 0
    \/ /\ e.status = "falhou" /\ e.ultimoErro
       /\ e.bloqueioExpiraEm = Nulo /\ e.finalizadoEm # Nulo
       /\ e.proximaTentativaEm > e.finalizadoEm /\ e.tentativas > 0

LEMMA EstadoPorLinha == EstadoExecucao <=> \A k \in Chave : LinhaValida(execucao[k])
  BY DEF EstadoExecucao, LinhaValida

\* One valid row in the place of another keeps the ledger valid.
LEMMA TrocaLinha ==
    ASSUME TypeOK, EstadoExecucao, NEW k \in Chave, NEW linha, LinhaValida(linha),
           execucao' = [execucao EXCEPT ![k] = linha]
    PROVE  EstadoExecucao'
  <1>1. \A j \in Chave : LinhaValida(execucao[j])
    BY EstadoPorLinha
  <1>2. \A j \in Chave : execucao'[j] = IF j = k THEN linha ELSE execucao[j]
    BY DEF TypeOK
  <1>3. \A j \in Chave : LinhaValida(execucao'[j])
    BY <1>1, <1>2
  <1> QED
    BY <1>3 DEF EstadoExecucao, LinhaValida

LEMMA EstadoNext ==
    ASSUME TypeOK, EstadoExecucao, [Next]_vars
    PROVE  EstadoExecucao'
  <1>1. CASE execucao' = execucao
    BY <1>1 DEF EstadoExecucao
  <1>2. ASSUME NEW c \in Chamada, NEW k \in Chave, agora[c] \in Nat,
               execucao' = [execucao EXCEPT ![k] = Iniciada(k, agora[c])]
        PROVE  EstadoExecucao'
    <2>1. execucao[k].tentativas \in Nat
      BY DEF TypeOK, Execucao
    <2>2. LinhaValida(Iniciada(k, agora[c]))
      BY <1>2, <2>1, ConfiguracaoAssumption DEF LinhaValida, Iniciada
    <2> QED
      BY <1>2, <2>2, TrocaLinha
  <1>3. ASSUME NEW k \in Chave, execucao[k].status = "processando"
        PROVE  execucao[k].tentativas > 0
    BY <1>3 DEF EstadoExecucao, SemExecucao, Terminal
  <1>4. ASSUME NEW c \in Chamada, alvo[c] \in Chave,
               execucao[alvo[c]].status = "processando", resultado[c] \in Terminal,
               execucao' = [execucao EXCEPT ![alvo[c]] = Finalizada(alvo[c], resultado[c])]
        PROVE  EstadoExecucao'
    <2>1. relogio # Nulo
      BY DEF TypeOK, Nulo
    <2>2. LinhaValida(Finalizada(alvo[c], resultado[c]))
      BY <1>3, <1>4, <2>1 DEF LinhaValida, Finalizada, Encerrada
    <2> QED
      BY <1>4, <2>2, TrocaLinha
  <1>5. ASSUME NEW c \in Chamada, alvo[c] \in Chave,
               execucao[alvo[c]].status = "processando",
               execucao' = [execucao EXCEPT ![alvo[c]] =
                               Falhada(alvo[c], agora[c], tentativa[c])]
        PROVE  EstadoExecucao'
    <2>1. agora[c] \in Nat /\ agora[c] # Nulo
      BY DEF TypeOK, Nulo
    <2>2. agora[c] + IntervaloRetry(tentativa[c]) > agora[c]
      BY <2>1, IntervaloRetryLimitado, ConfiguracaoAssumption
    <2>3. LinhaValida(Falhada(alvo[c], agora[c], tentativa[c]))
      BY <1>3, <1>5, <2>1, <2>2 DEF LinhaValida, Falhada, Encerrada
    <2> QED
      BY <1>5, <2>3, TrocaLinha
  <1> QED
    BY <1>1, <1>2, <1>4, <1>5, PassoDaLinha

\* No write of any call is refused by the constraint of the table, whatever
\* the number of calls, the crashes and the delays: no proviso on the lease.
THEOREM LinhasValidas == Spec => []EstadoExecucao
  <1>1. Init => EstadoExecucao
    BY DEF Init, EstadoExecucao
  <1>2. TypeOK /\ EstadoExecucao /\ [Next]_vars => EstadoExecucao'
    BY EstadoNext
  <1> QED
    BY <1>1, <1>2, TipoCorreto, PTL DEF Spec

\* An execution that ended is final even if calls outlive their claims: the
\* upsert skips it and the UPDATEs ask for 'processando'.
THEOREM EncerradaFica == Spec => TerminalEstavel
  <1>1. TypeOK /\ [Next]_vars =>
           [\A k \in Chave : execucao[k].status \in Terminal => execucao'[k] = execucao[k]]_vars
    <2> SUFFICES ASSUME TypeOK, [Next]_vars, NEW k \in Chave, execucao[k].status \in Terminal
                 PROVE  execucao'[k] = execucao[k]
      OBVIOUS
    <2>1. ASSUME NEW j \in Chave, NEW linha, j # k, execucao' = [execucao EXCEPT ![j] = linha]
          PROVE  execucao'[k] = execucao[k]
      BY <2>1 DEF TypeOK
    <2>2. ASSUME NEW j \in Chave, NEW t, PodeIniciar(j, t) PROVE j # k
      BY <2>2 DEF PodeIniciar, Terminal
    <2>3. ASSUME NEW j \in Chave, execucao[j].status = "processando" PROVE j # k
      BY <2>3 DEF Terminal
    <2> QED
      BY <2>1, <2>2, <2>3, PassoDaLinha
  <1> QED
    BY <1>1, TipoCorreto, PTL DEF Spec, TerminalEstavel

-----------------------------------------------------------------------------
(* A key without demand *)

\* A call that found no demand still finds none when it writes: its key has a
\* row, and a key with a row takes no reserva.
SemDemandaLida ==
    \A c \in Chamada : pc[c] \in ComClaim =>
        /\ execucao[alvo[c]].status # "ausente"
        /\ pc[c] = "finalizar" /\ resultado[c] = "sem_demanda" => ~reservada[alvo[c]]

SemDemandaInv == TypeOK /\ SemDemandaLida /\ SemDemandaSemReserva

LEMMA SemDemandaNext ==
    ASSUME SemDemandaInv, [Next]_vars
    PROVE  SemDemandaInv'
  <1> USE DEF SemDemandaInv
  <1>0. TypeOK'
    BY TipoNext
  <1>1. SemDemandaLida' /\ SemDemandaSemReserva'
    <2> USE <1>0 DEF TypeOK, SemDemandaLida, SemDemandaSemReserva, ComClaim, Terminal, tabelas, locais
    <2>1. CASE Tick
      BY <2>1 DEF Tick
    <2>2. CASE UNCHANGED vars
      BY <2>2 DEF vars
    <2>3. ASSUME NEW k \in Chave, CriarReserva(k) \/ CancelarReservas(k)
          PROVE  SemDemandaLida' /\ SemDemandaSemReserva'
      BY <2>3 DEF CriarReserva, CancelarReservas
    <2>4. ASSUME NEW c \in Chamada, Chamar(c) \/ Listar(c)
          PROVE  SemDemandaLida' /\ SemDemandaSemReserva'
      BY <2>4 DEF Chamar, Listar
    <2>5. ASSUME NEW c \in Chamada, Ler(c)
          PROVE  SemDemandaLida' /\ SemDemandaSemReserva'
      BY <2>5 DEF Ler
    <2>6. ASSUME NEW c \in Chamada, Gravar(c) \/ GravarJaExiste(c)
          PROVE  SemDemandaLida' /\ SemDemandaSemReserva'
      BY <2>6 DEF Gravar, GravarJaExiste
    <2>7. ASSUME NEW c \in Chamada, PlanejarErro(c) \/ GravarSemResposta(c)
          PROVE  SemDemandaLida' /\ SemDemandaSemReserva'
      BY <2>7 DEF PlanejarErro, GravarSemResposta
    <2>8. ASSUME NEW c \in Chamada, Finalizar(c)
          PROVE  SemDemandaLida' /\ SemDemandaSemReserva'
      BY <2>8 DEF Finalizar, Finalizada, Encerrada, ProximoCandidato
    <2>9. ASSUME NEW c \in Chamada, Falhar(c)
          PROVE  SemDemandaLida' /\ SemDemandaSemReserva'
      BY <2>9 DEF Falhar, Falhada, Encerrada, ProximoCandidato
    <2>10. ASSUME NEW c \in Chamada, EncerrarErro(c)
           PROVE  SemDemandaLida' /\ SemDemandaSemReserva'
      BY <2>10 DEF EncerrarErro, ProximoCandidato
    <2>11. ASSUME NEW c \in Chamada, Retornar(c) \/ Interromper(c)
           PROVE  SemDemandaLida' /\ SemDemandaSemReserva'
      BY <2>11 DEF Retornar, Interromper, Encerra
    <2>12. ASSUME NEW c \in Chamada, NEW k \in Chave, Recusar(c, k) \/ IniciarErro(c, k)
           PROVE  SemDemandaLida' /\ SemDemandaSemReserva'
      BY <2>12 DEF Recusar, IniciarErro
    <2>13. ASSUME NEW c \in Chamada, NEW k \in Chave, Adquirir(c, k)
           PROVE  SemDemandaLida' /\ SemDemandaSemReserva'
      BY <2>13 DEF Adquirir, Iniciada
    <2> HIDE DEF TypeOK, SemDemandaLida, SemDemandaSemReserva, ComClaim, Terminal, tabelas, locais
    <2> QED
      BY <2>1, <2>2, <2>3, <2>4, <2>5, <2>6, <2>7, <2>8, <2>9, <2>10, <2>11, <2>12, <2>13
      DEF Next, Passageiros, Passo, Falha
  <1> QED
    BY <1>0, <1>1

\* A key that ended without demand leaves no student behind: the reserva that
\* comes while the key is planned is refused (bloquearSePlanejamentoIniciado),
\* with no proviso on leases and for any number of calls.
THEOREM SemDemandaVerdadeira == Spec => []SemDemandaSemReserva
  <1>1. Init => SemDemandaInv
    BY TipoInit DEF Init, SemDemandaInv, SemDemandaLida, SemDemandaSemReserva, ComClaim, SemExecucao
  <1>2. SemDemandaInv /\ [Next]_vars => SemDemandaInv'
    BY SemDemandaNext
  <1>3. SemDemandaInv => SemDemandaSemReserva
    BY DEF SemDemandaInv
  <1> QED
    BY <1>1, <1>2, <1>3, PTL DEF Spec

-----------------------------------------------------------------------------
(* The spacing of the attempts *)

\* A claim lasts at least as long as the first retry interval: five minutes
\* against one in production.
EsperaMenorQueBloqueio == IntervaloRetryInicial <= DuracaoBloqueio

\* The candidates of a call are keys its instant found due.
CandidatosDevidos ==
    \A c \in Chamada : \A k \in pendentes[c] :
        pc[c] \notin {"ocioso", "listar"} /\ Devida(k, agora[c])

\* No row lets a new attempt start within a first interval of the last one.
EsperaDaLinha ==
    \A k \in Chave : LET e == execucao[k] IN
        /\ e.status = "ausente" => e.tentativas = 0
        /\ e.status = "falhou" => e.iniciadoEm + IntervaloRetryInicial <= e.proximaTentativaEm
        /\ e.status = "processando" =>
              e.iniciadoEm + IntervaloRetryInicial <= e.bloqueioExpiraEm

EspacoInv == TypeOK /\ CandidatosDevidos /\ EsperaDaLinha /\ TentativasEspacadas

LEMMA CandidatosNext ==
    ASSUME TypeOK, CandidatosDevidos, [Next]_vars
    PROVE  CandidatosDevidos'
  <1> USE DEF TypeOK, CandidatosDevidos, tabelas, locais
  <1>1. CASE Tick \/ Passageiros \/ UNCHANGED vars
    BY <1>1 DEF Tick, Passageiros, CriarReserva, CancelarReservas, vars
  <1>2. ASSUME NEW c \in Chamada, Chamar(c) \/ Listar(c) \/ Ler(c) PROVE CandidatosDevidos'
    BY <1>2 DEF Chamar, Listar, Ler
  <1>3. ASSUME NEW c \in Chamada,
               Gravar(c) \/ GravarJaExiste(c) \/ PlanejarErro(c) \/ GravarSemResposta(c)
        PROVE  CandidatosDevidos'
    BY <1>3 DEF Gravar, GravarJaExiste, PlanejarErro, GravarSemResposta
  <1>4. ASSUME NEW c \in Chamada, Finalizar(c) \/ Falhar(c) \/ EncerrarErro(c)
        PROVE  CandidatosDevidos'
    BY <1>4 DEF Finalizar, Falhar, EncerrarErro, ProximoCandidato
  <1>5. ASSUME NEW c \in Chamada, Retornar(c) \/ Interromper(c) PROVE CandidatosDevidos'
    BY <1>5 DEF Retornar, Interromper, Encerra
  <1>6. ASSUME NEW c \in Chamada, NEW k \in Chave,
               Adquirir(c, k) \/ Recusar(c, k) \/ IniciarErro(c, k)
        PROVE  CandidatosDevidos'
    BY <1>6 DEF Adquirir, Recusar, IniciarErro
  <1> HIDE DEF TypeOK, CandidatosDevidos, tabelas, locais
  <1> QED
    BY <1>1, <1>2, <1>3, <1>4, <1>5, <1>6 DEF Next, Passo, Falha

\* A row that may be taken at t started a first interval before t.
LEMMA EsperaCumprida ==
    ASSUME EspacoInv, NEW k \in Chave, NEW t \in Nat, PodeIniciar(k, t), Devida(k, t)
    PROVE  /\ Fechamento(k) + execucao[k].tentativas * IntervaloRetryInicial <= t
           /\ t < Partida[k]
  <1> DEFINE e == execucao[k]
  <1>1. e \in Execucao /\ IntervaloRetryInicial \in Nat /\ Fechamento(k) \in Int
    BY ConfiguracaoAssumption DEF EspacoInv, TypeOK, Fechamento
  <1>2. e.tentativas \in Nat /\ e.iniciadoEm \in Int
    BY <1>1 DEF Execucao, Instante, Nulo
  <1>3. CASE e.status = "ausente"
    <2>1. e.tentativas * IntervaloRetryInicial = 0
      BY <1>1, <1>3 DEF EspacoInv, EsperaDaLinha
    <2> QED
      BY <1>1, <2>1 DEF Devida
  <1>4. CASE e.status # "ausente"
    <2>1. e.iniciadoEm + IntervaloRetryInicial <= t
      <3>1. e.bloqueioExpiraEm \in Int /\ e.proximaTentativaEm \in Int
        BY <1>1 DEF Execucao, Instante, Nulo
      <3> QED
        BY <1>1, <1>2, <1>4, <3>1 DEF PodeIniciar, EspacoInv, EsperaDaLinha
    <2>2. Fechamento(k) + (e.tentativas - 1) * IntervaloRetryInicial <= e.iniciadoEm
      BY <1>4 DEF EspacoInv, TentativasEspacadas
    <2>3. (e.tentativas - 1) * IntervaloRetryInicial + IntervaloRetryInicial
             = e.tentativas * IntervaloRetryInicial
      BY <1>1, <1>2
    <2>4. (e.tentativas - 1) * IntervaloRetryInicial \in Int
      BY <1>1, <1>2
    <2> HIDE DEF e
    <2>5. Fechamento(k) + e.tentativas * IntervaloRetryInicial <= t
      BY <1>1, <1>2, <2>1, <2>2, <2>3, <2>4
    <2> QED
      BY <2>5 DEF Devida, e
  <1> QED
    BY <1>3, <1>4

\* One row that keeps the spacing in the place of another.
LEMMA TrocaEspacada ==
    ASSUME TypeOK, EsperaDaLinha, TentativasEspacadas, NEW k \in Chave, NEW linha,
           execucao' = [execucao EXCEPT ![k] = linha],
           linha.status # "ausente",
           linha.status = "falhou" =>
              linha.iniciadoEm + IntervaloRetryInicial <= linha.proximaTentativaEm,
           linha.status = "processando" =>
              linha.iniciadoEm + IntervaloRetryInicial <= linha.bloqueioExpiraEm,
           Fechamento(k) + (linha.tentativas - 1) * IntervaloRetryInicial <= linha.iniciadoEm,
           linha.iniciadoEm < Partida[k]
    PROVE  EsperaDaLinha' /\ TentativasEspacadas'
  <1>1. \A j \in Chave : execucao'[j] = IF j = k THEN linha ELSE execucao[j]
    BY DEF TypeOK
  <1>2. EsperaDaLinha'
    BY <1>1 DEF EsperaDaLinha
  <1>3. TentativasEspacadas'
    BY <1>1 DEF TentativasEspacadas, Fechamento
  <1> QED
    BY <1>2, <1>3

LEMMA EspacoNext ==
    ASSUME EsperaMenorQueBloqueio, EspacoInv, ClaimInv, [Next]_vars
    PROVE  EspacoInv'
  <1>0. TypeOK /\ TypeOK' /\ CandidatosDevidos'
    BY TipoNext, CandidatosNext DEF EspacoInv
  <1>1. EsperaDaLinha' /\ TentativasEspacadas'
    <2>1. CASE execucao' = execucao
      BY <2>1 DEF EspacoInv, EsperaDaLinha, TentativasEspacadas, Fechamento
    <2>2. ASSUME NEW c \in Chamada, NEW k \in Chave, Adquirir(c, k)
          PROVE  EsperaDaLinha' /\ TentativasEspacadas'
      <3> DEFINE l == Iniciada(k, agora[c])
      <3>1. /\ PodeIniciar(k, agora[c]) /\ Devida(k, agora[c]) /\ agora[c] \in Nat
            /\ execucao' = [execucao EXCEPT ![k] = l]
        BY <1>0, <2>2 DEF Adquirir, EspacoInv, CandidatosDevidos, TypeOK
      <3>2. execucao[k].tentativas \in Nat
        BY <1>0 DEF TypeOK, Execucao
      <3>3. /\ l.status = "processando" /\ l.tentativas - 1 = execucao[k].tentativas
            /\ l.iniciadoEm = agora[c] /\ l.bloqueioExpiraEm = agora[c] + DuracaoBloqueio
        BY <3>2 DEF Iniciada
      <3>4. agora[c] + IntervaloRetryInicial <= agora[c] + DuracaoBloqueio
        BY <3>1, ConfiguracaoAssumption DEF EsperaMenorQueBloqueio
      <3> HIDE DEF l
      <3> QED
        BY <1>0, <3>1, <3>3, <3>4, EsperaCumprida, TrocaEspacada DEF EspacoInv
    <2>3. ASSUME NEW k \in Chave, execucao[k].status = "processando", NEW linha,
                 execucao' = [execucao EXCEPT ![k] = linha],
                 linha.status \in Terminal \cup {"falhou"},
                 linha.tentativas = execucao[k].tentativas,
                 linha.iniciadoEm = execucao[k].iniciadoEm,
                 linha.status = "falhou" =>
                    linha.iniciadoEm + IntervaloRetryInicial <= linha.proximaTentativaEm
          PROVE  EsperaDaLinha' /\ TentativasEspacadas'
      BY <1>0, <2>3, TrocaEspacada DEF EspacoInv, TentativasEspacadas, Terminal
    <2>4. ASSUME NEW c \in Chamada, Finalizar(c)
          PROVE  EsperaDaLinha' /\ TentativasEspacadas'
      <3> DEFINE l == Finalizada(alvo[c], resultado[c])
      <3>1. /\ alvo[c] \in Chave /\ execucao[alvo[c]].status = "processando"
            /\ resultado[c] \in Terminal
            /\ execucao' = [execucao EXCEPT ![alvo[c]] = l]
        BY <1>0, <2>4 DEF Finalizar, TypeOK, ComClaim
      <3>2. /\ l.status = resultado[c] /\ l.tentativas = execucao[alvo[c]].tentativas
            /\ l.iniciadoEm = execucao[alvo[c]].iniciadoEm
        BY DEF Finalizada, Encerrada
      <3> HIDE DEF l
      <3> QED
        BY <2>3, <3>1, <3>2 DEF Terminal
    <2>5. ASSUME NEW c \in Chamada, Falhar(c)
          PROVE  EsperaDaLinha' /\ TentativasEspacadas'
      <3> DEFINE l == Falhada(alvo[c], agora[c], tentativa[c])
      <3>1. /\ alvo[c] \in Chave /\ execucao[alvo[c]].status = "processando"
            /\ execucao' = [execucao EXCEPT ![alvo[c]] = l]
            /\ Planejando(c) /\ agora[c] \in Nat
        BY <1>0, <2>5 DEF Falhar, TypeOK, ComClaim, Planejando
      <3>2. execucao[alvo[c]].iniciadoEm = agora[c]
        BY <3>1 DEF ClaimInv, ClaimVivo
      <3>3. /\ l.status = "falhou" /\ l.tentativas = execucao[alvo[c]].tentativas
            /\ l.iniciadoEm = execucao[alvo[c]].iniciadoEm
            /\ l.proximaTentativaEm = agora[c] + IntervaloRetry(tentativa[c])
        BY DEF Falhada, Encerrada
      <3>4. agora[c] + IntervaloRetryInicial <= agora[c] + IntervaloRetry(tentativa[c])
        BY <3>1, IntervaloRetryLimitado, ConfiguracaoAssumption
      <3> HIDE DEF l
      <3> QED
        BY <2>3, <3>1, <3>2, <3>3, <3>4
    <2>6. CASE Tick \/ Passageiros \/ UNCHANGED vars
      BY <2>1, <2>6 DEF Tick, Passageiros, CriarReserva, CancelarReservas, vars, tabelas
    <2>7. ASSUME NEW c \in Chamada, Falha(c) PROVE execucao' = execucao
      BY <2>7 DEF Falha, PlanejarErro, GravarSemResposta, EncerrarErro, Interromper,
                  IniciarErro, ProximoCandidato, Encerra, tabelas
    <2>8. ASSUME NEW c \in Chamada, Passo(c), execucao' # execucao
          PROVE  Finalizar(c) \/ Falhar(c) \/ \E k \in Chave : Adquirir(c, k)
      BY <2>8 DEF Passo, Chamar, Listar, Ler, Gravar, GravarJaExiste, Retornar, Recusar,
                  ProximoCandidato, Encerra, tabelas
    <2> QED
      BY <2>1, <2>2, <2>4, <2>5, <2>6, <2>7, <2>8 DEF Next
  <1> QED
    BY <1>0, <1>1 DEF EspacoInv

\* The n-th attempt on a key starts at least n - 1 first intervals after the
\* key closed and always before its departure, whether the earlier ones failed
\* or their calls died holding the claim.
THEOREM EsperaEntreTentativas ==
    ASSUME PrazoMenorQueBloqueio, EsperaMenorQueBloqueio
    PROVE  Spec => []TentativasEspacadas
  <1>1. Init => EspacoInv
    BY TipoInit DEF Init, EspacoInv, CandidatosDevidos, EsperaDaLinha, TentativasEspacadas,
                    SemExecucao
  <1>2. EspacoInv /\ ClaimInv /\ [Next]_vars => EspacoInv'
    BY EspacoNext
  <1>3. Spec => []ClaimInv
    BY ClaimSempre
  <1>4. EspacoInv => TentativasEspacadas
    BY DEF EspacoInv
  <1> QED
    BY <1>1, <1>2, <1>3, <1>4, PTL DEF Spec

-----------------------------------------------------------------------------
(* The abstract ledger *)

\* The owner of a key is a call planning it, and every such call is its owner.
DonoFiel ==
    /\ \A k \in Chave, c \in Chamada :
          Planejando(c) /\ alvo[c] = k => donoRegistro[k] = c
    /\ \A k \in Chave : donoRegistro[k] # Ninguem =>
          \E c \in Chamada : donoRegistro[k] = c /\ Planejando(c) /\ alvo[c] = k

LEMMA DonoDaChave == ClaimInv => DonoFiel
  <1> SUFFICES ASSUME ClaimInv, NEW k \in Chave
               PROVE  /\ \A c \in Chamada :
                            Planejando(c) /\ alvo[c] = k => donoRegistro[k] = c
                      /\ donoRegistro[k] # Ninguem =>
                            \E c \in Chamada :
                               donoRegistro[k] = c /\ Planejando(c) /\ alvo[c] = k
    BY DEF DonoFiel
  <1>1. \A c \in Donos(k) : Donos(k) = {c}
    BY DEF Donos, ClaimInv, ExclusaoPorChave
  <1>2. donoRegistro[k] = IF Donos(k) = {} THEN Ninguem ELSE CHOOSE c \in Donos(k) : TRUE
    BY DEF donoRegistro
  <1>3. Donos(k) # {} => donoRegistro[k] \in Donos(k)
    BY <1>2
  <1> QED
    BY <1>1, <1>2, <1>3 DEF Donos

\* Both functions are over the keys, so they are equal when equal at each.
LEMMA DonoFuncao ==
    /\ donoRegistro = [k \in Chave |-> donoRegistro[k]]
    /\ estadoRegistro = [k \in Chave |-> estadoRegistro[k]]
    /\ \A k \in Chave : estadoRegistro[k] = execucao[k].status
  BY DEF donoRegistro, estadoRegistro

\* The step makes nobody an owner and touches no row: calls only let go.
LEMMA PassoSolta ==
    ASSUME DonoFiel, DonoFiel', execucao' = execucao,
           \A c \in Chamada : Planejando(c)' => Planejando(c) /\ alvo'[c] = alvo[c]
    PROVE  [Registro!NextRegistro]_(Registro!varsRegistro)
  <1> DEFINE S == {k \in Chave : donoRegistro[k] # Ninguem /\ donoRegistro'[k] = Ninguem}
  <1>1. estadoRegistro' = estadoRegistro
    BY DEF estadoRegistro
  <1>2. ASSUME NEW k \in Chave, donoRegistro'[k] # Ninguem
        PROVE  donoRegistro'[k] = donoRegistro[k]
    <2>1. PICK d \in Chamada : donoRegistro'[k] = d /\ Planejando(d)' /\ alvo'[d] = k
      BY <1>2 DEF DonoFiel
    <2>2. Planejando(d) /\ alvo[d] = k
      BY <2>1
    <2> QED
      BY <2>1, <2>2 DEF DonoFiel
  <1>3. donoRegistro' = [k \in Chave |-> IF k \in S THEN Ninguem ELSE donoRegistro[k]]
    <2>1. donoRegistro' = [k \in Chave |-> donoRegistro'[k]]
      BY DEF donoRegistro
    <2>2. \A k \in Chave : donoRegistro'[k] = IF k \in S THEN Ninguem ELSE donoRegistro[k]
      BY <1>2
    <2> HIDE DEF S
    <2> QED
      BY <2>1, <2>2
  <1>4. CASE S = {}
    <2>1. donoRegistro' = donoRegistro
      BY <1>3, <1>4, DonoFuncao
    <2> QED
      BY <1>1, <2>1 DEF Registro!varsRegistro
  <1>5. CASE S # {}
    <2>1. Registro!Soltar(S)
      BY <1>1, <1>3, <1>5 DEF Registro!Soltar
    <2> QED
      BY <2>1 DEF Registro!NextRegistro
  <1> QED
    BY <1>4, <1>5

\* The row of k is replaced, and of the other keys no owner changes.
LEMMA PassoDaChave ==
    ASSUME DonoFiel, DonoFiel', TypeOK, NEW k \in Chave, NEW linha,
           execucao' = [execucao EXCEPT ![k] = linha],
           \A d \in Chamada, j \in Chave \ {k} :
              Planejando(d)' /\ alvo'[d] = j <=> Planejando(d) /\ alvo[d] = j
    PROVE  /\ estadoRegistro' = [estadoRegistro EXCEPT ![k] = linha.status]
           /\ donoRegistro' = [donoRegistro EXCEPT ![k] = donoRegistro'[k]]
  <1>1. estadoRegistro' = [estadoRegistro EXCEPT ![k] = linha.status]
    <2>1. execucao' = [j \in Chave |-> IF j = k THEN linha ELSE execucao[j]]
      BY DEF TypeOK
    <2>2. estadoRegistro' = [j \in Chave |-> IF j = k THEN linha.status ELSE execucao[j].status]
      BY <2>1 DEF estadoRegistro
    <2> QED
      BY <2>2 DEF estadoRegistro
  <1>2. ASSUME NEW j \in Chave, j # k PROVE donoRegistro'[j] = donoRegistro[j]
    <2>1. CASE donoRegistro'[j] # Ninguem
      <3>1. PICK d \in Chamada : donoRegistro'[j] = d /\ Planejando(d)' /\ alvo'[d] = j
        BY <2>1 DEF DonoFiel
      <3>2. Planejando(d) /\ alvo[d] = j
        BY <1>2, <3>1
      <3> QED
        BY <3>1, <3>2 DEF DonoFiel
    <2>2. CASE donoRegistro[j] # Ninguem
      <3>1. PICK d \in Chamada : donoRegistro[j] = d /\ Planejando(d) /\ alvo[d] = j
        BY <2>2 DEF DonoFiel
      <3>2. Planejando(d)' /\ alvo'[d] = j
        BY <1>2, <3>1
      <3> QED
        BY <3>1, <3>2 DEF DonoFiel
    <2> QED
      BY <2>1, <2>2
  <1>3. donoRegistro' = [j \in Chave |-> donoRegistro'[j]]
    BY DEF donoRegistro
  <1>4. donoRegistro' = [donoRegistro EXCEPT ![k] = donoRegistro'[k]]
    BY <1>2, <1>3, DonoFuncao
  <1> QED
    BY <1>1, <1>4

\* TentarIniciar makes the call the owner of a key nobody owns.
LEMMA AdquirirToma ==
    ASSUME PrazoMenorQueBloqueio, ClaimInv, ClaimInv', DonoFiel, DonoFiel',
           NEW c \in Chamada, NEW k \in Chave, Adquirir(c, k)
    PROVE  Registro!Tomar(k, c)
  <1>1. /\ pc[c] = "varrer" /\ NoPrazo(c) /\ PodeIniciar(k, agora[c])
        /\ pc' = [pc EXCEPT ![c] = "ler"]
        /\ alvo' = [alvo EXCEPT ![c] = k]
        /\ execucao' = [execucao EXCEPT ![k] = Iniciada(k, agora[c])]
        /\ relogio' = relogio /\ agora' = agora
    BY DEF Adquirir
  <1>2. TypeOK
    BY DEF ClaimInv
  <1>3. donoRegistro[k] = Ninguem
    BY <1>1, ClaimNaoExpirou DEF DonoFiel
  <1>4. donoRegistro'[k] = c
    <2>1. Planejando(c)' /\ alvo'[c] = k
      BY <1>1, <1>2 DEF Planejando, NoPrazo, ComClaim, TypeOK
    <2> QED
      BY <2>1 DEF DonoFiel
  <1>5. ASSUME NEW d \in Chamada, NEW j \in Chave \ {k}
        PROVE  Planejando(d)' /\ alvo'[d] = j <=> Planejando(d) /\ alvo[d] = j
    <2>1. CASE d = c
      BY <1>1, <1>2, <2>1 DEF Planejando, ComClaim, TypeOK
    <2>2. CASE d # c
      BY <1>1, <1>2, <2>2 DEF Planejando, NoPrazo, TypeOK
    <2> QED
      BY <2>1, <2>2
  <1>6. /\ estadoRegistro' = [estadoRegistro EXCEPT ![k] = "processando"]
        /\ donoRegistro' = [donoRegistro EXCEPT ![k] = c]
    <2>1. Iniciada(k, agora[c]).status = "processando"
      BY DEF Iniciada
    <2>2. /\ estadoRegistro' = [estadoRegistro EXCEPT ![k] = Iniciada(k, agora[c]).status]
          /\ donoRegistro' = [donoRegistro EXCEPT ![k] = donoRegistro'[k]]
      BY <1>1, <1>2, <1>5, PassoDaChave
    <2> QED
      BY <1>4, <2>1, <2>2
  <1>7. estadoRegistro[k] \in {"ausente", "falhou", "processando"}
    BY <1>1, DonoFuncao DEF PodeIniciar
  <1> QED
    BY <1>3, <1>6, <1>7 DEF Registro!Tomar

\* Finalizar and Falhar are the end of the execution by its owner.
LEMMA EncerrarEncerra ==
    ASSUME ClaimInv, ClaimInv', DonoFiel, DonoFiel', NEW c \in Chamada, NEW linha,
           Planejando(c), relogio' = relogio,
           execucao[alvo[c]].status = "processando",
           execucao' = [execucao EXCEPT ![alvo[c]] = linha],
           ProximoCandidato(c)
    PROVE  Registro!Encerrar(alvo[c], linha.status)
  <1>1. TypeOK /\ alvo[c] \in Chave
    BY DEF ClaimInv, TypeOK, Planejando
  <1>2. donoRegistro[alvo[c]] # Ninguem
    BY <1>1, NinguemAssumption DEF DonoFiel
  <1>3. ASSUME NEW d \in Chamada, d # c
        PROVE  (Planejando(d)' <=> Planejando(d)) /\ alvo'[d] = alvo[d]
    BY <1>1, <1>3 DEF ProximoCandidato, Planejando, NoPrazo, TypeOK
  <1>4. ~Planejando(c)'
    BY <1>1 DEF ProximoCandidato, Planejando, ComClaim, TypeOK
  <1>5. donoRegistro'[alvo[c]] = Ninguem
    <2> SUFFICES ASSUME NEW d \in Chamada, Planejando(d)', alvo'[d] = alvo[c] PROVE FALSE
      BY <1>1 DEF DonoFiel
    <2> QED
      BY <1>3, <1>4 DEF ClaimInv, ExclusaoPorChave
  <1>6. ASSUME NEW d \in Chamada, NEW j \in Chave \ {alvo[c]}
        PROVE  Planejando(d)' /\ alvo'[d] = j <=> Planejando(d) /\ alvo[d] = j
    BY <1>3, <1>4
  <1>7. /\ estadoRegistro' = [estadoRegistro EXCEPT ![alvo[c]] = linha.status]
        /\ donoRegistro' = [donoRegistro EXCEPT ![alvo[c]] = Ninguem]
    BY <1>1, <1>5, <1>6, PassoDaChave
  <1>8. estadoRegistro[alvo[c]] = "processando"
    BY <1>1, DonoFuncao
  <1> QED
    BY <1>2, <1>7, <1>8 DEF Registro!Encerrar

\* Every other step leaves the rows alone, and no call takes a claim.
LEMMA DemaisPassos ==
    ASSUME TypeOK, [Next]_vars,
           \A c \in Chamada : ~Finalizar(c) /\ ~Falhar(c) /\ \A k \in Chave : ~Adquirir(c, k)
    PROVE  /\ execucao' = execucao /\ relogio' >= relogio
           /\ \A d \in Chamada : Conserva(d)
  <1> USE DEF TypeOK, Conserva, ComClaim, tabelas, locais
  <1>1. CASE Tick
    BY <1>1 DEF Tick
  <1>2. CASE Passageiros
    BY <1>2 DEF Passageiros, CriarReserva, CancelarReservas
  <1>3. CASE UNCHANGED vars
    BY <1>3 DEF vars
  <1>4. ASSUME NEW c \in Chamada, PlanejarErro(c) \/ GravarSemResposta(c)
        PROVE  /\ execucao' = execucao /\ relogio' >= relogio
               /\ \A d \in Chamada : Conserva(d)
    BY <1>4 DEF PlanejarErro, GravarSemResposta
  <1>5. ASSUME NEW c \in Chamada, EncerrarErro(c)
        PROVE  /\ execucao' = execucao /\ relogio' >= relogio
               /\ \A d \in Chamada : Conserva(d)
    BY <1>5 DEF EncerrarErro, ProximoCandidato
  <1>6. ASSUME NEW c \in Chamada, Retornar(c) \/ Interromper(c)
        PROVE  /\ execucao' = execucao /\ relogio' >= relogio
               /\ \A d \in Chamada : Conserva(d)
    BY <1>6 DEF Retornar, Interromper, Encerra
  <1>7. ASSUME NEW c \in Chamada, NEW k \in Chave, Recusar(c, k) \/ IniciarErro(c, k)
        PROVE  /\ execucao' = execucao /\ relogio' >= relogio
               /\ \A d \in Chamada : Conserva(d)
    BY <1>7 DEF Recusar, IniciarErro
  <1>8. ASSUME NEW c \in Chamada, Chamar(c) \/ Listar(c)
        PROVE  /\ execucao' = execucao /\ relogio' >= relogio
               /\ \A d \in Chamada : Conserva(d)
    BY <1>8 DEF Chamar, Listar
  <1>9. ASSUME NEW c \in Chamada, Ler(c) \/ Gravar(c) \/ GravarJaExiste(c)
        PROVE  /\ execucao' = execucao /\ relogio' >= relogio
               /\ \A d \in Chamada : Conserva(d)
    BY <1>9 DEF Ler, Gravar, GravarJaExiste
  <1> HIDE DEF TypeOK, Conserva, ComClaim, tabelas, locais
  <1> QED
    BY <1>1, <1>2, <1>3, <1>4, <1>5, <1>6, <1>7, <1>8, <1>9 DEF Next, Passo, Falha

LEMMA PassoImplementa ==
    ASSUME PrazoMenorQueBloqueio, ClaimInv, ClaimInv', DonoFiel, DonoFiel', [Next]_vars
    PROVE  [Registro!NextRegistro]_(Registro!varsRegistro)
  <1>0. TypeOK /\ TypeOK'
    BY DEF ClaimInv
  <1>1. ASSUME NEW c \in Chamada, NEW k \in Chave, Adquirir(c, k)
        PROVE  Registro!NextRegistro
    BY <1>1, AdquirirToma DEF Registro!NextRegistro
  <1>2. ASSUME NEW c \in Chamada, Finalizar(c)
        PROVE  Registro!NextRegistro
    <2>1. /\ alvo[c] \in Chave /\ resultado[c] \in {"concluido", "sem_demanda"}
          /\ Planejando(c)
      BY <1>0, <1>2 DEF Finalizar, TypeOK, ComClaim, Terminal, Planejando
    <2>2. Registro!Encerrar(alvo[c], Finalizada(alvo[c], resultado[c]).status)
      BY <1>2, <2>1, EncerrarEncerra DEF Finalizar
    <2>3. Finalizada(alvo[c], resultado[c]).status = resultado[c]
      BY DEF Finalizada, Encerrada
    <2> QED
      BY <2>1, <2>2, <2>3 DEF Registro!NextRegistro, Registro!Final
  <1>3. ASSUME NEW c \in Chamada, Falhar(c)
        PROVE  Registro!NextRegistro
    <2>1. alvo[c] \in Chave /\ Planejando(c)
      BY <1>0, <1>3 DEF Falhar, TypeOK, ComClaim, Planejando
    <2>2. Registro!Encerrar(alvo[c], Falhada(alvo[c], agora[c], tentativa[c]).status)
      BY <1>3, <2>1, EncerrarEncerra DEF Falhar
    <2>3. Falhada(alvo[c], agora[c], tentativa[c]).status = "falhou"
      BY DEF Falhada, Encerrada
    <2> QED
      BY <2>1, <2>2, <2>3 DEF Registro!NextRegistro
  <1>4. ASSUME execucao' = execucao, relogio' >= relogio, \A d \in Chamada : Conserva(d)
        PROVE  [Registro!NextRegistro]_(Registro!varsRegistro)
    <2>1. \A c \in Chamada : Planejando(c)' => Planejando(c) /\ alvo'[c] = alvo[c]
      BY <1>0, <1>4, ConservaPlanejando
    <2> QED
      BY <1>4, <2>1, PassoSolta
  <1> QED
    BY <1>0, <1>1, <1>2, <1>3, <1>4, DemaisPassos

LEMMA InicioImplementa == Init => Registro!InitRegistro
  BY DEF Init, Registro!InitRegistro, estadoRegistro, donoRegistro, Donos, Planejando, ComClaim,
         SemExecucao

\* The processor, with its clock, leases, retries and failing statements,
\* implements the ledger RegistroExecucao promises: one owner per key, ends
\* only by the owner, ended keys final (TentarIniciar, Finalizar and Falhar of
\* execucao_planejamento_repository.go).
THEOREM ProcessadorImplementa ==
    ASSUME PrazoMenorQueBloqueio
    PROVE  Spec => ImplementaRegistro
  <1>1. ClaimInv /\ ClaimInv' /\ DonoFiel /\ DonoFiel' /\ [Next]_vars =>
           [Registro!NextRegistro]_(Registro!varsRegistro)
    BY PassoImplementa
  <1>2. ClaimInv => DonoFiel
    BY DonoDaChave
  <1>3. Spec => []ClaimInv
    BY ClaimSempre
  <1> QED
    BY <1>1, <1>2, <1>3, InicioImplementa, PTL DEF Spec, ImplementaRegistro, Registro!SpecRegistro

-----------------------------------------------------------------------------
(* The processor under its schedule (ProcessadorPontual), for any departures,  *)
(* intervals and leases, and any number of failing steps that the time         *)
(* between closing and departure outlasts: the schedule only restricts it      *)

LEMMA PassoPontual == [NextPontual]_varsPontual => [Next]_vars
<1> SUFFICES ASSUME [NextPontual]_varsPontual PROVE Next \/ UNCHANGED vars
  OBVIOUS
<1>1. TickPontual => Tick
  BY DEF TickPontual
<1>2. ASSUME NEW c \in Chamada, Disparar(c) \/ Prosseguir(c) \/ FalharPasso(c)
      PROVE  Passo(c) \/ Falha(c)
  BY <1>2 DEF Disparar, Prosseguir, FalharPasso, Passo
<1> QED
  BY <1>1, <1>2 DEF NextPontual, Next, varsPontual

\* What is proved of the processor holds of it under its schedule.
LEMMA PontualProcessa == SpecPontual => Spec
<1>1. InitPontual => Init
  BY DEF InitPontual
<1> QED
  BY <1>1, PassoPontual, PTL DEF SpecPontual, Spec

-----------------------------------------------------------------------------
(* One call at a time *)

\* The call of this minute is the only one, and it read this minute.
UmaPorVez ==
    /\ falhas \in 0 .. MaxFalhas /\ disparado \in Int /\ disparado <= relogio
    /\ \A c \in Chamada : pc[c] # "ocioso" => agora[c] = relogio /\ disparado = relogio
    /\ \A c, d \in Chamada : pc[c] # "ocioso" /\ pc[d] # "ocioso" => c = d

\* So nothing was planned since a call read the free resources, and what it takes for
\* planned is.
PlanoFiel ==
    /\ \A c \in Chamada : pc[c] = "gravar" => \A k \in Chave : plano[k] => k \in vistos[c]
    /\ \A c \in Chamada : pc[c] = "finalizar" /\ resultado[c] = "concluido" => plano[alvo[c]]

ConcluidaInv == TypeOK /\ UmaPorVez /\ PlanoFiel /\ ConcluidoTemPlano

LEMMA InicioConcluida == InitPontual => ConcluidaInv
<1> SUFFICES ASSUME InitPontual PROVE ConcluidaInv
  OBVIOUS
<1>1. TypeOK
  BY TipoInit DEF InitPontual
<1>2. UmaPorVez
  BY PontualAssumption DEF InitPontual, Init, UmaPorVez, Nulo
<1>3. PlanoFiel /\ ConcluidoTemPlano
  BY DEF InitPontual, Init, PlanoFiel, ConcluidoTemPlano, SemExecucao
<1> QED
  BY <1>1, <1>2, <1>3 DEF ConcluidaInv

\* A step of a call that has begun leaves the other calls and the clock alone.
Anda(c) ==
    /\ pc[c] # "ocioso" /\ relogio' = relogio /\ reservada' = reservada
    /\ \A d \in Chamada \ {c} : pc'[d] = pc[d] /\ agora'[d] = agora[d] /\ pendentes'[d] = pendentes[d]
    /\ pc'[c] = "ocioso" \/ agora'[c] = agora[c]

LEMMA CallAnda ==
    ASSUME TypeOK, NEW c \in Chamada, Prosseguir(c) \/ FalharPasso(c)
    PROVE  Anda(c)
<1> USE DEF TypeOK, tabelas, locais, Anda
<1>1. CASE Listar(c) \/ Ler(c) \/ Gravar(c) \/ GravarJaExiste(c) \/ PlanejarErro(c) \/ GravarSemResposta(c)
  BY <1>1 DEF Listar, Ler, Gravar, GravarJaExiste, PlanejarErro, GravarSemResposta
<1>2. CASE Finalizar(c) \/ Falhar(c) \/ EncerrarErro(c)
  BY <1>2 DEF Finalizar, Falhar, EncerrarErro, ProximoCandidato
<1>3. CASE (pc[c] # "ocioso" /\ Retornar(c)) \/ Interromper(c)
  BY <1>3 DEF Retornar, Interromper, Encerra
<1>4. ASSUME NEW k \in Chave, Adquirir(c, k) \/ Recusar(c, k) \/ IniciarErro(c, k) PROVE Anda(c)
  BY <1>4 DEF Adquirir, Recusar, IniciarErro
<1> HIDE DEF TypeOK, tabelas, locais, Anda
<1> QED
  BY <1>1, <1>2, <1>3, <1>4 DEF Prosseguir, FalharPasso, Passo, Falha, Chamar

LEMMA UmaSegue ==
    ASSUME TypeOK, UmaPorVez, [NextPontual]_varsPontual
    PROVE  UmaPorVez'
<1> USE DEF UmaPorVez
<1>0. relogio \in Nat /\ MaxFalhas \in Nat /\ falhas \in Nat
  BY PontualAssumption DEF TypeOK
<1>1. CASE TickPontual
  BY <1>0, <1>1 DEF TickPontual, Tick, tabelas, locais
<1>2. CASE (Passageiros /\ UNCHANGED <<disparado, falhas>>) \/ UNCHANGED varsPontual
  BY <1>2 DEF Passageiros, CriarReserva, CancelarReservas, locais, varsPontual, vars
<1>3. ASSUME NEW c \in Chamada, Disparar(c) PROVE UmaPorVez'
  <2>1. \A d \in Chamada : pc[d] = "ocioso"
    BY <1>0, <1>3 DEF Disparar
  <2>2. \A d \in Chamada : pc'[d] # "ocioso" => d = c /\ agora'[d] = relogio
    BY <1>3, <2>1 DEF Disparar, Chamar, TypeOK
  <2> QED
    BY <1>0, <1>3, <2>2 DEF Disparar, Chamar
<1>4. ASSUME NEW c \in Chamada, Prosseguir(c) \/ FalharPasso(c) PROVE UmaPorVez'
  <2>1. Anda(c)
    BY <1>4, CallAnda
  <2>2. disparado' = disparado /\ falhas' \in 0 .. MaxFalhas
    BY <1>0, <1>4 DEF Prosseguir, FalharPasso
  <2> QED
    BY <2>1, <2>2 DEF Anda
<1> QED
  BY <1>1, <1>2, <1>3, <1>4 DEF NextPontual

LEMMA PlanoSegue ==
    ASSUME ConcluidaInv, [NextPontual]_varsPontual
    PROVE  PlanoFiel' /\ ConcluidoTemPlano'
<1> USE DEF PlanoFiel, ConcluidoTemPlano, TypeOK, tabelas, locais
<1>0. TypeOK /\ UmaPorVez /\ PlanoFiel /\ ConcluidoTemPlano
  BY DEF ConcluidaInv
<1>1. CASE TickPontual \/ (Passageiros /\ UNCHANGED <<disparado, falhas>>) \/ UNCHANGED varsPontual
  BY <1>0, <1>1 DEF TickPontual, Tick, Passageiros, CriarReserva, CancelarReservas, varsPontual, vars
<1>2. ASSUME NEW c \in Chamada, Chamar(c) \/ Listar(c) PROVE PlanoFiel' /\ ConcluidoTemPlano'
  BY <1>0, <1>2 DEF Chamar, Listar
<1>3. ASSUME NEW c \in Chamada, Ler(c) PROVE PlanoFiel' /\ ConcluidoTemPlano'
  BY <1>0, <1>3 DEF Ler, Terminal
<1>4. ASSUME NEW c \in Chamada, Gravar(c) \/ GravarSemResposta(c) PROVE PlanoFiel' /\ ConcluidoTemPlano'
  <2>1. \A d \in Chamada : pc[d] = "gravar" => d = c
    BY <1>0, <1>4 DEF UmaPorVez, Gravar, GravarSemResposta
  <2>2. alvo[c] \in Chave /\ plano' = [plano EXCEPT ![alvo[c]] = TRUE] /\ execucao' = execucao
        /\ alvo' = alvo /\ vistos' = vistos
    BY <1>0, <1>4 DEF Gravar, GravarSemResposta, ComClaim
  <2>3. \A k \in Chave : plano[k] => plano'[k]
    BY <1>0, <2>2
  <2>4. \A d \in Chamada : pc'[d] # "gravar"
    BY <1>0, <1>4, <2>1 DEF Gravar, GravarSemResposta
  <2>5. plano'[alvo[c]]
    BY <1>0, <2>2
  <2>6. \A d \in Chamada : pc'[d] = "finalizar" /\ resultado'[d] = "concluido" => plano'[alvo'[d]]
    <3> SUFFICES ASSUME NEW d \in Chamada, pc'[d] = "finalizar", resultado'[d] = "concluido"
                 PROVE  plano'[alvo[d]]
      BY <2>2
    <3>1. CASE d = c
      BY <2>5, <3>1
    <3>2. CASE d # c
      <4>1. pc[d] = "finalizar" /\ resultado[d] = "concluido" /\ alvo[d] \in Chave
        BY <1>0, <1>4, <3>2 DEF Gravar, GravarSemResposta, ComClaim
      <4> QED
        BY <1>0, <2>3, <4>1
    <3> QED
      BY <3>1, <3>2
  <2> QED
    BY <1>0, <2>2, <2>3, <2>4, <2>6
<1>5. ASSUME NEW c \in Chamada, GravarJaExiste(c) PROVE PlanoFiel' /\ ConcluidoTemPlano'
  <2>1. plano[alvo[c]]
    BY <1>0, <1>5 DEF GravarJaExiste, ConflitoDeRecursos
  <2> QED
    BY <1>0, <1>5, <2>1 DEF GravarJaExiste
<1>6. ASSUME NEW c \in Chamada, PlanejarErro(c) PROVE PlanoFiel' /\ ConcluidoTemPlano'
  BY <1>0, <1>6 DEF PlanejarErro
<1>7. ASSUME NEW c \in Chamada, Finalizar(c) PROVE PlanoFiel' /\ ConcluidoTemPlano'
  <2>1. execucao' = [execucao EXCEPT ![alvo[c]] = Finalizada(alvo[c], resultado[c])] /\ alvo[c] \in Chave
    BY <1>0, <1>7 DEF Finalizar, ComClaim
  <2>2. Finalizada(alvo[c], resultado[c]).status = resultado[c]
    BY DEF Finalizada, Encerrada
  <2>3. \A k \in Chave : execucao'[k].status = "concluido" => plano[k]
    BY <1>0, <1>7, <2>1, <2>2 DEF Finalizar
  <2> QED
    BY <1>0, <1>7, <2>3 DEF Finalizar, ProximoCandidato
<1>8. ASSUME NEW c \in Chamada, Falhar(c) PROVE PlanoFiel' /\ ConcluidoTemPlano'
  <2>1. execucao' = [execucao EXCEPT ![alvo[c]] = Falhada(alvo[c], agora[c], tentativa[c])]
    BY <1>8 DEF Falhar
  <2>2. Falhada(alvo[c], agora[c], tentativa[c]).status = "falhou"
    BY DEF Falhada, Encerrada
  <2>3. \A k \in Chave : execucao'[k].status = "concluido" => plano[k]
    BY <1>0, <2>1, <2>2
  <2> QED
    BY <1>0, <1>8, <2>3 DEF Falhar, ProximoCandidato
<1>9. ASSUME NEW c \in Chamada, EncerrarErro(c) \/ Retornar(c) \/ Interromper(c)
      PROVE  PlanoFiel' /\ ConcluidoTemPlano'
  BY <1>0, <1>9 DEF EncerrarErro, Retornar, Interromper, ProximoCandidato, Encerra
<1>10. ASSUME NEW c \in Chamada, NEW k \in Chave, Recusar(c, k) \/ IniciarErro(c, k)
       PROVE  PlanoFiel' /\ ConcluidoTemPlano'
  BY <1>0, <1>10 DEF Recusar, IniciarErro
<1>11. ASSUME NEW c \in Chamada, NEW k \in Chave, Adquirir(c, k) PROVE PlanoFiel' /\ ConcluidoTemPlano'
  <2>1. Iniciada(k, agora[c]).status = "processando"
    BY DEF Iniciada
  <2>2. \A j \in Chave : execucao'[j].status = "concluido" => plano[j]
    BY <1>0, <1>11, <2>1 DEF Adquirir
  <2> QED
    BY <1>0, <1>11, <2>2 DEF Adquirir
<1> HIDE DEF PlanoFiel, ConcluidoTemPlano, TypeOK, tabelas, locais
<1> QED
  BY <1>1, <1>2, <1>3, <1>4, <1>5, <1>6, <1>7, <1>8, <1>9, <1>10, <1>11
  DEF NextPontual, Disparar, Prosseguir, FalharPasso, Passo, Falha

LEMMA ConcluidaSempre == SpecPontual => []ConcluidaInv
<1>1. ConcluidaInv /\ [NextPontual]_varsPontual => ConcluidaInv'
  <2>1. ConcluidaInv /\ [NextPontual]_varsPontual => TypeOK'
    BY PassoPontual, TipoNext DEF ConcluidaInv
  <2> QED
    BY <2>1, UmaSegue, PlanoSegue DEF ConcluidaInv
<1> QED
  BY <1>1, InicioConcluida, PTL DEF SpecPontual

\* Under the cron, which lets a call end before the next one, "concluido" says that the
\* trips of the key exist, whatever fails and however often: the error of a unique index
\* that processarCandidato takes for "already planned" is then of the key's own trips.
THEOREM ConcluidoComViagens == SpecPontual => []ConcluidoTemPlano
<1>1. ConcluidaInv => ConcluidoTemPlano
  BY DEF ConcluidaInv
<1> QED
  BY <1>1, ConcluidaSempre, PTL

-----------------------------------------------------------------------------
(* Before departure *)

\* The longest that a failing step delays the next attempt on a key.
Demora == IF DuracaoBloqueio < IntervaloRetryMaximo THEN IntervaloRetryMaximo ELSE DuracaoBloqueio

\* All the failing steps do not take the time between closing and departure, nor does a
\* reserva that comes late: 4 or 5 times five minutes, and one, against thirty.
TempoSuficiente == AtrasoReserva + MaxFalhas * Demora < AntecedenciaFechamento

\* The latest that a key may be tried, with the failures so far.
Limite(k) == Fechamento(k) + AtrasoReserva + falhas * Demora

ComChamada(k) == \E c \in Chamada : pc[c] \in ComClaim /\ alvo[c] = k

\* The claim of the call is of this minute, which was not too late.
ClaimDoMinuto ==
    \A c \in Chamada : pc[c] \in ComClaim =>
        /\ execucao[alvo[c]].status = "processando"
        /\ execucao[alvo[c]].bloqueioExpiraEm = relogio + DuracaoBloqueio
        /\ relogio <= Limite(alvo[c])
        /\ pc[c] = "falhar" => relogio + Demora <= Limite(alvo[c])

\* A retry, or the end of a claim whose call is over, does not come too late.
EsperaCurta ==
    \A k \in Chave :
        /\ execucao[k].status = "falhou" => execucao[k].proximaTentativaEm <= Limite(k)
        /\ execucao[k].status = "processando" /\ ~ComChamada(k) =>
               execucao[k].bloqueioExpiraEm <= Limite(k)

\* Nor do candidates.
CandidataEmTempo ==
    \A c \in Chamada : \A k \in pendentes[c] :
        /\ pc[c] \notin {"ocioso", "listar"}
        /\ execucao[k].status \notin Terminal => relogio <= Limite(k)

\* The call of this minute is still to come to the key, or is planning it.
PorTentar(k) ==
    \/ disparado < relogio
    \/ \E c \in Chamada : pc[c] = "listar" \/ k \in pendentes[c]
    \/ ComChamada(k)

\* A key with a reserva that did not end has time left once this minute's call passed it.
EmTempo ==
    \A k \in Chave : reservada[k] /\ execucao[k].status \notin Terminal =>
        /\ relogio <= Limite(k)
        /\ relogio < Limite(k) \/ PorTentar(k)

TempoInv == TypeOK /\ UmaPorVez /\ ClaimDoMinuto /\ EsperaCurta /\ CandidataEmTempo /\ EmTempo

\* A product grows with its first factor.
LEMMA Produto ==
    ASSUME NEW a \in Nat, NEW b \in Nat, NEW n \in Nat
    PROVE  a * b \in Nat /\ (a + 1) * b = a * b + b /\ (a <= n => a * b <= n * b)
  OBVIOUS

LEMMA DemoraPositiva ==
    Demora \in Nat \ {0} /\ DuracaoBloqueio <= Demora /\ IntervaloRetryMaximo <= Demora
  BY ConfiguracaoAssumption DEF Demora

\* A failing step moves the limit by Demora, and no other step moves it.
LEMMA LimiteAnda ==
    ASSUME falhas \in Nat, falhas' \in Nat, NEW k \in Chave
    PROVE  /\ Limite(k) \in Int /\ Limite(k)' \in Int
           /\ Fechamento(k) \in Int /\ Fechamento(k) + AtrasoReserva <= Limite(k)
           /\ falhas' = falhas => Limite(k)' = Limite(k)
           /\ falhas' = falhas + 1 => Limite(k)' = Limite(k) + Demora
<1>1. Demora \in Nat /\ Fechamento(k) \in Int /\ AtrasoReserva \in Nat
  BY ConfiguracaoAssumption, DemoraPositiva DEF Fechamento
<1>2. falhas * Demora \in Nat /\ falhas' * Demora \in Nat
  BY <1>1, Produto
<1>3. (falhas + 1) * Demora = falhas * Demora + Demora
  BY <1>1, Produto
<1>4. Limite(k)' = Fechamento(k) + AtrasoReserva + falhas' * Demora
  BY DEF Limite, Fechamento, Demora
<1> QED
  BY <1>1, <1>2, <1>3, <1>4 DEF Limite

\* While the failing steps do not take all the time, the limit is before departure.
LEMMA LimiteAntesDaPartida ==
    ASSUME TempoSuficiente, falhas \in 0 .. MaxFalhas, NEW k \in Chave
    PROVE  Limite(k) \in Int /\ Limite(k) < Partida[k]
<1>1. Demora \in Nat /\ Partida[k] \in Nat /\ AtrasoReserva \in Nat /\ AntecedenciaFechamento \in Nat
      /\ MaxFalhas \in Nat /\ falhas \in Nat /\ falhas <= MaxFalhas
  BY ConfiguracaoAssumption, PontualAssumption, DemoraPositiva
<1>2. falhas * Demora \in Nat /\ MaxFalhas * Demora \in Nat /\ falhas * Demora <= MaxFalhas * Demora
  BY <1>1, Produto
<1> QED
  BY <1>1, <1>2 DEF Limite, Fechamento, TempoSuficiente

LEMMA InicioTempo == InitPontual => TempoInv
<1> SUFFICES ASSUME InitPontual PROVE TempoInv
  OBVIOUS
<1>1. TypeOK /\ UmaPorVez
  BY InicioConcluida DEF ConcluidaInv
<1> QED
  BY <1>1 DEF InitPontual, Init, TempoInv, ClaimDoMinuto, EsperaCurta, CandidataEmTempo, EmTempo,
              SemExecucao, ComClaim

-----------------------------------------------------------------------------
(* The same, of the one call that has begun *)

Sozinha(c) == \A d \in Chamada \ {c} : pc[d] = "ocioso" /\ pendentes[d] = {}

ClaimDe(c, k) == pc[c] \in ComClaim /\ alvo[c] = k

\* What TempoInv says of a key, when c is the only call.
TempoDe(c, k) ==
    /\ ClaimDe(c, k) =>
        /\ execucao[k].status = "processando"
        /\ execucao[k].bloqueioExpiraEm = relogio + DuracaoBloqueio
        /\ relogio <= Limite(k)
        /\ pc[c] = "falhar" => relogio + Demora <= Limite(k)
    /\ execucao[k].status = "falhou" => execucao[k].proximaTentativaEm <= Limite(k)
    /\ execucao[k].status = "processando" /\ ~ClaimDe(c, k) =>
        execucao[k].bloqueioExpiraEm <= Limite(k)
    /\ k \in pendentes[c] =>
        /\ pc[c] \notin {"ocioso", "listar"}
        /\ execucao[k].status \notin Terminal => relogio <= Limite(k)
    /\ reservada[k] /\ execucao[k].status \notin Terminal =>
        /\ relogio <= Limite(k)
        /\ relogio < Limite(k) \/ disparado < relogio \/ pc[c] = "listar" \/ k \in pendentes[c] \/ ClaimDe(c, k)

LEMMA TempoDaChamada ==
    ASSUME TempoInv, NEW c \in Chamada, Sozinha(c), NEW k \in Chave
    PROVE  TempoDe(c, k)
<1>1. ComChamada(k) <=> ClaimDe(c, k)
  BY DEF ComChamada, ClaimDe, Sozinha, ComClaim
<1>2. PorTentar(k) => disparado < relogio \/ pc[c] = "listar" \/ k \in pendentes[c] \/ ClaimDe(c, k)
  BY <1>1 DEF PorTentar, Sozinha
<1> QED
  BY <1>1, <1>2 DEF TempoInv, TempoDe, ClaimDoMinuto, EsperaCurta, CandidataEmTempo, EmTempo, ClaimDe

LEMMA TempoDaUnica ==
    ASSUME TypeOK', NEW c \in Chamada, Sozinha(c)', \A k \in Chave : TempoDe(c, k)'
    PROVE  ClaimDoMinuto' /\ EsperaCurta' /\ CandidataEmTempo' /\ EmTempo'
<1>1. \A k \in Chave : ClaimDe(c, k)' => ComChamada(k)'
  BY DEF ComChamada, ClaimDe
<1>2. \A k \in Chave : disparado' < relogio' \/ pc'[c] = "listar" \/ k \in pendentes'[c] \/ ClaimDe(c, k)'
                          => PorTentar(k)'
  BY <1>1 DEF PorTentar
<1>3. ClaimDoMinuto'
  <2> SUFFICES ASSUME NEW d \in Chamada, pc'[d] \in ComClaim
               PROVE  (/\ execucao[alvo[d]].status = "processando"
                       /\ execucao[alvo[d]].bloqueioExpiraEm = relogio + DuracaoBloqueio
                       /\ relogio <= Limite(alvo[d])
                       /\ pc[d] = "falhar" => relogio + Demora <= Limite(alvo[d]))'
    BY DEF ClaimDoMinuto
  <2>1. d = c
    BY DEF Sozinha, ComClaim
  <2>2. PICK k \in Chave : k = alvo'[c]
    BY <2>1 DEF TypeOK
  <2>3. ClaimDe(c, k)'
    BY <2>1, <2>2 DEF ClaimDe
  <2>4. Limite(k)' = Limite(alvo[c])'
    BY <2>2
  <2> QED
    BY <2>1, <2>2, <2>3, <2>4 DEF TempoDe
<1>4. EsperaCurta' /\ EmTempo'
  BY <1>1, <1>2 DEF EsperaCurta, EmTempo, TempoDe
<1>5. CandidataEmTempo'
  <2> SUFFICES ASSUME NEW d \in Chamada, NEW k \in pendentes'[d]
               PROVE  (/\ pc[d] \notin {"ocioso", "listar"}
                       /\ execucao[k].status \notin Terminal => relogio <= Limite(k))'
    BY DEF CandidataEmTempo
  <2>1. d = c
    BY DEF Sozinha
  <2>2. k \in Chave
    BY DEF TypeOK
  <2> QED
    BY <2>1, <2>2 DEF TempoDe
<1> QED
  BY <1>3, <1>4, <1>5

-----------------------------------------------------------------------------
(* Every step keeps it *)

\* What the proof of a step takes of the state before it and of the clocks.
Quadro(c, k) ==
    /\ relogio \in Nat /\ relogio' = relogio /\ reservada' = reservada
    /\ disparado' = disparado /\ disparado \in Int
    /\ Limite(k) \in Int /\ Limite(k)' \in Int
    /\ Demora \in Nat \ {0} /\ DuracaoBloqueio \in Nat /\ DuracaoBloqueio <= Demora
    /\ execucao[k] \in Execucao
    /\ pc[c] # "ocioso" /\ agora[c] = relogio /\ disparado = relogio
    /\ TempoDe(c, k)

LEMMA TickTempo ==
    ASSUME TempoInv, TickPontual
    PROVE  ClaimDoMinuto' /\ EsperaCurta' /\ CandidataEmTempo' /\ EmTempo'
<1> USE DEF TickPontual, Tick, tabelas, locais
<1>1. \A c \in Chamada : pendentes[c] = {}
  BY DEF TempoInv, CandidataEmTempo, TypeOK
<1>2. \A k \in Chave : ~ComChamada(k) /\ ~ComChamada(k)' /\ ~PorTentar(k)
  BY <1>1 DEF ComChamada, PorTentar, ComClaim, TempoInv, UmaPorVez, TypeOK
<1>3. \A k \in Chave : Limite(k)' = Limite(k) /\ Limite(k) \in Int
  BY LimiteAnda, PontualAssumption DEF TempoInv, UmaPorVez
<1>4. disparado' < relogio'
  BY DEF TempoInv, UmaPorVez, TypeOK
<1>5. ClaimDoMinuto'
  BY DEF ClaimDoMinuto, ComClaim
<1>6. EsperaCurta'
  BY <1>2, <1>3 DEF TempoInv, EsperaCurta
<1>7. CandidataEmTempo'
  BY <1>1 DEF CandidataEmTempo
<1>8. EmTempo'
  BY <1>2, <1>3, <1>4 DEF TempoInv, EmTempo, PorTentar, TypeOK
<1> QED
  BY <1>5, <1>6, <1>7, <1>8

LEMMA PassageirosTempo ==
    ASSUME TempoInv, Passageiros, UNCHANGED <<disparado, falhas>>
    PROVE  ClaimDoMinuto' /\ EsperaCurta' /\ CandidataEmTempo' /\ EmTempo'
<1>1. UNCHANGED <<relogio, execucao, pc, locais>>
  BY DEF Passageiros, CriarReserva, CancelarReservas
<1>2. \A k \in Chave : /\ Limite(k)' = Limite(k) /\ Limite(k) \in Int /\ Fechamento(k) \in Int
                       /\ Fechamento(k) + AtrasoReserva <= Limite(k)
  BY LimiteAnda, PontualAssumption DEF TempoInv, UmaPorVez
<1>3. \A k \in Chave : (ComChamada(k) <=> ComChamada(k)') /\ (PorTentar(k) <=> PorTentar(k)')
  BY <1>1 DEF ComChamada, PorTentar, locais
<1>4. \A k \in Chave : reservada'[k] => reservada[k] \/ relogio < Limite(k)
  <2> SUFFICES ASSUME NEW k \in Chave, reservada'[k], ~reservada[k] PROVE relogio < Limite(k)
    OBVIOUS
  <2>1. relogio - AtrasoReserva < Fechamento(k)
    BY DEF Passageiros, CriarReserva, CancelarReservas, Disponivel, TempoInv, TypeOK
  <2> QED
    BY <1>2, <2>1, ConfiguracaoAssumption DEF TempoInv, TypeOK
<1>5. ClaimDoMinuto'
  BY <1>1, <1>2 DEF TempoInv, ClaimDoMinuto, locais, TypeOK
<1>6. EsperaCurta' /\ CandidataEmTempo'
  BY <1>1, <1>2, <1>3 DEF TempoInv, EsperaCurta, CandidataEmTempo, locais, TypeOK
<1>7. EmTempo'
  BY <1>1, <1>2, <1>3, <1>4 DEF TempoInv, EmTempo, TypeOK
<1> QED
  BY <1>5, <1>6, <1>7

LEMMA DispararTempo ==
    ASSUME TempoInv, NEW c \in Chamada, Disparar(c)
    PROVE  ClaimDoMinuto' /\ EsperaCurta' /\ CandidataEmTempo' /\ EmTempo'
<1>1. \A d \in Chamada : pc[d] = "ocioso" /\ pendentes[d] = {}
  BY DEF TempoInv, UmaPorVez, Disparar, CandidataEmTempo, TypeOK
<1>2. /\ UNCHANGED <<relogio, reservada, execucao, pendentes, falhas>>
      /\ pc'[c] = "listar" /\ \A d \in Chamada \ {c} : pc'[d] = "ocioso"
  BY <1>1 DEF Disparar, Chamar, tabelas, TempoInv, TypeOK
<1>3. \A k \in Chave : Limite(k)' = Limite(k)
  BY <1>2, LimiteAnda, PontualAssumption DEF TempoInv, UmaPorVez
<1>4. \A k \in Chave : ~ComChamada(k) /\ PorTentar(k)'
  BY <1>1, <1>2 DEF ComChamada, PorTentar, ComClaim
<1>5. ClaimDoMinuto' /\ CandidataEmTempo'
  BY <1>1, <1>2 DEF ClaimDoMinuto, CandidataEmTempo, ComClaim
<1>6. EsperaCurta' /\ EmTempo'
  BY <1>2, <1>3, <1>4 DEF TempoInv, EsperaCurta, EmTempo
<1> QED
  BY <1>5, <1>6

LEMMA SozinhaSegue ==
    ASSUME TempoInv, NEW c \in Chamada, Prosseguir(c) \/ FalharPasso(c)
    PROVE  Sozinha(c) /\ Sozinha(c)'
<1>1. TypeOK /\ UmaPorVez /\ Anda(c)
  BY CallAnda DEF TempoInv
<1>2. Sozinha(c)
  BY <1>1 DEF Sozinha, Anda, UmaPorVez, TempoInv, CandidataEmTempo, TypeOK
<1> QED
  BY <1>1, <1>2 DEF Sozinha, Anda

LEMMA QuadroDaChamada ==
    ASSUME TempoInv, NEW c \in Chamada, Prosseguir(c) \/ FalharPasso(c), NEW k \in Chave
    PROVE  Quadro(c, k)
<1>1. TypeOK /\ UmaPorVez /\ Anda(c)
  BY CallAnda DEF TempoInv
<1>2. TempoDe(c, k)
  BY SozinhaSegue, TempoDaChamada
<1>3. falhas \in Nat /\ falhas' \in Nat /\ disparado' = disparado
  BY <1>1, PontualAssumption DEF UmaPorVez, Prosseguir, FalharPasso
<1>4. Limite(k) \in Int /\ Limite(k)' \in Int
  BY <1>3, LimiteAnda
<1> QED
  BY <1>1, <1>2, <1>3, <1>4, ConfiguracaoAssumption, DemoraPositiva
  DEF Quadro, Anda, UmaPorVez, TypeOK

\* A step that does not fail.
LEMMA ProsseguirTempo ==
    ASSUME TempoInv, TempoSuficiente, NEW c \in Chamada, Prosseguir(c), NEW k \in Chave
    PROVE  TempoDe(c, k)'
<1> USE DEF Quadro, TempoDe, ClaimDe, ComClaim, Terminal, tabelas, locais
<1>0. Quadro(c, k) /\ TypeOK
  BY QuadroDaChamada DEF TempoInv
<1>1. Limite(k)' = Limite(k)
  BY LimiteAnda, PontualAssumption DEF Prosseguir, TempoInv, UmaPorVez
<1>2. CASE Listar(c)
  <2>1. Limite(k) < Partida[k] /\ Fechamento(k) <= Limite(k)
    <3>1. falhas \in 0 .. MaxFalhas /\ falhas \in Nat /\ falhas' \in Nat
      BY PontualAssumption DEF TempoInv, UmaPorVez, Prosseguir
    <3>2. Limite(k) \in Int /\ Fechamento(k) \in Int /\ Fechamento(k) + AtrasoReserva <= Limite(k)
      BY <3>1, LimiteAnda
    <3> QED
      BY <3>1, <3>2, LimiteAntesDaPartida, ConfiguracaoAssumption
  <2>2. pc'[c] = "varrer" /\ UNCHANGED <<execucao, alvo>> /\ pc[c] = "listar"
        /\ (k \in pendentes'[c] <=> reservada[k] /\ Devida(k, relogio))
    BY <1>0, <1>2 DEF Listar, TypeOK
  <2>3. Fechamento(k) \in Int /\ Partida[k] \in Nat
    BY ConfiguracaoAssumption DEF Fechamento
  <2>4. reservada[k] /\ execucao[k].status \notin Terminal /\ ~Devida(k, relogio) => relogio < Limite(k)
    BY <1>0, <2>1, <2>3 DEF Devida
  <2> QED
    BY <1>0, <1>1, <2>2, <2>4
<1>3. CASE Ler(c)
  BY <1>0, <1>1, <1>3 DEF Ler, TypeOK
<1>4. CASE Gravar(c) \/ GravarJaExiste(c)
  BY <1>0, <1>1, <1>4 DEF Gravar, GravarJaExiste, TypeOK
<1>5. CASE Finalizar(c)
  <2>1. Finalizada(alvo[c], resultado[c]).status = resultado[c] /\ resultado[c] \in Terminal
        /\ alvo[c] \in Chave
    BY <1>0, <1>5 DEF Finalizar, Finalizada, Encerrada, TypeOK
  <2> QED
    BY <1>0, <1>1, <1>5, <2>1 DEF Finalizar, ProximoCandidato, TypeOK
<1>6. CASE Falhar(c)
  <2>1. Falhada(alvo[c], agora[c], tentativa[c]).status = "falhou" /\ alvo[c] \in Chave
        /\ Falhada(alvo[c], agora[c], tentativa[c]).proximaTentativaEm
              = relogio + IntervaloRetry(tentativa[c])
    BY <1>0, <1>6 DEF Falhar, Falhada, Encerrada, TypeOK
  <2>2. IntervaloRetry(tentativa[c]) \in Int /\ IntervaloRetry(tentativa[c]) <= Demora
    BY ConfiguracaoAssumption, IntervaloRetryLimitado, DemoraPositiva
  <2>3. pc[c] = "falhar" /\ pc'[c] = "varrer" /\ UNCHANGED pendentes
        /\ execucao' = [execucao EXCEPT ![alvo[c]] = Falhada(alvo[c], agora[c], tentativa[c])]
    BY <1>0, <1>6 DEF Falhar, ProximoCandidato, TypeOK
  <2>4. CASE k = alvo[c]
    <3>1. relogio + Demora <= Limite(k) /\ execucao'[k] = Falhada(alvo[c], agora[c], tentativa[c])
      BY <1>0, <2>3, <2>4 DEF TypeOK
    <3> QED
      BY <1>0, <1>1, <2>1, <2>2, <2>3, <3>1
  <2>5. CASE k # alvo[c]
    <3>1. execucao'[k] = execucao[k]
      BY <1>0, <2>3, <2>5 DEF TypeOK
    <3> QED
      BY <1>0, <1>1, <2>3, <2>5, <3>1
  <2> QED
    BY <2>4, <2>5
<1>7. CASE Retornar(c)
  BY <1>0, <1>1, <1>7 DEF Retornar, Encerra, TypeOK
<1>8. ASSUME NEW j \in Chave, Adquirir(c, j) PROVE TempoDe(c, k)'
  <2>1. Iniciada(j, agora[c]).status = "processando"
        /\ Iniciada(j, agora[c]).bloqueioExpiraEm = relogio + DuracaoBloqueio
    BY <1>0 DEF Iniciada
  <2>2. /\ execucao' = [execucao EXCEPT ![j] = Iniciada(j, agora[c])]
        /\ alvo'[c] = j /\ pc'[c] = "ler" /\ pc[c] = "varrer"
        /\ pendentes'[c] = pendentes[c] \ {j} /\ j \in pendentes[c]
        /\ execucao[j].status \notin Terminal
    BY <1>0, <1>8 DEF Adquirir, PodeIniciar, TypeOK
  <2>3. CASE k = j
    BY <1>0, <1>1, <2>1, <2>2, <2>3 DEF TypeOK
  <2>4. CASE k # j
    <3>1. execucao'[k] = execucao[k]
      BY <1>0, <2>2, <2>4 DEF TypeOK
    <3> QED
      BY <1>0, <1>1, <2>2, <2>4, <3>1
  <2> QED
    BY <2>3, <2>4
<1>9. ASSUME NEW j \in Chave, Recusar(c, j) PROVE TempoDe(c, k)'
  <2>1. pc'[c] = "varrer" /\ pc[c] = "varrer" /\ UNCHANGED <<execucao, alvo>>
        /\ pendentes'[c] = pendentes[c] \ {j} /\ ~PodeIniciar(j, relogio)
    BY <1>0, <1>9 DEF Recusar, TypeOK
  <2>2. CASE k = j
    <3>1. execucao[k].status \in Terminal \/ relogio < Limite(k)
      BY <1>0, <2>1, <2>2 DEF PodeIniciar, Execucao, Status, Instante, Nulo
    <3> QED
      BY <1>0, <1>1, <2>1, <3>1
  <2> QED
    BY <1>0, <1>1, <2>1, <2>2
<1> QED
  BY <1>2, <1>3, <1>4, <1>5, <1>6, <1>7, <1>8, <1>9 DEF Prosseguir, Passo, Chamar

\* A step that fails: the limit moves by as much as the next attempt is late.
LEMMA FalharTempo ==
    ASSUME TempoInv, NEW c \in Chamada, FalharPasso(c), NEW k \in Chave
    PROVE  TempoDe(c, k)'
<1> USE DEF Quadro, TempoDe, ClaimDe, ComClaim, Terminal, tabelas, locais
<1>0. Quadro(c, k) /\ TypeOK
  BY QuadroDaChamada DEF TempoInv
<1>1. Limite(k)' = Limite(k) + Demora
  BY LimiteAnda, PontualAssumption DEF FalharPasso, TempoInv, UmaPorVez
<1>2. execucao[k].status = "falhou" => execucao[k].proximaTentativaEm \in Int
  BY <1>0 DEF Execucao, Instante, Nulo
<1>3. execucao[k].bloqueioExpiraEm \in Int
  BY <1>0 DEF Execucao, Instante, Nulo
<1>4. CASE PlanejarErro(c)
  BY <1>0, <1>1, <1>2, <1>3, <1>4 DEF PlanejarErro, TypeOK
<1>5. CASE GravarSemResposta(c)
  BY <1>0, <1>1, <1>2, <1>3, <1>5 DEF GravarSemResposta, TypeOK
<1>6. CASE EncerrarErro(c)
  BY <1>0, <1>1, <1>2, <1>3, <1>6 DEF EncerrarErro, ProximoCandidato, TypeOK
<1>7. CASE Interromper(c)
  BY <1>0, <1>1, <1>2, <1>3, <1>7 DEF Interromper, Encerra, TypeOK
<1>8. ASSUME NEW j \in Chave, IniciarErro(c, j) PROVE TempoDe(c, k)'
  BY <1>0, <1>1, <1>2, <1>3, <1>8 DEF IniciarErro, TypeOK
<1> QED
  BY <1>4, <1>5, <1>6, <1>7, <1>8 DEF FalharPasso, Falha

LEMMA TempoNext ==
    ASSUME TempoInv, TempoSuficiente, [NextPontual]_varsPontual
    PROVE  TempoInv'
<1>1. TypeOK' /\ UmaPorVez'
  BY PassoPontual, TipoNext, UmaSegue DEF TempoInv
<1>2. CASE TickPontual
  BY <1>1, <1>2, TickTempo DEF TempoInv
<1>3. CASE Passageiros /\ UNCHANGED <<disparado, falhas>>
  BY <1>1, <1>3, PassageirosTempo DEF TempoInv
<1>4. ASSUME NEW c \in Chamada, Disparar(c) PROVE TempoInv'
  BY <1>1, <1>4, DispararTempo DEF TempoInv
<1>5. ASSUME NEW c \in Chamada, Prosseguir(c) \/ FalharPasso(c) PROVE TempoInv'
  <2>1. \A k \in Chave : TempoDe(c, k)'
    BY <1>5, ProsseguirTempo, FalharTempo
  <2>2. Sozinha(c)'
    BY <1>5, SozinhaSegue
  <2> QED
    BY <1>1, <2>1, <2>2, TempoDaUnica DEF TempoInv
<1>6. CASE UNCHANGED varsPontual
  BY <1>6 DEF TempoInv, varsPontual, vars, tabelas, locais, TypeOK, UmaPorVez, ClaimDoMinuto, EsperaCurta,
              CandidataEmTempo, EmTempo, PorTentar, ComChamada, Limite
<1> QED
  BY <1>2, <1>3, <1>4, <1>5, <1>6 DEF NextPontual

\* The leases and the backoff leave enough attempts before departure: a key that still
\* has a confirmed reserva at departure has its trips, and its row says so, whatever up
\* to MaxFalhas steps did, as long as those delays fit between closing and departure.
THEOREM PlanejadasATempo ==
    ASSUME TempoSuficiente
    PROVE  SpecPontual => []PlanejadaAtePartida
<1>1. TempoInv /\ [NextPontual]_varsPontual => TempoInv'
  BY TempoNext
<1>2. TempoInv /\ ConcluidoTemPlano /\ SemDemandaSemReserva => PlanejadaAtePartida
  <2> SUFFICES ASSUME TempoInv, ConcluidoTemPlano, SemDemandaSemReserva,
                      NEW k \in Chave, relogio >= Partida[k], reservada[k]
               PROVE  plano[k] /\ execucao[k].status = "concluido"
    BY DEF PlanejadaAtePartida
  <2>1. Limite(k) \in Int /\ Limite(k) < Partida[k]
    BY LimiteAntesDaPartida DEF TempoInv, UmaPorVez
  <2>2. execucao[k].status \in Terminal
    BY <2>1, ConfiguracaoAssumption DEF TempoInv, EmTempo, TypeOK
  <2> QED
    BY <2>2 DEF Terminal, SemDemandaSemReserva, ConcluidoTemPlano
<1>3. SpecPontual => []SemDemandaSemReserva
  BY PontualProcessa, SemDemandaVerdadeira, PTL
<1> QED
  BY <1>1, <1>2, <1>3, InicioTempo, ConcluidoComViagens, PTL DEF SpecPontual
=============================================================================
