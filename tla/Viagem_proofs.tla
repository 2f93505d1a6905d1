--------------------------- MODULE Viagem_proofs ---------------------------
(* Theorems about Viagem, for every value of its constants: any fleet, any  *)
(* number of cities, reservas, requests and crashes.  What the allocation   *)
(* and the distribution compute is taken from Distribuicao_proofs.          *)
EXTENDS Viagem, Distribuicao_proofs

-----------------------------------------------------------------------------
(* Types *)

FasesIda   == {"listar", "alocar", "escalar", "gravar"}
FasesVolta == {"listar_ciclos", "listar_volta", "gravar_volta"}

\* A plan of the outbound trips, as far as it has come.
PlanoIda ==
    /\ plano.fase \in FasesIda => plano.sentido = "ida"
    /\ plano.fase \in {"alocar", "escalar", "gravar"} =>
          \A r \in plano.reservas : chaveDe[r] = plano.chave /\ sentidoDe[r] = "ida"
    /\ plano.fase \in {"escalar", "gravar"} =>
          /\ plano.veiculos \in Seq(Veiculo) /\ plano.veiculos # <<>> /\ Distinta(plano.veiculos)
          /\ plano.lugares \in [DOMAIN plano.veiculos -> Nat]
    /\ plano.fase = "gravar" =>
          /\ plano.motoristas \in Seq(Motorista) /\ Distinta(plano.motoristas)
          /\ Len(plano.motoristas) = Len(plano.veiculos)

\* A plan of the return: its vehicles are ciclos of the key.
PlanoVolta ==
    /\ plano.fase \in FasesVolta => plano.sentido = "volta"
    /\ plano.fase \in {"listar_volta", "gravar_volta"} =>
          /\ plano.veiculos \in Seq(DaChave(plano.chave)) /\ plano.veiculos # <<>>
          /\ Distinta(plano.veiculos)
          /\ plano.lugares \in [DOMAIN plano.veiculos -> Nat]
    /\ plano.fase = "gravar_volta" =>
          \A r \in plano.reservas : chaveDe[r] = plano.chave /\ sentidoDe[r] = "volta"

PlanoTipo ==
    /\ plano.fase \in {"ocioso"} \cup FasesIda \cup FasesVolta \cup Terminal
    /\ plano.fase # "ocioso" =>
          /\ plano.chave \in Chave /\ plano.sentido \in Sentido
          /\ execucao[<<plano.chave, plano.sentido>>] = "processando"
    /\ PlanoIda /\ PlanoVolta

\* Who rides in a trip has a reserva of its direction and of the key of its ciclo.
LinhasTipo ==
    /\ DOMAIN presenca \subseteq (DOMAIN viagem) \X Reserva
    /\ \A l \in DOMAIN presenca : /\ sentidoDe[l[2]] = l[1][2]
                                  /\ chaveDe[l[2]] = ciclos[l[1][1]].chave

Tipo == TypeOK /\ PlanoTipo /\ LinhasTipo

\* What the insertion of trips that did not exist leaves behind.
Insercao(ids, s, carga) ==
    /\ DOMAIN viagem' = DOMAIN viagem \cup {<<ids[j], s>> : j \in DOMAIN ids}
    /\ \A v \in DOMAIN viagem : viagem'[v] = viagem[v]
    /\ \A j \in DOMAIN ids : viagem'[<<ids[j], s>>] = "programada" /\ <<ids[j], s>> \notin DOMAIN viagem
    /\ DOMAIN presenca' = DOMAIN presenca \cup LinhasDaCarga(ids, s, carga)
    /\ \A l \in DOMAIN presenca : presenca'[l] = presenca[l]
    /\ \A l \in LinhasDaCarga(ids, s, carga) : presenca'[l] = "aguardando" /\ l \notin DOMAIN presenca

LEMMA InserirInsere ==
    ASSUME NEW ids, NEW s, NEW carga, Inserir(ids, s, carga), LinhasTipo,
           \A j \in DOMAIN ids : <<ids[j], s>> \notin DOMAIN viagem
    PROVE  Insercao(ids, s, carga)
<1> DEFINE dentro == LinhasDaCarga(ids, s, carga)
           trips  == {<<ids[j], s>> : j \in DOMAIN ids}
<1>1. /\ viagem' = [v \in DOMAIN viagem \cup trips |-> IF v \in trips THEN "programada" ELSE viagem[v]]
      /\ presenca' = [l \in DOMAIN presenca \cup dentro |-> IF l \in dentro THEN "aguardando" ELSE presenca[l]]
  BY DEF Inserir
<1>2. \A v \in trips : v \notin DOMAIN viagem
  OBVIOUS
<1>3. \A l \in dentro : l[1] \in trips
  BY DEF LinhasDaCarga
<1>4. \A l \in dentro : l \notin DOMAIN presenca
  BY <1>2, <1>3 DEF LinhasTipo
<1> HIDE DEF dentro
<1>5. /\ DOMAIN viagem' = DOMAIN viagem \cup trips
      /\ \A v \in DOMAIN viagem : viagem'[v] = viagem[v]
      /\ \A v \in trips : viagem'[v] = "programada"
  BY <1>1, <1>2
<1>6. /\ DOMAIN presenca' = DOMAIN presenca \cup dentro
      /\ \A l \in DOMAIN presenca : presenca'[l] = presenca[l]
      /\ \A l \in dentro : presenca'[l] = "aguardando"
  BY <1>1, <1>4
<1> QED
  BY <1>2, <1>4, <1>5, <1>6 DEF Insercao, dentro

LEMMA LinhaDaCarga ==
    ASSUME NEW ids, NEW s, NEW carga, NEW l
    PROVE  l \in LinhasDaCarga(ids, s, carga)
             <=> \E j \in DOMAIN ids : \E r \in carga[j] : l = <<<<ids[j], s>>, r>>
  BY DEF LinhasDaCarga

\* The distribution of a plan, whose passengers are reservas.
LEMMA CargaReparte ==
    ASSUME NEW R, R \subseteq Reserva, NEW n, n \in Nat, NEW cap, cap \in [1 .. n -> Nat]
    PROVE  /\ Reparte(R, cap, Distribuir(R, destinoDe, cap))
           /\ Distribuir(R, destinoDe, cap) \in [1 .. n -> SUBSET R]
<1>1. IsFiniteSet(R)
  <2>1. IsFiniteSet(Reserva) /\ R \in SUBSET Reserva
    BY DadosAssumption
  <2> QED
    BY <2>1, FS_Subset
<1>2. Passageiros(R, destinoDe)
  BY <1>1, DadosAssumption DEF Passageiros
<1>3. Capacidades(cap)
  <2>1. IsFiniteSet(DOMAIN cap)
    BY FS_Interval
  <2>2. \A i \in DOMAIN cap : i \in Nat /\ cap[i] \in Nat
    OBVIOUS
  <2> QED
    BY <2>1, <2>2 DEF Capacidades
<1>4. Reparte(R, cap, Distribuir(R, destinoDe, cap))
  BY <1>2, <1>3, DistribuirReparte
<1>5. Distribuir(R, destinoDe, cap) \in [DOMAIN cap -> SUBSET R]
  BY <1>4 DEF Reparte
<1> QED
  BY <1>4, <1>5

\* What GravarIda writes.
GravadaIda ==
    LET ids == [j \in DOMAIN plano.veiculos |-> Len(ciclos) + j]
        n   == Len(plano.veiculos)
    IN  /\ Len(ciclos) \in Nat /\ n \in Nat /\ n # 0 /\ Len(ciclos') = Len(ciclos) + n
        /\ ciclos' \in Seq([chave : Chave, veiculo : Veiculo, motorista : Motorista])
        /\ \A i \in 1 .. Len(ciclos) : ciclos'[i] = ciclos[i]
        /\ \A j \in 1 .. n : ciclos'[Len(ciclos) + j] = NovoCiclo(j)
        /\ Insercao(ids, "ida", CargaIda)

LEMMA GravarIdaGrava ==
    ASSUME Tipo, GravarIda
    PROVE  \/ JaAlocada(plano.reservas) /\ UNCHANGED <<ciclos, viagem, presenca>>
           \/ GravadaIda
<1> DEFINE ids == [j \in DOMAIN plano.veiculos |-> Len(ciclos) + j]
           n   == Len(plano.veiculos)
           novos == [j \in DOMAIN plano.veiculos |-> NovoCiclo(j)]
           C == [chave : Chave, veiculo : Veiculo, motorista : Motorista]
<1> SUFFICES ASSUME ~JaAlocada(plano.reservas) PROVE GravadaIda
  BY DEF GravarIda
<1>1. ciclos' = ciclos \o novos /\ Inserir(ids, "ida", CargaIda)
  BY DEF GravarIda
<1>2. /\ ciclos \in Seq(C) /\ DOMAIN viagem \subseteq (DOMAIN ciclos) \X Sentido
      /\ plano.fase = "gravar" /\ plano.chave \in Chave
  BY DEF Tipo, TypeOK, PlanoTipo, GravarIda
<1>3. /\ plano.veiculos \in Seq(Veiculo) /\ plano.veiculos # <<>>
      /\ plano.motoristas \in Seq(Motorista) /\ Len(plano.motoristas) = Len(plano.veiculos)
  BY <1>2 DEF Tipo, PlanoTipo, PlanoIda
<1>4. n \in Nat /\ n # 0 /\ DOMAIN plano.veiculos = 1 .. n /\ Len(ciclos) \in Nat
  BY <1>2, <1>3
<1>5. \A j \in 1 .. n : NovoCiclo(j) \in C
  BY <1>2, <1>3, <1>4 DEF NovoCiclo
<1>6. novos \in Seq(C) /\ Len(novos) = n /\ \A j \in 1 .. n : novos[j] = NovoCiclo(j)
  BY <1>4, <1>5
<1> HIDE DEF novos, C, n
<1>7. /\ ciclos' \in Seq(C) /\ Len(ciclos') = Len(ciclos) + n
      /\ \A i \in 1 .. Len(ciclos) : ciclos'[i] = ciclos[i]
      /\ \A j \in 1 .. n : ciclos'[Len(ciclos) + j] = novos[j]
  <2>1. ciclos \in Seq(C) /\ novos \in Seq(C) /\ Len(ciclos) \in Nat /\ Len(novos) \in Nat
    BY <1>2, <1>4, <1>6
  <2>2. ciclos' \in Seq(C) /\ Len(ciclos') = Len(ciclos) + Len(novos)
    BY <1>1, <2>1
  <2>3. ASSUME NEW i \in 1 .. Len(ciclos) PROVE ciclos'[i] = ciclos[i]
    BY <1>1, <2>1
  <2>4. ASSUME NEW j \in 1 .. Len(novos) PROVE ciclos'[Len(ciclos) + j] = novos[j]
    BY <1>1, <2>1
  <2> QED
    BY <1>6, <2>2, <2>3, <2>4
<1>8. \A j \in DOMAIN ids : <<ids[j], "ida">> \notin DOMAIN viagem
  <2> TAKE j \in DOMAIN ids
  <2>1. j \in 1 .. n /\ ids[j] = Len(ciclos) + j
    BY <1>4
  <2>2. ids[j] \notin DOMAIN ciclos
    BY <1>2, <1>4, <2>1
  <2> QED
    BY <1>2, <2>2
<1>9. Insercao(ids, "ida", CargaIda)
  <2> HIDE DEF ids
  <2> QED
    BY <1>1, <1>8, InserirInsere DEF Tipo
<1> QED
  BY <1>4, <1>6, <1>7, <1>9 DEF GravadaIda, n, C

\* What GravarVolta writes.
GravadaVolta ==
    /\ Insercao(plano.veiculos, "volta", Distribuir(plano.reservas, destinoDe, plano.lugares))
    /\ UNCHANGED ciclos

LEMMA GravarVoltaGrava ==
    ASSUME Tipo, GravarVolta
    PROVE  \/ /\ \/ \E j \in DOMAIN plano.veiculos : <<plano.veiculos[j], "volta">> \in DOMAIN viagem
                 \/ JaAlocada(plano.reservas)
              /\ UNCHANGED <<ciclos, viagem, presenca>>
           \/ GravadaVolta
<1> SUFFICES ASSUME ~\E j \in DOMAIN plano.veiculos : <<plano.veiculos[j], "volta">> \in DOMAIN viagem,
                    ~JaAlocada(plano.reservas)
             PROVE  GravadaVolta
  BY DEF GravarVolta
<1>1. Inserir(plano.veiculos, "volta", Distribuir(plano.reservas, destinoDe, plano.lugares))
  BY DEF GravarVolta
<1>2. LinhasTipo
  BY DEF Tipo
<1>3. Insercao(plano.veiculos, "volta", Distribuir(plano.reservas, destinoDe, plano.lugares))
  BY <1>1, <1>2, InserirInsere
<1> QED
  BY <1>3 DEF GravarVolta, GravadaVolta

\* The vehicles AlocarVeiculos takes.
Selecao == Selecionar(PlanejarCategorias(Lugares, Cardinality(plano.reservas)), VeiculosDisponiveis,
                      [v \in Veiculo |-> frota[v].categoria])

LEMMA FrotaTipo ==
    ASSUME TypeOK
    PROVE  /\ \A v \in Veiculo : frota[v].categoria \in Categoria /\ LugaresDe(v) \in Nat
           /\ IsFiniteSet(VeiculosDisponiveis) /\ VeiculosDisponiveis \subseteq Veiculo
           /\ \A v \in VeiculosDisponiveis : v \in Nat
           /\ \A v \in VeiculosDisponiveis, i \in DOMAIN ciclos : ciclos[i].veiculo # v
<1>1. \A v \in Veiculo : frota[v] \in [categoria : Categoria, ativo : BOOLEAN]
  BY DEF TypeOK
<1>2. \A v \in Veiculo : frota[v].categoria \in Categoria /\ LugaresDe(v) \in Nat
  BY <1>1, DadosAssumption DEF LugaresDe
<1>3. VeiculosDisponiveis \in SUBSET Veiculo
  BY DEF VeiculosDisponiveis
<1>4. IsFiniteSet(VeiculosDisponiveis)
  BY <1>3, DadosAssumption, FS_Subset
<1>5. \A v \in VeiculosDisponiveis : v \in Nat
  BY <1>3, DadosAssumption
<1>6. \A v \in VeiculosDisponiveis, i \in DOMAIN ciclos : ciclos[i].veiculo # v
  BY DEF VeiculosDisponiveis
<1> QED
  BY <1>2, <1>3, <1>4, <1>5, <1>6

LEMMA PlanoDasReservas ==
    ASSUME TypeOK
    PROVE  LET p == PlanejarCategorias(Lugares, Cardinality(plano.reservas)) IN
           /\ Cardinality(plano.reservas) \in Nat /\ Categorias(Lugares)
           /\ p \in Planos(Lugares, Cardinality(plano.reservas))
           /\ p \in [executivo : Nat, escolar : Nat, carro : Nat]
<1>1. Cardinality(plano.reservas) \in Nat
  <2>1. plano.reservas \in SUBSET Reserva
    BY DEF TypeOK
  <2> QED
    BY <2>1, DadosAssumption, FS_Subset, FS_CardinalityType
<1>2. Categorias(Lugares)
  BY DadosAssumption DEF Categorias
<1> QED
  BY <1>1, <1>2, PlanoDasCategorias, TipoDosPlanos

LEMMA SelecaoEscolhe ==
    ASSUME TypeOK, Selecao # <<>>
    PROVE  /\ Selecao \in Seq(VeiculosDisponiveis) /\ Selecao \in Seq(Veiculo) /\ Distinta(Selecao)
           /\ [j \in DOMAIN Selecao |-> LugaresDe(Selecao[j])] \in [DOMAIN Selecao -> Nat]
<1> DEFINE p == PlanejarCategorias(Lugares, Cardinality(plano.reservas))
           cat == [v \in Veiculo |-> frota[v].categoria]
           V == Selecao
<1>1. p \in [executivo : Nat, escolar : Nat, carro : Nat]
  BY PlanoDasReservas
<1>2. V = Selecionar(p, VeiculosDisponiveis, cat)
  BY DEF Selecao
<1> HIDE DEF p, cat, V
<1>3. V \in Seq(VeiculosDisponiveis) /\ Distinta(V)
  BY <1>1, <1>2, FrotaTipo, SelecionarEscolhe DEF V
<1>4. V \in Seq(Veiculo)
  BY <1>3, FrotaTipo
<1>5. [j \in DOMAIN V |-> LugaresDe(V[j])] \in [DOMAIN V -> Nat]
  <2>1. \A j \in DOMAIN V : V[j] \in Veiculo
    BY <1>4
  <2>2. \A j \in DOMAIN V : LugaresDe(V[j]) \in Nat
    BY <2>1, FrotaTipo
  <2> QED
    BY <2>2
<1> QED
  BY <1>3, <1>4, <1>5 DEF V

LEMMA MotoristasEmOrdem ==
    ASSUME NEW k
    PROVE  /\ Enumera(PorId(MotoristasDisponiveis(k)), MotoristasDisponiveis(k))
           /\ Len(PorId(MotoristasDisponiveis(k))) \in Nat
<1> DEFINE D == MotoristasDisponiveis(k)
<1>1. D \in SUBSET Motorista
  BY DEF MotoristasDisponiveis
<1>2. IsFiniteSet(D) /\ \A x \in D : x \in Nat
  BY <1>1, DadosAssumption, FS_Subset
<1> HIDE DEF D
<1>3. Enumera(PorId(D), D) /\ Cardinality(D) \in Nat
  BY <1>2, PorIdEnumera, FS_CardinalityType
<1>4. Len(PorId(D)) \in Nat
  BY <1>3 DEF Enumera
<1> QED
  BY <1>3, <1>4 DEF D

\* The drivers EscalarMotoristas takes, if there are enough of them.
LEMMA EscalaEscolhe ==
    ASSUME NEW k, NEW n \in Nat, n <= Len(PorId(MotoristasDisponiveis(k)))
    PROVE  LET M == SubSeq(PorId(MotoristasDisponiveis(k)), 1, n) IN
           /\ M \in Seq(Motorista) /\ Distinta(M) /\ Len(M) = n
           /\ \A j \in 1 .. n, i \in DOMAIN ciclos : ciclos[i].motorista # M[j]
<1> DEFINE D == MotoristasDisponiveis(k)
           O == PorId(D)
           M == SubSeq(O, 1, n)
<1>1. D \in SUBSET Motorista
  BY DEF MotoristasDisponiveis
<1>2. Enumera(O, D) /\ Len(O) \in Nat
  BY MotoristasEmOrdem
<1>3. \A d \in D, i \in DOMAIN ciclos : ciclos[i].motorista # d
  BY DEF MotoristasDisponiveis
<1>4. n <= Len(O)
  OBVIOUS
<1> HIDE DEF D, O
<1>5. O \in Seq(D) /\ Len(O) \in Nat /\ \A i, j \in 1 .. Len(O) : O[i] = O[j] => i = j
  BY <1>2 DEF Enumera
<1>6. M \in Seq(D) /\ Len(M) = n /\ \A j \in 1 .. n : M[j] = O[j] /\ M[j] \in D
  BY <1>4, <1>5
<1>7. Distinta(M)
  BY <1>4, <1>5, <1>6 DEF Distinta
<1>8. M \in Seq(Motorista)
  BY <1>1, <1>6
<1> QED
  BY <1>3, <1>6, <1>7, <1>8 DEF O, D

\* The ciclos ListarCiclos takes.
LEMMA CiclosEmOrdem ==
    ASSUME TypeOK, NEW k
    PROVE  LET C == PorId(CiclosParaVolta(k)) IN
           /\ C \in Seq(DaChave(k)) /\ C \in Seq(Nat) /\ Distinta(C)
           /\ [j \in DOMAIN C |-> Assento(C[j])] \in [DOMAIN C -> Nat]
<1> DEFINE D == CiclosParaVolta(k)
           C == PorId(D)
<1>1. D \in SUBSET DaChave(k) /\ D \in SUBSET DOMAIN ciclos
  BY DEF CiclosParaVolta, DaChave
<1>2. /\ DOMAIN ciclos = 1 .. Len(ciclos) /\ Len(ciclos) \in Nat
      /\ \A i \in DOMAIN ciclos : ciclos[i] \in [chave : Chave, veiculo : Veiculo, motorista : Motorista]
  <2> DEFINE R == [chave : Chave, veiculo : Veiculo, motorista : Motorista]
  <2>1. ciclos \in Seq(R)
    BY DEF TypeOK
  <2> HIDE DEF R
  <2>2. DOMAIN ciclos = 1 .. Len(ciclos) /\ Len(ciclos) \in Nat /\ \A i \in DOMAIN ciclos : ciclos[i] \in R
    BY <2>1
  <2> QED
    BY <2>2 DEF R
<1>3. IsFiniteSet(D) /\ \A i \in D : i \in Nat
  <2>1. IsFiniteSet(DOMAIN ciclos)
    BY <1>2, FS_Interval
  <2> QED
    BY <1>1, <1>2, <2>1, FS_Subset
<1>4. Enumera(C, D)
  BY <1>3, PorIdEnumera
<1> HIDE DEF D, C
<1>5. C \in Seq(D) /\ Distinta(C)
  BY <1>4 DEF Enumera, Distinta
<1>6. \A j \in DOMAIN C : C[j] \in D /\ C[j] \in DOMAIN ciclos
  BY <1>1, <1>5
<1>7. \A j \in DOMAIN C : Assento(C[j]) \in Nat
  <2> TAKE j \in DOMAIN C
  <2>1. ciclos[C[j]] \in [chave : Chave, veiculo : Veiculo, motorista : Motorista]
    BY <1>2, <1>6
  <2>2. ciclos[C[j]].veiculo \in Veiculo
    BY <2>1
  <2> QED
    BY <2>2, FrotaTipo DEF Assento
<1>8. C \in Seq(DaChave(k)) /\ C \in Seq(Nat)
  BY <1>1, <1>3, <1>5
<1> QED
  BY <1>5, <1>7, <1>8 DEF C, D

LEMMA TipoAbrir ==
    ASSUME Tipo, NEW k \in Chave, NEW s \in Sentido, Abrir(k, s)
    PROVE  Tipo'
<1>1. /\ plano' = [SemPlano EXCEPT !.fase = (IF s = "ida" THEN "listar" ELSE "listar_ciclos"),
                                   !.chave = k, !.sentido = s]
      /\ execucao' = [execucao EXCEPT ![<<k, s>>] = "processando"]
      /\ UNCHANGED <<confirmada, ciclos, viagem, horarios, presenca, envios, posicao, frota, editados,
                     pontuais, eventos>>
  BY DEF Abrir, demais, cadastro
<1>2. /\ DOMAIN plano' = DOMAIN SemPlano /\ plano'.reservas = {}
      /\ plano'.fase = (IF s = "ida" THEN "listar" ELSE "listar_ciclos")
      /\ plano'.chave = k /\ plano'.sentido = s
  BY <1>1 DEF SemPlano
<1>3. execucao' \in [Chave \X Sentido -> {"ausente", "processando"} \cup Terminal]
  BY <1>1 DEF Tipo, TypeOK
<1>4. execucao'[<<k, s>>] = "processando"
  BY <1>1 DEF Tipo, TypeOK
<1>5. TypeOK'
  BY <1>1, <1>2, <1>3 DEF Tipo, TypeOK
<1>6. PlanoTipo'
  BY <1>2, <1>4 DEF PlanoTipo, PlanoIda, PlanoVolta, FasesIda, FasesVolta, Sentido
<1>7. LinhasTipo'
  BY <1>1 DEF Tipo, LinhasTipo
<1> QED
  BY <1>5, <1>6, <1>7 DEF Tipo

\* Steps of the plan that write no table.
LEMMA TipoDoPlano ==
    ASSUME Tipo, UNCHANGED <<tabelas, demais>>,
           DOMAIN plano' = DOMAIN SemPlano, plano'.reservas \subseteq Reserva, PlanoTipo'
    PROVE  Tipo'
<1>1. UNCHANGED <<confirmada, ciclos, viagem, horarios, presenca, execucao, envios, posicao, frota, editados,
                  pontuais, eventos>>
  BY DEF tabelas, demais, cadastro
<1>2. TypeOK'
  BY <1>1 DEF Tipo, TypeOK
<1>3. LinhasTipo'
  BY <1>1 DEF Tipo, LinhasTipo
<1> QED
  BY <1>2, <1>3 DEF Tipo

\* A call that ended, or died, leaves no plan.
LEMMA TipoSemPlano ==
    ASSUME plano' = SemPlano
    PROVE  DOMAIN plano' = DOMAIN SemPlano /\ plano'.reservas \subseteq Reserva /\ PlanoTipo'
  BY DEF SemPlano, PlanoTipo, PlanoIda, PlanoVolta, FasesIda, FasesVolta

LEMMA TipoListar ==
    ASSUME Tipo, Listar
    PROVE  Tipo'
<1> DEFINE R == Confirmadas(plano.chave, "ida")
<1>1. plano.fase = "listar" /\ UNCHANGED <<tabelas, demais>>
  BY DEF Listar
<1>2. plano' = [plano EXCEPT !.reservas = R, !.fase = IF R = {} THEN "sem_demanda" ELSE "alocar"]
  BY DEF Listar
<1>3. DOMAIN plano = DOMAIN SemPlano /\ confirmada \subseteq Reserva
  BY DEF Tipo, TypeOK
<1> HIDE DEF R
<1>4. /\ DOMAIN plano' = DOMAIN SemPlano /\ plano'.reservas = R
      /\ plano'.fase = (IF R = {} THEN "sem_demanda" ELSE "alocar")
      /\ plano'.chave = plano.chave /\ plano'.sentido = plano.sentido
  BY <1>2, <1>3 DEF SemPlano
<1>5. R \subseteq Reserva /\ \A r \in R : chaveDe[r] = plano.chave /\ sentidoDe[r] = "ida"
  BY <1>3 DEF R, Confirmadas
<1>6. /\ plano.chave \in Chave /\ plano.sentido = "ida"
      /\ execucao[<<plano.chave, plano.sentido>>] = "processando"
  BY <1>1 DEF Tipo, PlanoTipo, PlanoIda, FasesIda
<1>7. execucao' = execucao
  BY <1>1 DEF tabelas
<1>8. PlanoTipo'
  BY <1>4, <1>5, <1>6, <1>7 DEF PlanoTipo, PlanoIda, PlanoVolta, FasesIda, FasesVolta, Terminal, Sentido
<1> QED
  BY <1>1, <1>4, <1>5, <1>8, TipoDoPlano

LEMMA TipoAlocar ==
    ASSUME Tipo, AlocarVeiculos
    PROVE  Tipo'
<1> DEFINE V == Selecao
           L == [j \in DOMAIN V |-> LugaresDe(V[j])]
<1>1. plano.fase = "alocar" /\ UNCHANGED <<tabelas, demais>>
  BY DEF AlocarVeiculos
<1>2. IF V = <<>> THEN plano' = SemPlano
                  ELSE plano' = [plano EXCEPT !.veiculos = V, !.fase = "escalar", !.lugares = L]
  BY DEF AlocarVeiculos, Selecao, Falhar
<1>3. CASE V = <<>>
  BY <1>1, <1>2, <1>3, TipoSemPlano, TipoDoPlano
<1>4. CASE V # <<>>
  <2>1. V \in Seq(Veiculo) /\ Distinta(V) /\ L \in [DOMAIN V -> Nat]
    BY <1>4, SelecaoEscolhe DEF Tipo
  <2>2. DOMAIN plano = DOMAIN SemPlano /\ plano.reservas \subseteq Reserva
    BY DEF Tipo, TypeOK
  <2> HIDE DEF V, L
  <2>3. /\ DOMAIN plano' = DOMAIN SemPlano /\ plano'.reservas = plano.reservas
        /\ plano'.fase = "escalar" /\ plano'.veiculos = V /\ plano'.lugares = L
        /\ plano'.chave = plano.chave /\ plano'.sentido = plano.sentido
    BY <1>2, <1>4, <2>2 DEF SemPlano
  <2>4. /\ plano.chave \in Chave /\ plano.sentido = "ida"
        /\ execucao[<<plano.chave, plano.sentido>>] = "processando"
        /\ \A r \in plano.reservas : chaveDe[r] = plano.chave /\ sentidoDe[r] = "ida"
    BY <1>1 DEF Tipo, PlanoTipo, PlanoIda, FasesIda
  <2>5. execucao' = execucao
    BY <1>1 DEF tabelas
  <2>6. PlanoTipo'
    BY <1>4, <2>1, <2>3, <2>4, <2>5 DEF PlanoTipo, PlanoIda, PlanoVolta, FasesIda, FasesVolta, Sentido
  <2> QED
    BY <1>1, <2>2, <2>3, <2>6, TipoDoPlano
<1> QED
  BY <1>3, <1>4

LEMMA TipoEscalar ==
    ASSUME Tipo, EscalarMotoristas
    PROVE  Tipo'
<1> DEFINE O == PorId(MotoristasDisponiveis(plano.chave))
           n == Len(plano.veiculos)
           M == SubSeq(O, 1, n)
<1>1. plano.fase = "escalar" /\ UNCHANGED <<tabelas, demais>>
  BY DEF EscalarMotoristas
<1>2. IF Len(O) < n THEN plano' = SemPlano
                    ELSE plano' = [plano EXCEPT !.motoristas = M, !.fase = "gravar"]
  BY DEF EscalarMotoristas, Falhar
<1>3. /\ plano.chave \in Chave /\ plano.sentido = "ida"
      /\ execucao[<<plano.chave, plano.sentido>>] = "processando"
      /\ \A r \in plano.reservas : chaveDe[r] = plano.chave /\ sentidoDe[r] = "ida"
      /\ plano.veiculos \in Seq(Veiculo) /\ plano.veiculos # <<>> /\ Distinta(plano.veiculos)
      /\ plano.lugares \in [DOMAIN plano.veiculos -> Nat]
  BY <1>1 DEF Tipo, PlanoTipo, PlanoIda, FasesIda
<1>4. CASE Len(O) < n
  BY <1>1, <1>2, <1>4, TipoSemPlano, TipoDoPlano
<1>5. CASE ~(Len(O) < n)
  <2>1. n \in Nat /\ Len(O) \in Nat
    <3>1. n \in Nat
      BY <1>3
    <3>2. Len(O) \in Nat
      BY MotoristasEmOrdem
    <3> QED
      BY <3>1, <3>2
  <2>2. M \in Seq(Motorista) /\ Distinta(M) /\ Len(M) = n
    <3>1. n <= Len(O)
      BY <1>5, <2>1
    <3> QED
      BY <2>1, <3>1, EscalaEscolhe
  <2>3. DOMAIN plano = DOMAIN SemPlano /\ plano.reservas \subseteq Reserva
    BY DEF Tipo, TypeOK
  <2> HIDE DEF M, O
  <2>4. /\ DOMAIN plano' = DOMAIN SemPlano /\ plano'.reservas = plano.reservas
        /\ plano'.fase = "gravar" /\ plano'.motoristas = M
        /\ plano'.veiculos = plano.veiculos /\ plano'.lugares = plano.lugares
        /\ plano'.chave = plano.chave /\ plano'.sentido = plano.sentido
    BY <1>2, <1>5, <2>3 DEF SemPlano
  <2>5. execucao' = execucao
    BY <1>1 DEF tabelas
  <2>6. PlanoTipo'
    BY <1>3, <2>2, <2>4, <2>5 DEF PlanoTipo, PlanoIda, PlanoVolta, FasesIda, FasesVolta, Sentido
  <2> QED
    BY <1>1, <2>3, <2>4, <2>6, TipoDoPlano
<1> QED
  BY <1>4, <1>5

LEMMA TipoGravarIda ==
    ASSUME Tipo, GravarIda
    PROVE  Tipo'
<1> DEFINE ids == [j \in DOMAIN plano.veiculos |-> Len(ciclos) + j]
           n   == Len(plano.veiculos)
           C   == [chave : Chave, veiculo : Veiculo, motorista : Motorista]
<1>1. /\ plano.fase = "gravar" /\ plano' = [plano EXCEPT !.fase = "concluido"]
      /\ UNCHANGED <<confirmada, horarios, execucao, envios, posicao, frota, editados, pontuais, eventos>>
  BY DEF GravarIda, Passo, demais, cadastro
<1>2. DOMAIN plano = DOMAIN SemPlano /\ plano.reservas \subseteq Reserva
  BY DEF Tipo, TypeOK
<1>3. /\ plano.chave \in Chave /\ plano.sentido = "ida"
      /\ execucao[<<plano.chave, plano.sentido>>] = "processando"
      /\ \A r \in plano.reservas : chaveDe[r] = plano.chave /\ sentidoDe[r] = "ida"
      /\ plano.veiculos \in Seq(Veiculo) /\ plano.lugares \in [DOMAIN plano.veiculos -> Nat]
  BY <1>1 DEF Tipo, PlanoTipo, PlanoIda, FasesIda
<1>4. /\ DOMAIN plano' = DOMAIN SemPlano /\ plano'.fase = "concluido" /\ plano'.chave = plano.chave
      /\ plano'.sentido = plano.sentido /\ plano'.reservas = plano.reservas
  BY <1>1, <1>2 DEF SemPlano
<1>5. PlanoTipo'
  BY <1>1, <1>3, <1>4 DEF PlanoTipo, PlanoIda, PlanoVolta, FasesIda, FasesVolta, Terminal, Sentido
<1>6. CASE UNCHANGED <<ciclos, viagem, presenca>>
  <2>1. TypeOK'
    BY <1>1, <1>2, <1>4, <1>6 DEF Tipo, TypeOK
  <2>2. LinhasTipo'
    BY <1>6 DEF Tipo, LinhasTipo
  <2> QED
    BY <1>5, <2>1, <2>2 DEF Tipo
<1>7. CASE GravadaIda
  <2>1. /\ Len(ciclos) \in Nat /\ n \in Nat /\ n # 0 /\ Len(ciclos') = Len(ciclos) + n /\ ciclos' \in Seq(C)
        /\ \A i \in 1 .. Len(ciclos) : ciclos'[i] = ciclos[i]
        /\ \A j \in 1 .. n : ciclos'[Len(ciclos) + j] = NovoCiclo(j)
        /\ Insercao(ids, "ida", CargaIda)
    BY <1>7 DEF GravadaIda
  <2>2. /\ ciclos \in Seq(C) /\ DOMAIN viagem \subseteq (DOMAIN ciclos) \X Sentido
        /\ Range(viagem) \subseteq {"programada", "em_andamento", "concluida", "cancelada"}
        /\ Range(presenca) \subseteq Ativas \cup {"cancelado"}
        /\ DOMAIN presenca \subseteq (DOMAIN viagem) \X Reserva
    BY DEF Tipo, TypeOK, LinhasTipo
  <2> HIDE DEF C
  <2>3. /\ DOMAIN ciclos = 1 .. Len(ciclos) /\ DOMAIN ciclos' = 1 .. Len(ciclos')
        /\ DOMAIN ids = 1 .. n /\ \A j \in 1 .. n : ids[j] = Len(ciclos) + j
    BY <1>3, <2>1, <2>2
  <2>4. DOMAIN ciclos \subseteq DOMAIN ciclos' /\ \A j \in 1 .. n : ids[j] \in DOMAIN ciclos'
    BY <2>1, <2>3
  <2>5. \A l \in LinhasDaCarga(ids, "ida", CargaIda) :
            \E j \in 1 .. n : l[1] = <<ids[j], "ida">> /\ l = <<l[1], l[2]>> /\ l[2] \in plano.reservas
    <3>1. plano.lugares \in [1 .. n -> Nat]
      BY <1>3
    <3>2. CargaIda \in [1 .. n -> SUBSET plano.reservas]
      BY <1>2, <2>1, <3>1, CargaReparte DEF CargaIda
    <3> HIDE DEF ids, n
    <3> TAKE l \in LinhasDaCarga(ids, "ida", CargaIda)
    <3>3. PICK j \in DOMAIN ids : \E r \in CargaIda[j] : l = <<<<ids[j], "ida">>, r>>
      BY LinhaDaCarga
    <3>4. j \in 1 .. n /\ CargaIda[j] \subseteq plano.reservas
      BY <2>3, <3>2, <3>3
    <3> QED
      BY <3>3, <3>4
  <2> HIDE DEF ids
  <2>6. /\ DOMAIN viagem' = DOMAIN viagem \cup {<<ids[j], "ida">> : j \in 1 .. n}
        /\ \A v \in DOMAIN viagem : viagem'[v] = viagem[v]
        /\ \A j \in 1 .. n : viagem'[<<ids[j], "ida">>] = "programada"
        /\ DOMAIN presenca' = DOMAIN presenca \cup LinhasDaCarga(ids, "ida", CargaIda)
        /\ \A l \in DOMAIN presenca : presenca'[l] = presenca[l]
        /\ \A l \in LinhasDaCarga(ids, "ida", CargaIda) : presenca'[l] = "aguardando"
    BY <2>1, <2>3 DEF Insercao
  <2>7. DOMAIN viagem' \subseteq (DOMAIN ciclos') \X Sentido
    BY <2>2, <2>4, <2>6 DEF Sentido
  <2>8. /\ Range(viagem') \subseteq {"programada", "em_andamento", "concluida", "cancelada"}
        /\ Range(presenca') \subseteq Ativas \cup {"cancelado"}
    <3>1. \A v \in DOMAIN viagem' : viagem'[v] \in Range(viagem) \cup {"programada"}
      BY <2>6 DEF Range
    <3>2. \A l \in DOMAIN presenca' : presenca'[l] \in Range(presenca) \cup {"aguardando"}
      BY <2>6 DEF Range
    <3>3. Range(viagem') \subseteq Range(viagem) \cup {"programada"}
      BY <3>1 DEF Range
    <3>4. Range(presenca') \subseteq Range(presenca) \cup {"aguardando"}
      BY <3>2 DEF Range
    <3> QED
      BY <2>2, <3>3, <3>4 DEF Ativas
  <2>9. DOMAIN presenca' \subseteq (DOMAIN viagem') \X Reserva
    BY <1>2, <2>2, <2>5, <2>6
  <2>10. TypeOK'
    <3>1. /\ \A v \in DOMAIN viagem' : v \in (DOMAIN ciclos') \X Sentido
          /\ \A l \in DOMAIN presenca' : l[1] \in DOMAIN viagem' /\ l[2] \in Reserva
          /\ DOMAIN viagem \subseteq DOMAIN viagem' /\ DOMAIN presenca \subseteq DOMAIN presenca'
          /\ ciclos' \in Seq([chave : Chave, veiculo : Veiculo, motorista : Motorista])
      BY <2>1, <2>6, <2>7, <2>9 DEF C
    <3> QED
      BY <1>1, <1>2, <1>4, <2>8, <3>1 DEF Tipo, TypeOK
  <2>11. LinhasTipo'
    <3>1. ASSUME NEW l \in DOMAIN presenca'
          PROVE  sentidoDe[l[2]] = l[1][2] /\ chaveDe[l[2]] = ciclos'[l[1][1]].chave
      <4>1. CASE l \in DOMAIN presenca
        <5>1. l[1][1] \in DOMAIN ciclos
          BY <2>2, <4>1
        <5> QED
          BY <2>1, <2>3, <4>1, <5>1 DEF Tipo, LinhasTipo
      <4>2. CASE l \in LinhasDaCarga(ids, "ida", CargaIda)
        <5>1. PICK j \in 1 .. n : l[1] = <<ids[j], "ida">> /\ l[2] \in plano.reservas
          BY <2>5, <4>2
        <5>2. ciclos'[ids[j]] = NovoCiclo(j)
          BY <2>1, <2>3
        <5>3. ciclos'[ids[j]].chave = plano.chave
          BY <5>2 DEF NovoCiclo
        <5> QED
          BY <1>3, <5>1, <5>3
      <4> QED
        BY <2>6, <4>1, <4>2
    <3> QED
      BY <2>9, <3>1 DEF LinhasTipo
  <2> QED
    BY <1>5, <2>10, <2>11 DEF Tipo
<1> QED
  BY <1>6, <1>7, GravarIdaGrava

LEMMA TipoListarCiclos ==
    ASSUME Tipo, ListarCiclos
    PROVE  Tipo'
<1> DEFINE C == PorId(CiclosParaVolta(plano.chave))
           L == [j \in DOMAIN C |-> Assento(C[j])]
<1>1. plano.fase = "listar_ciclos" /\ UNCHANGED <<tabelas, demais>>
  BY DEF ListarCiclos
<1>2. plano' = [plano EXCEPT !.veiculos = C, !.lugares = L,
                             !.fase = IF C = <<>> THEN "sem_demanda" ELSE "listar_volta"]
  BY DEF ListarCiclos
<1>3. DOMAIN plano = DOMAIN SemPlano /\ plano.reservas \subseteq Reserva
  BY DEF Tipo, TypeOK
<1>4. C \in Seq(DaChave(plano.chave)) /\ Distinta(C) /\ L \in [DOMAIN C -> Nat]
  BY CiclosEmOrdem DEF Tipo
<1> HIDE DEF C, L
<1>5. /\ DOMAIN plano' = DOMAIN SemPlano /\ plano'.reservas = plano.reservas
      /\ plano'.veiculos = C /\ plano'.lugares = L
      /\ plano'.fase = (IF C = <<>> THEN "sem_demanda" ELSE "listar_volta")
      /\ plano'.chave = plano.chave /\ plano'.sentido = plano.sentido
  BY <1>2, <1>3 DEF SemPlano
<1>6. /\ plano.chave \in Chave /\ plano.sentido = "volta"
      /\ execucao[<<plano.chave, plano.sentido>>] = "processando"
  BY <1>1 DEF Tipo, PlanoTipo, PlanoVolta, FasesVolta
<1>7. execucao' = execucao /\ ciclos' = ciclos
  BY <1>1 DEF tabelas
<1>8. DaChave(plano.chave)' = DaChave(plano.chave)
  BY <1>5, <1>7 DEF DaChave
<1>9. PlanoTipo'
  BY <1>4, <1>5, <1>6, <1>7, <1>8
  DEF PlanoTipo, PlanoIda, PlanoVolta, FasesIda, FasesVolta, Terminal, Sentido
<1> QED
  BY <1>1, <1>3, <1>5, <1>9, TipoDoPlano

LEMMA TipoListarVolta ==
    ASSUME Tipo, ListarVolta
    PROVE  Tipo'
<1> DEFINE R == Elegiveis(plano.chave)
<1>1. plano.fase = "listar_volta" /\ UNCHANGED <<tabelas, demais>>
  BY DEF ListarVolta
<1>2. plano' = SemPlano \/ plano' = [plano EXCEPT !.reservas = R, !.fase = "gravar_volta"]
  BY DEF ListarVolta, Falhar
<1>3. DOMAIN plano = DOMAIN SemPlano /\ confirmada \subseteq Reserva
  BY DEF Tipo, TypeOK
<1>4. R \subseteq Reserva /\ \A r \in R : chaveDe[r] = plano.chave /\ sentidoDe[r] = "volta"
  BY <1>3 DEF Elegiveis, Confirmadas
<1>5. CASE plano' = SemPlano
  BY <1>1, <1>5, TipoSemPlano, TipoDoPlano
<1>6. CASE plano' = [plano EXCEPT !.reservas = R, !.fase = "gravar_volta"]
  <2> HIDE DEF R
  <2>1. /\ DOMAIN plano' = DOMAIN SemPlano /\ plano'.reservas = R /\ plano'.fase = "gravar_volta"
        /\ plano'.veiculos = plano.veiculos /\ plano'.lugares = plano.lugares
        /\ plano'.chave = plano.chave /\ plano'.sentido = plano.sentido
    BY <1>3, <1>6 DEF SemPlano
  <2>2. /\ plano.chave \in Chave /\ plano.sentido = "volta"
        /\ execucao[<<plano.chave, plano.sentido>>] = "processando"
        /\ plano.veiculos \in Seq(DaChave(plano.chave)) /\ plano.veiculos # <<>>
        /\ Distinta(plano.veiculos) /\ plano.lugares \in [DOMAIN plano.veiculos -> Nat]
    BY <1>1 DEF Tipo, PlanoTipo, PlanoVolta, FasesVolta
  <2>3. execucao' = execucao /\ DaChave(plano.chave)' = DaChave(plano.chave)
    BY <1>1, <2>1 DEF tabelas, DaChave
  <2>4. PlanoTipo'
    BY <1>4, <2>1, <2>2, <2>3
    DEF PlanoTipo, PlanoIda, PlanoVolta, FasesIda, FasesVolta, Terminal, Sentido
  <2> QED
    BY <1>1, <1>4, <2>1, <2>4, TipoDoPlano
<1> QED
  BY <1>2, <1>5, <1>6

LEMMA TipoGravarVolta ==
    ASSUME Tipo, GravarVolta
    PROVE  Tipo'
<1> DEFINE ids == plano.veiculos
           n   == Len(plano.veiculos)
           D   == DaChave(plano.chave)
           carga == Distribuir(plano.reservas, destinoDe, plano.lugares)
<1>1. /\ plano.fase = "gravar_volta" /\ plano' = [plano EXCEPT !.fase = "concluido"]
      /\ UNCHANGED <<confirmada, ciclos, horarios, execucao, envios, posicao, frota, editados, pontuais, eventos>>
  BY DEF GravarVolta, Passo, demais, cadastro
<1>2. DOMAIN plano = DOMAIN SemPlano /\ plano.reservas \subseteq Reserva
  BY DEF Tipo, TypeOK
<1>3. /\ plano.chave \in Chave /\ plano.sentido = "volta"
      /\ execucao[<<plano.chave, plano.sentido>>] = "processando"
      /\ \A r \in plano.reservas : chaveDe[r] = plano.chave /\ sentidoDe[r] = "volta"
      /\ ids \in Seq(D) /\ plano.lugares \in [DOMAIN ids -> Nat]
  BY <1>1 DEF Tipo, PlanoTipo, PlanoVolta, FasesVolta
<1>4. /\ DOMAIN plano' = DOMAIN SemPlano /\ plano'.fase = "concluido" /\ plano'.chave = plano.chave
      /\ plano'.sentido = plano.sentido /\ plano'.reservas = plano.reservas
  BY <1>1, <1>2 DEF SemPlano
<1>5. PlanoTipo'
  BY <1>1, <1>3, <1>4 DEF PlanoTipo, PlanoIda, PlanoVolta, FasesIda, FasesVolta, Terminal, Sentido
<1>6. CASE UNCHANGED <<ciclos, viagem, presenca>>
  <2>1. TypeOK'
    BY <1>1, <1>2, <1>4, <1>6 DEF Tipo, TypeOK
  <2>2. LinhasTipo'
    BY <1>6 DEF Tipo, LinhasTipo
  <2> QED
    BY <1>5, <2>1, <2>2 DEF Tipo
<1>7. CASE GravadaVolta
  <2> HIDE DEF D, ids, carga
  <2>1. Insercao(ids, "volta", carga)
    BY <1>7 DEF GravadaVolta, ids, carga
  <2>2. /\ DOMAIN viagem \subseteq (DOMAIN ciclos) \X Sentido
        /\ Range(viagem) \subseteq {"programada", "em_andamento", "concluida", "cancelada"}
        /\ Range(presenca) \subseteq Ativas \cup {"cancelado"}
        /\ DOMAIN presenca \subseteq (DOMAIN viagem) \X Reserva
    BY DEF Tipo, TypeOK, LinhasTipo
  <2>3. n \in Nat /\ DOMAIN ids = 1 .. n
    BY <1>3 DEF ids
  <2>4. \A j \in 1 .. n : ids[j] \in DOMAIN ciclos /\ ciclos[ids[j]].chave = plano.chave
    <3>1. \A j \in 1 .. n : ids[j] \in D
      BY <1>3, <2>3
    <3> QED
      BY <3>1 DEF D, DaChave
  <2>5. \A l \in LinhasDaCarga(ids, "volta", carga) :
            \E j \in 1 .. n : l[1] = <<ids[j], "volta">> /\ l = <<l[1], l[2]>> /\ l[2] \in plano.reservas
    <3>1. plano.lugares \in [1 .. n -> Nat]
      BY <1>3, <2>3
    <3>2. carga \in [1 .. n -> SUBSET plano.reservas]
      BY <1>2, <2>3, <3>1, CargaReparte DEF carga
    <3> HIDE DEF n
    <3> TAKE l \in LinhasDaCarga(ids, "volta", carga)
    <3>3. PICK j \in DOMAIN ids : \E r \in carga[j] : l = <<<<ids[j], "volta">>, r>>
      BY LinhaDaCarga
    <3>4. j \in 1 .. n /\ carga[j] \subseteq plano.reservas
      BY <2>3, <3>2, <3>3
    <3> QED
      BY <3>3, <3>4
  <2>6. /\ DOMAIN viagem' = DOMAIN viagem \cup {<<ids[j], "volta">> : j \in 1 .. n}
        /\ \A v \in DOMAIN viagem : viagem'[v] = viagem[v]
        /\ \A j \in 1 .. n : viagem'[<<ids[j], "volta">>] = "programada"
        /\ DOMAIN presenca' = DOMAIN presenca \cup LinhasDaCarga(ids, "volta", carga)
        /\ \A l \in DOMAIN presenca : presenca'[l] = presenca[l]
        /\ \A l \in LinhasDaCarga(ids, "volta", carga) : presenca'[l] = "aguardando"
    BY <2>1, <2>3 DEF Insercao
  <2>7. DOMAIN viagem' \subseteq (DOMAIN ciclos) \X Sentido
    BY <2>2, <2>4, <2>6 DEF Sentido
  <2>8. /\ Range(viagem') \subseteq {"programada", "em_andamento", "concluida", "cancelada"}
        /\ Range(presenca') \subseteq Ativas \cup {"cancelado"}
    <3>1. \A v \in DOMAIN viagem' : viagem'[v] \in Range(viagem) \cup {"programada"}
      BY <2>6 DEF Range
    <3>2. \A l \in DOMAIN presenca' : presenca'[l] \in Range(presenca) \cup {"aguardando"}
      BY <2>6 DEF Range
    <3>3. Range(viagem') \subseteq Range(viagem) \cup {"programada"}
      BY <3>1 DEF Range
    <3>4. Range(presenca') \subseteq Range(presenca) \cup {"aguardando"}
      BY <3>2 DEF Range
    <3> QED
      BY <2>2, <3>3, <3>4 DEF Ativas
  <2>9. DOMAIN presenca' \subseteq (DOMAIN viagem') \X Reserva
    BY <1>2, <2>2, <2>5, <2>6
  <2>10. TypeOK'
    <3>1. /\ \A v \in DOMAIN viagem' : v \in (DOMAIN ciclos) \X Sentido
          /\ \A l \in DOMAIN presenca' : l[1] \in DOMAIN viagem' /\ l[2] \in Reserva
          /\ DOMAIN viagem \subseteq DOMAIN viagem' /\ DOMAIN presenca \subseteq DOMAIN presenca'
      BY <2>6, <2>7, <2>9
    <3> QED
      BY <1>1, <1>2, <1>4, <2>8, <3>1 DEF Tipo, TypeOK
  <2>11. LinhasTipo'
    <3>1. ASSUME NEW l \in DOMAIN presenca'
          PROVE  sentidoDe[l[2]] = l[1][2] /\ chaveDe[l[2]] = ciclos[l[1][1]].chave
      <4>1. CASE l \in DOMAIN presenca
        BY <4>1 DEF Tipo, LinhasTipo
      <4>2. CASE l \in LinhasDaCarga(ids, "volta", carga)
        <5>1. PICK j \in 1 .. n : l[1] = <<ids[j], "volta">> /\ l[2] \in plano.reservas
          BY <2>5, <4>2
        <5> QED
          BY <1>3, <2>4, <5>1
      <4> QED
        BY <2>6, <4>1, <4>2
    <3> QED
      BY <1>1, <2>9, <3>1 DEF LinhasTipo
  <2> QED
    BY <1>5, <2>10, <2>11 DEF Tipo
<1> QED
  BY <1>6, <1>7, GravarVoltaGrava DEF GravarVolta

LEMMA TipoFinalizar ==
    ASSUME Tipo, Finalizar
    PROVE  Tipo'
<1>1. /\ plano.fase \in Terminal /\ plano' = SemPlano
      /\ execucao' = [execucao EXCEPT ![<<plano.chave, plano.sentido>>] = plano.fase]
      /\ UNCHANGED <<confirmada, ciclos, viagem, horarios, presenca, envios, posicao, frota, editados,
                     pontuais, eventos>>
  BY DEF Finalizar, demais, cadastro
<1>2. execucao' \in [Chave \X Sentido -> {"ausente", "processando"} \cup Terminal]
  BY <1>1 DEF Tipo, TypeOK
<1>3. DOMAIN plano' = DOMAIN SemPlano /\ plano'.reservas \subseteq Reserva /\ PlanoTipo'
  BY <1>1, TipoSemPlano
<1>4. TypeOK'
  BY <1>1, <1>2, <1>3 DEF Tipo, TypeOK
<1>5. LinhasTipo'
  BY <1>1 DEF Tipo, LinhasTipo
<1> QED
  BY <1>3, <1>4, <1>5 DEF Tipo

LEMMA TipoCair ==
    ASSUME Tipo, Cair
    PROVE  Tipo'
<1>1. /\ plano' = SemPlano /\ eventos < MaxEventos /\ eventos' = eventos + 1
      /\ UNCHANGED <<confirmada, ciclos, viagem, horarios, presenca, execucao, envios, posicao, frota,
                     editados, pontuais>>
  BY DEF Cair, Falhar, Contar, tabelas, cadastro
<1>2. DOMAIN plano' = DOMAIN SemPlano /\ plano'.reservas \subseteq Reserva /\ PlanoTipo'
  BY <1>1, TipoSemPlano
<1>3. eventos' \in 0 .. MaxEventos
  BY <1>1, DadosAssumption DEF Tipo, TypeOK
<1>4. TypeOK'
  BY <1>1, <1>2, <1>3 DEF Tipo, TypeOK
<1>5. LinhasTipo'
  BY <1>1 DEF Tipo, LinhasTipo
<1> QED
  BY <1>2, <1>4, <1>5 DEF Tipo

\* Requests leave the plan, the executions and the ciclos alone, and bring no trips
\* or passengers.
LEMMA TipoDoPedido ==
    ASSUME Tipo, TypeOK', UNCHANGED <<ciclos, execucao, plano>>,
           DOMAIN viagem' = DOMAIN viagem, DOMAIN presenca' = DOMAIN presenca
    PROVE  Tipo'
<1>1. DaChave(plano.chave)' = DaChave(plano.chave)
  BY DEF DaChave
<1>2. PlanoTipo'
  BY <1>1 DEF Tipo, PlanoTipo, PlanoIda, PlanoVolta
<1>3. LinhasTipo'
  BY DEF Tipo, LinhasTipo
<1> QED
  BY <1>2, <1>3 DEF Tipo

LEMMA ContarTipo ==
    ASSUME Tipo, Contar
    PROVE  eventos' \in 0 .. MaxEventos
  BY DadosAssumption DEF Tipo, TypeOK, Contar

LEMMA TipoCancelarReserva ==
    ASSUME Tipo, NEW r \in Reserva, CancelarReserva(r)
    PROVE  Tipo'
<1>1. eventos' \in 0 .. MaxEventos
  BY ContarTipo DEF CancelarReserva
<1>2. TypeOK'
  BY <1>1 DEF Tipo, TypeOK, CancelarReserva, cadastro
<1> QED
  BY <1>2, TipoDoPedido DEF CancelarReserva

LEMMA TipoEditarVeiculo ==
    ASSUME Tipo, NEW e \in Edicoes, EditarVeiculo(e[1], e[2])
    PROVE  Tipo'
<1>1. eventos' \in 0 .. MaxEventos
  BY ContarTipo DEF EditarVeiculo
<1>2. e[1] \in Veiculo /\ e[2] \in [categoria : Categoria, ativo : BOOLEAN]
  BY DadosAssumption
<1>3. /\ frota' = [frota EXCEPT ![e[1]] = e[2]] /\ editados' = editados \cup {e[1]}
      /\ UNCHANGED <<confirmada, ciclos, viagem, horarios, presenca, execucao, plano, envios, posicao, pontuais>>
  BY DEF EditarVeiculo, GravarVeiculo, tabelas
<1>4. frota' \in [Veiculo -> [categoria : Categoria, ativo : BOOLEAN]] /\ editados' \subseteq Veiculo
  BY <1>2, <1>3 DEF Tipo, TypeOK
<1>5. TypeOK'
  BY <1>1, <1>3, <1>4 DEF Tipo, TypeOK
<1> QED
  BY <1>3, <1>5, TipoDoPedido

LEMMA TipoMudar ==
    ASSUME Tipo, NEW v \in DOMAIN viagem, Iniciar(v) \/ Concluir(v)
    PROVE  Tipo'
<1>1. eventos' \in 0 .. MaxEventos
  BY ContarTipo DEF Iniciar, Concluir, Mudar
<1>2. PICK para \in {"em_andamento", "concluida"}, tipo \in {"inicio_real", "fim_real"} :
         /\ viagem' = [viagem EXCEPT ![v] = para]
         /\ horarios' = horarios \cup {<<v, tipo>>}
  BY DEF Iniciar, Concluir, Mudar
<1>3. UNCHANGED <<confirmada, ciclos, presenca, execucao, plano, envios, posicao, frota, editados, pontuais>>
  BY DEF Iniciar, Concluir, Mudar, cadastro
<1>4. DOMAIN viagem' = DOMAIN viagem
      /\ Range(viagem') \subseteq {"programada", "em_andamento", "concluida", "cancelada"}
  BY <1>2 DEF Tipo, TypeOK, Range
<1>5. \A h \in horarios' : h[1] \in DOMAIN viagem /\ h[2] \in {"inicio_real", "fim_real"}
  BY <1>2 DEF Tipo, TypeOK
<1>6. TypeOK'
  BY <1>1, <1>3, <1>4, <1>5 DEF Tipo, TypeOK
<1> QED
  BY <1>3, <1>4, <1>6, TipoDoPedido

LEMMA TipoCancelarViagem ==
    ASSUME Tipo, NEW v \in DOMAIN viagem, CancelarViagem(v)
    PROVE  Tipo'
<1>1. eventos' \in 0 .. MaxEventos
  BY ContarTipo DEF CancelarViagem
<1>2. /\ viagem' = [viagem EXCEPT ![v] = "cancelada"]
      /\ UNCHANGED <<confirmada, ciclos, horarios, presenca, execucao, plano, envios, posicao, frota,
                     editados, pontuais>>
  BY DEF CancelarViagem, GravarStatus, cadastro
<1>3. DOMAIN viagem' = DOMAIN viagem
      /\ Range(viagem') \subseteq {"programada", "em_andamento", "concluida", "cancelada"}
  BY <1>2 DEF Tipo, TypeOK, Range
<1>4. TypeOK'
  BY <1>1, <1>2, <1>3 DEF Tipo, TypeOK
<1> QED
  BY <1>2, <1>3, <1>4, TipoDoPedido

LEMMA TipoPosicao ==
    ASSUME Tipo, NEW v \in DOMAIN viagem, AutorizarPosicao(v) \/ GravarPosicao(v) \/ PosicaoDoAdmin(v)
    PROVE  Tipo'
<1>1. eventos' \in 0 .. MaxEventos
  BY ContarTipo DEF AutorizarPosicao, GravarPosicao, PosicaoDoAdmin, Tipo, TypeOK
<1>2. UNCHANGED <<confirmada, ciclos, viagem, horarios, presenca, execucao, plano, frota, editados, pontuais>>
  BY DEF AutorizarPosicao, GravarPosicao, PosicaoDoAdmin, tabelas, cadastro
<1>3. envios' \subseteq DOMAIN viagem /\ \A p \in posicao' : p[1] \in DOMAIN viagem /\ p[2] \in {"motorista", "admin"}
  BY DEF AutorizarPosicao, GravarPosicao, PosicaoDoAdmin, Tipo, TypeOK
<1>4. TypeOK'
  BY <1>1, <1>2, <1>3 DEF Tipo, TypeOK
<1> QED
  BY <1>2, <1>4, TipoDoPedido

LEMMA TipoPresenca ==
    ASSUME Tipo, NEW l \in DOMAIN presenca, NEW st \in Registraveis, AtualizarPresenca(l, st)
    PROVE  Tipo'
<1>1. eventos' \in 0 .. MaxEventos
  BY ContarTipo DEF AtualizarPresenca
<1>2. /\ presenca' = [presenca EXCEPT ![l] = st] /\ pontuais' \subseteq pontuais \cup {l}
      /\ UNCHANGED <<confirmada, ciclos, viagem, horarios, execucao, plano, envios, posicao, frota, editados>>
  BY DEF AtualizarPresenca, cadastro
<1>3. DOMAIN presenca' = DOMAIN presenca /\ Range(presenca') \subseteq Ativas \cup {"cancelado"}
  BY <1>2 DEF Tipo, TypeOK, Range, Registraveis, Ativas
<1>4. TypeOK'
  BY <1>1, <1>2, <1>3 DEF Tipo, TypeOK
<1> QED
  BY <1>2, <1>3, <1>4, TipoDoPedido

LEMMA PassoTipo == Tipo /\ [Next]_vars => Tipo'
<1> SUFFICES ASSUME Tipo, [Next]_vars PROVE Tipo'
  OBVIOUS
<1>1. CASE UNCHANGED vars
  <2>1. TypeOK'
    BY <1>1 DEF Tipo, TypeOK, vars, tabelas, demais, cadastro
  <2> QED
    BY <1>1, <2>1, TipoDoPedido DEF vars, tabelas
<1> QED
  BY <1>1, TipoAbrir, TipoListar, TipoAlocar, TipoEscalar, TipoGravarIda, TipoListarCiclos,
     TipoListarVolta, TipoGravarVolta, TipoFinalizar, TipoCair, TipoCancelarReserva, TipoEditarVeiculo,
     TipoMudar, TipoCancelarViagem, TipoPosicao, TipoPresenca
  DEF Next, Planejador

LEMMA InicioTipo == Init => Tipo
<1> SUFFICES ASSUME Init PROVE Tipo
  OBVIOUS
<1>1. /\ confirmada = Reserva /\ ciclos = <<>> /\ viagem = <<>> /\ presenca = <<>> /\ horarios = {}
      /\ envios = {} /\ posicao = {} /\ pontuais = {} /\ editados = {} /\ eventos = 0
      /\ execucao = [p \in Chave \X Sentido |-> "ausente"] /\ plano = SemPlano
      /\ frota = [v \in Veiculo |-> [categoria |-> categoriaDe[v], ativo |-> TRUE]]
  BY DEF Init
<1>2. Range(<<>>) = {} /\ DOMAIN <<>> = {} /\ 0 \in 0 .. MaxEventos
  BY DadosAssumption DEF Range
<1>3. ciclos \in Seq([chave : Chave, veiculo : Veiculo, motorista : Motorista])
  BY <1>1
<1>4. frota \in [Veiculo -> [categoria : Categoria, ativo : BOOLEAN]]
  BY <1>1, DadosAssumption
<1>5. plano.reservas = {}
  BY <1>1 DEF SemPlano
<1>6. TypeOK
  BY <1>1, <1>2, <1>3, <1>4, <1>5 DEF TypeOK
<1>7. PlanoTipo
  BY <1>1 DEF SemPlano, PlanoTipo, PlanoIda, PlanoVolta, FasesIda, FasesVolta
<1>8. LinhasTipo
  BY <1>1, <1>2 DEF LinhasTipo
<1> QED
  BY <1>6, <1>7, <1>8 DEF Tipo

LEMMA TipoSempre == Spec => []Tipo
  BY InicioTipo, PassoTipo, PTL DEF Spec

\* Every table, the plan under way and the history hold what they are meant to hold:
\* trips of ciclos that exist, passengers of trips that exist, statuses of the code.
THEOREM TiposDaViagem == Spec => []TypeOK
<1>1. Tipo => TypeOK
  BY DEF Tipo
<1> QED
  BY <1>1, TipoSempre, PTL

-----------------------------------------------------------------------------
(* What the steps that plan nothing do *)

Comum ==
    /\ UNCHANGED ciclos /\ DOMAIN viagem' = DOMAIN viagem /\ DOMAIN presenca' = DOMAIN presenca
    /\ UNCHANGED plano \/ plano'.fase \in {"ocioso", "listar", "listar_ciclos"}
    /\ \A l \in DOMAIN presenca : presenca'[l] = presenca[l] \/ presenca'[l] \in Registraveis
    /\ confirmada' \subseteq confirmada
    /\ \A v \in Veiculo : v \notin editados' => v \notin editados /\ frota'[v] = frota[v]
    /\ \A p \in pontuais' :
          \/ p \in pontuais /\ presenca'[p] = presenca[p]
          \/ p \in DOMAIN presenca /\ AntesDaVolta(p) /\ presenca'[p] = "embarcou" /\ UNCHANGED execucao
    /\ \A x \in Chave \X Sentido :
          \/ execucao'[x] \in {execucao[x], "processando"}
          \/ /\ plano.fase \in Terminal /\ x = <<plano.chave, plano.sentido>>
             /\ execucao'[x] = plano.fase

LEMMA PassoComum ==
    ASSUME Tipo, [Next]_vars
    PROVE  \/ Listar \/ AlocarVeiculos \/ EscalarMotoristas \/ GravarIda
           \/ ListarCiclos \/ ListarVolta \/ GravarVolta
           \/ Comum
<1>1. ASSUME NEW k \in Chave, NEW s \in Sentido, Abrir(k, s) PROVE Comum
  <2>1. plano'.fase \in {"listar", "listar_ciclos"}
    BY <1>1 DEF Abrir, SemPlano
  <2>2. /\ execucao' = [execucao EXCEPT ![<<k, s>>] = "processando"]
        /\ UNCHANGED <<confirmada, ciclos, viagem, presenca, frota, editados, pontuais>>
    BY <1>1 DEF Abrir, demais, cadastro
  <2>3. \A x \in Chave \X Sentido : execucao'[x] \in {execucao[x], "processando"}
    BY <2>2 DEF Tipo, TypeOK
  <2> QED
    BY <2>1, <2>2, <2>3 DEF Comum
<1>2. CASE Finalizar
  <2>1. plano'.fase = "ocioso"
    BY <1>2 DEF Finalizar, SemPlano
  <2>2. /\ execucao' = [execucao EXCEPT ![<<plano.chave, plano.sentido>>] = plano.fase]
        /\ UNCHANGED <<confirmada, ciclos, viagem, presenca, frota, editados, pontuais>>
        /\ plano.fase \in Terminal
    BY <1>2 DEF Finalizar, demais, cadastro
  <2>3. \A x \in Chave \X Sentido : \/ execucao'[x] = execucao[x]
                                    \/ /\ x = <<plano.chave, plano.sentido>>
                                       /\ execucao'[x] = plano.fase
    BY <2>2 DEF Tipo, TypeOK
  <2> QED
    BY <2>1, <2>2, <2>3 DEF Comum
<1>3. CASE Cair
  <2>1. plano'.fase = "ocioso"
    BY <1>3 DEF Cair, Falhar, SemPlano
  <2> QED
    BY <1>3, <2>1 DEF Cair, tabelas, cadastro, Comum
<1>4. ASSUME NEW r \in Reserva, CancelarReserva(r) PROVE Comum
  BY <1>4 DEF CancelarReserva, cadastro, Comum
<1>5. ASSUME NEW e \in Edicoes, EditarVeiculo(e[1], e[2]) PROVE Comum
  <2>1. /\ frota' = [frota EXCEPT ![e[1]] = e[2]] /\ editados' = editados \cup {e[1]}
        /\ UNCHANGED <<tabelas, plano, pontuais>>
    BY <1>5 DEF EditarVeiculo, GravarVeiculo
  <2>2. \A v \in Veiculo : v \notin editados' => v \notin editados /\ frota'[v] = frota[v]
    BY <2>1 DEF Tipo, TypeOK
  <2> QED
    BY <2>1, <2>2 DEF tabelas, Comum
<1>6. ASSUME NEW v \in DOMAIN viagem, Iniciar(v) \/ Concluir(v) \/ CancelarViagem(v) PROVE Comum
  <2>1. DOMAIN viagem' = DOMAIN viagem
    BY <1>6 DEF Iniciar, Concluir, Mudar, CancelarViagem, GravarStatus
  <2> QED
    BY <1>6, <2>1 DEF Iniciar, Concluir, Mudar, CancelarViagem, GravarStatus, cadastro, Comum
<1>7. ASSUME NEW v \in DOMAIN viagem, AutorizarPosicao(v) \/ GravarPosicao(v) \/ PosicaoDoAdmin(v)
      PROVE  Comum
  BY <1>7 DEF AutorizarPosicao, GravarPosicao, PosicaoDoAdmin, tabelas, cadastro, Comum
<1>8. ASSUME NEW l \in DOMAIN presenca, NEW st \in Registraveis, AtualizarPresenca(l, st)
      PROVE  Comum
  <2>1. /\ presenca' = [presenca EXCEPT ![l] = st]
        /\ pontuais' = IF st = "embarcou" /\ AntesDaVolta(l) THEN pontuais \cup {l} ELSE pontuais \ {l}
        /\ UNCHANGED <<confirmada, ciclos, viagem, execucao, plano, frota, editados>>
    BY <1>8 DEF AtualizarPresenca, cadastro
  <2>2. DOMAIN presenca' = DOMAIN presenca /\ presenca'[l] = st
        /\ \A p \in DOMAIN presenca : p # l => presenca'[p] = presenca[p]
    BY <2>1
  <2>3. \A p \in pontuais : p \in DOMAIN presenca
    BY DEF Tipo, TypeOK
  <2>4. \A p \in pontuais' :
          \/ p \in pontuais /\ presenca'[p] = presenca[p]
          \/ p \in DOMAIN presenca /\ AntesDaVolta(p) /\ presenca'[p] = "embarcou"
    BY <2>1, <2>2, <2>3
  <2> QED
    BY <2>1, <2>2, <2>4 DEF Comum
<1>9. CASE UNCHANGED vars
  BY <1>9 DEF vars, tabelas, demais, cadastro, Comum
<1> QED
  BY <1>1, <1>2, <1>3, <1>4, <1>5, <1>6, <1>7, <1>8, <1>9 DEF Next, Planejador

-----------------------------------------------------------------------------
(* Vehicles and drivers *)

\* The vehicles and drivers of a plan are in no ciclo, until the plan is committed.
RecursosDoPlano ==
    /\ plano.fase \in {"escalar", "gravar"} =>
          \A j \in DOMAIN plano.veiculos, i \in DOMAIN ciclos : ciclos[i].veiculo # plano.veiculos[j]
    /\ plano.fase = "gravar" =>
          \A j \in DOMAIN plano.motoristas, i \in DOMAIN ciclos : ciclos[i].motorista # plano.motoristas[j]

Recursos == RecursosDoPlano /\ RecursoUnico

LEMMA RecursosGravarIda ==
    ASSUME Tipo, Recursos, GravarIda
    PROVE  Recursos'
<1> DEFINE n == Len(plano.veiculos)
           m == Len(ciclos)
<1>1. /\ plano.fase = "gravar" /\ plano' = [plano EXCEPT !.fase = "concluido"]
      /\ DOMAIN plano = DOMAIN SemPlano
  BY DEF GravarIda, Passo, Tipo, TypeOK
<1>2. plano'.fase = "concluido"
  BY <1>1 DEF SemPlano
<1>3. RecursosDoPlano'
  BY <1>2 DEF RecursosDoPlano
<1>4. CASE UNCHANGED ciclos
  BY <1>3, <1>4 DEF Recursos, RecursoUnico
<1>5. CASE GravadaIda
  <2>1. /\ m \in Nat /\ n \in Nat /\ Len(ciclos') = m + n
        /\ ciclos' \in Seq([chave : Chave, veiculo : Veiculo, motorista : Motorista])
        /\ \A i \in 1 .. m : ciclos'[i] = ciclos[i]
        /\ \A j \in 1 .. n : ciclos'[m + j] = NovoCiclo(j)
    BY <1>5 DEF GravadaIda
  <2>2. /\ plano.veiculos \in Seq(Veiculo) /\ Distinta(plano.veiculos)
        /\ plano.motoristas \in Seq(Motorista) /\ Distinta(plano.motoristas)
        /\ Len(plano.motoristas) = Len(plano.veiculos)
    BY <1>1 DEF Tipo, PlanoTipo, PlanoIda
  <2>3. DOMAIN ciclos = 1 .. m /\ DOMAIN ciclos' = 1 .. m + n
    BY <2>1 DEF Tipo, TypeOK
  <2>4. /\ DOMAIN plano.veiculos = 1 .. n /\ DOMAIN plano.motoristas = 1 .. n
        /\ \A i, j \in 1 .. n : plano.veiculos[i] = plano.veiculos[j] => i = j
        /\ \A i, j \in 1 .. n : plano.motoristas[i] = plano.motoristas[j] => i = j
    <3>1. DOMAIN plano.veiculos = 1 .. n
      BY <2>2
    <3>2. DOMAIN plano.motoristas = 1 .. n
      BY <2>2
    <3> QED
      BY <2>2, <3>1, <3>2 DEF Distinta
  <2>5. /\ \A j \in 1 .. n, i \in 1 .. m : ciclos[i].veiculo # plano.veiculos[j]
        /\ \A j \in 1 .. n, i \in 1 .. m : ciclos[i].motorista # plano.motoristas[j]
    BY <1>1, <2>3, <2>4 DEF Recursos, RecursosDoPlano
  <2>6. \A j \in 1 .. n : /\ ciclos'[m + j].veiculo = plano.veiculos[j]
                          /\ ciclos'[m + j].motorista = plano.motoristas[j]
    <3> TAKE j \in 1 .. n
    <3>1. ciclos'[m + j] = NovoCiclo(j)
      BY <2>1
    <3> QED
      BY <3>1 DEF NovoCiclo
  <2>7. \A i \in 1 .. m + n : i \in 1 .. m \/ \E j \in 1 .. n : i = m + j
    <3> TAKE i \in 1 .. m + n
    <3>1. i \in 1 .. m \/ (i - m \in 1 .. n /\ i = m + (i - m))
      BY <2>1
    <3> QED
      BY <3>1
  <2>8. ASSUME NEW a \in 1 .. m + n, NEW b \in 1 .. m + n, a # b
        PROVE  ciclos'[a].veiculo # ciclos'[b].veiculo /\ ciclos'[a].motorista # ciclos'[b].motorista
    <3>1. CASE a \in 1 .. m /\ b \in 1 .. m
      BY <2>1, <2>3, <2>8, <3>1 DEF Recursos, RecursoUnico
    <3>2. CASE a \in 1 .. m /\ b \notin 1 .. m
      <4>1. PICK j \in 1 .. n : b = m + j
        BY <2>7, <3>2
      <4> QED
        BY <2>1, <2>5, <2>6, <3>2, <4>1
    <3>3. CASE a \notin 1 .. m /\ b \in 1 .. m
      <4>1. PICK j \in 1 .. n : a = m + j
        BY <2>7, <3>3
      <4> QED
        BY <2>1, <2>5, <2>6, <3>3, <4>1
    <3>4. CASE a \notin 1 .. m /\ b \notin 1 .. m
      <4>1. PICK i \in 1 .. n : a = m + i
        BY <2>7, <3>4
      <4>2. PICK j \in 1 .. n : b = m + j
        BY <2>7, <3>4
      <4>3. i # j
        BY <2>8, <4>1, <4>2
      <4> QED
        BY <2>4, <2>6, <4>1, <4>2, <4>3
    <3> QED
      BY <3>1, <3>2, <3>3, <3>4
  <2>9. RecursoUnico'
    BY <2>3, <2>8 DEF RecursoUnico
  <2> QED
    BY <1>3, <2>9 DEF Recursos
<1> QED
  BY <1>4, <1>5, GravarIdaGrava

LEMMA PassoRecursos ==
    ASSUME Tipo, Recursos, [Next]_vars
    PROVE  Recursos'
<1>1. CASE Comum
  <2>1. RecursosDoPlano'
    BY <1>1 DEF Comum, Recursos, RecursosDoPlano
  <2>2. RecursoUnico'
    BY <1>1 DEF Comum, Recursos, RecursoUnico
  <2> QED
    BY <2>1, <2>2 DEF Recursos
<1>2. DOMAIN plano = DOMAIN SemPlano
  BY DEF Tipo, TypeOK
<1>3. ASSUME UNCHANGED ciclos, plano'.fase \notin {"escalar", "gravar"} PROVE Recursos'
  BY <1>3 DEF Recursos, RecursosDoPlano, RecursoUnico
<1>4. CASE Listar \/ ListarCiclos \/ ListarVolta \/ GravarVolta
  <2>1. plano'.fase \in {"ocioso", "alocar", "sem_demanda", "listar_volta", "gravar_volta", "concluido"}
    <3>1. CASE Listar
      BY <1>2, <3>1 DEF Listar, SemPlano
    <3>2. CASE ListarCiclos
      BY <1>2, <3>2 DEF ListarCiclos, SemPlano
    <3>3. CASE ListarVolta
      <4>1. plano' = SemPlano \/ plano' = [plano EXCEPT !.reservas = Elegiveis(plano.chave), !.fase = "gravar_volta"]
        BY <3>3 DEF ListarVolta, Falhar
      <4>2. "fase" \in DOMAIN plano /\ SemPlano.fase = "ocioso"
        BY <1>2 DEF SemPlano
      <4> QED
        BY <4>1, <4>2
    <3>4. CASE GravarVolta
      BY <1>2, <3>4 DEF GravarVolta, Passo, SemPlano
    <3> QED
      BY <1>4, <3>1, <3>2, <3>3, <3>4
  <2> QED
    BY <1>3, <1>4, <2>1 DEF Listar, ListarCiclos, ListarVolta, GravarVolta, tabelas
<1>5. CASE AlocarVeiculos
  <2>1. UNCHANGED ciclos
    BY <1>5 DEF AlocarVeiculos, tabelas
  <2>2. CASE Selecao = <<>>
    BY <1>3, <1>5, <2>1, <2>2 DEF AlocarVeiculos, Selecao, Falhar, SemPlano
  <2>3. CASE Selecao # <<>>
    <3>1. plano'.fase = "escalar" /\ plano'.veiculos = Selecao
      BY <1>2, <1>5, <2>3 DEF AlocarVeiculos, Selecao, SemPlano
    <3>2. Selecao \in Seq(VeiculosDisponiveis)
      BY <2>3, SelecaoEscolhe DEF Tipo
    <3>3. \A j \in DOMAIN Selecao : Selecao[j] \in VeiculosDisponiveis
      BY <3>2
    <3>4. \A j \in DOMAIN Selecao, i \in DOMAIN ciclos : ciclos[i].veiculo # Selecao[j]
      BY <3>3, FrotaTipo DEF Tipo
    <3>5. RecursosDoPlano'
      BY <2>1, <3>1, <3>4 DEF RecursosDoPlano
    <3> QED
      BY <2>1, <3>5 DEF Recursos, RecursoUnico
  <2> QED
    BY <2>2, <2>3
<1>6. CASE EscalarMotoristas
  <2> DEFINE O == PorId(MotoristasDisponiveis(plano.chave))
             n == Len(plano.veiculos)
             M == SubSeq(O, 1, n)
  <2>1. UNCHANGED ciclos /\ plano.fase = "escalar"
    BY <1>6 DEF EscalarMotoristas, tabelas
  <2>2. CASE plano' = SemPlano
    BY <1>3, <2>1, <2>2 DEF SemPlano
  <2>3. CASE ~(Len(O) < n) /\ plano' = [plano EXCEPT !.motoristas = M, !.fase = "gravar"]
    <3>1. n \in Nat
      BY <2>1 DEF Tipo, PlanoTipo, PlanoIda
    <3>2. Len(O) \in Nat
      BY MotoristasEmOrdem
    <3>3. n <= Len(O)
      BY <2>3, <3>1, <3>2
    <3>4. /\ M \in Seq(Motorista) /\ Len(M) = n
          /\ \A j \in 1 .. n, i \in DOMAIN ciclos : ciclos[i].motorista # M[j]
      BY <3>1, <3>3, EscalaEscolhe
    <3>5. /\ plano'.fase = "gravar" /\ plano'.motoristas = M /\ plano'.veiculos = plano.veiculos
      BY <1>2, <2>3 DEF SemPlano
    <3> HIDE DEF M, O
    <3>6. DOMAIN M = 1 .. n
      BY <3>4
    <3>7. RecursosDoPlano'
      BY <2>1, <3>4, <3>5, <3>6 DEF Recursos, RecursosDoPlano
    <3> QED
      BY <2>1, <3>7 DEF Recursos, RecursoUnico
  <2> QED
    BY <1>6, <2>2, <2>3 DEF EscalarMotoristas, Falhar
<1> QED
  BY <1>1, <1>4, <1>5, <1>6, PassoComum, RecursosGravarIda

\* No vehicle and no driver serves two ciclos, also when a plan was committed whose
\* answer was lost, and the key is planned again.
THEOREM RecursoDeUmCiclo == Spec => []RecursoUnico
<1>1. Init => Recursos
  BY DEF Init, SemPlano, Recursos, RecursosDoPlano, RecursoUnico
<1>2. Tipo /\ Recursos /\ [Next]_vars => Recursos'
  BY PassoRecursos
<1>3. Recursos => RecursoUnico
  BY DEF Recursos
<1> QED
  BY <1>1, <1>2, <1>3, TipoSempre, PTL DEF Spec

-----------------------------------------------------------------------------
(* Trips from their start to their end *)

\* A trip that runs was started, and so was every trip that a driver was found
\* to be running.
Iniciada ==
    /\ \A v \in DOMAIN viagem : viagem[v] = "em_andamento" => <<v, "inicio_real">> \in horarios
    /\ \A v \in envios : <<v, "inicio_real">> \in horarios

IniciadaInv == Iniciada /\ PosicaoDeViagemIniciada

\* Starts are never lost, and a trip only comes to run when it is started.
LEMMA SegueIniciada ==
    ASSUME IniciadaInv, horarios \subseteq horarios', envios' = envios, posicao' = posicao,
           \A v \in DOMAIN viagem' : viagem'[v] = "em_andamento" =>
               \/ v \in DOMAIN viagem /\ viagem[v] = "em_andamento"
               \/ <<v, "inicio_real">> \in horarios'
    PROVE  IniciadaInv'
  BY DEF IniciadaInv, Iniciada, PosicaoDeViagemIniciada

\* The trips that a plan inserts are yet to start.
LEMMA InseridaSegue ==
    ASSUME NEW ids, NEW s, NEW carga, Inserir(ids, s, carga)
    PROVE  \A v \in DOMAIN viagem' : viagem'[v] = "em_andamento" =>
               v \in DOMAIN viagem /\ viagem[v] = "em_andamento"
  BY DEF Inserir

LEMMA PassoIniciada == IniciadaInv /\ [Next]_vars => IniciadaInv'
<1> SUFFICES ASSUME IniciadaInv, [Next]_vars PROVE IniciadaInv'
  OBVIOUS
<1>1. ASSUME NEW k \in Chave, NEW s \in Sentido, Abrir(k, s) PROVE IniciadaInv'
  BY <1>1, SegueIniciada DEF Abrir, demais
<1>2. CASE Listar \/ AlocarVeiculos \/ EscalarMotoristas \/ ListarCiclos \/ ListarVolta
  BY <1>2, SegueIniciada
  DEF Listar, AlocarVeiculos, EscalarMotoristas, ListarCiclos, ListarVolta, tabelas, demais
<1>3. CASE GravarIda
  <2>1. \A v \in DOMAIN viagem' : viagem'[v] = "em_andamento" =>
            v \in DOMAIN viagem /\ viagem[v] = "em_andamento"
    <3>1. CASE JaAlocada(plano.reservas)
      BY <1>3, <3>1 DEF GravarIda
    <3>2. CASE ~JaAlocada(plano.reservas)
      BY <1>3, <3>2, InseridaSegue DEF GravarIda
    <3> QED
      BY <3>1, <3>2
  <2> QED
    BY <1>3, <2>1, SegueIniciada DEF GravarIda, demais
<1>4. CASE GravarVolta
  <2>1. \A v \in DOMAIN viagem' : viagem'[v] = "em_andamento" =>
            v \in DOMAIN viagem /\ viagem[v] = "em_andamento"
    <3>1. CASE UNCHANGED <<viagem, presenca>>
      BY <3>1
    <3>2. CASE Inserir(plano.veiculos, "volta", Distribuir(plano.reservas, destinoDe, plano.lugares))
      BY <3>2, InseridaSegue
    <3> QED
      BY <1>4, <3>1, <3>2 DEF GravarVolta
  <2> QED
    BY <1>4, <2>1, SegueIniciada DEF GravarVolta, demais
<1>5. CASE Finalizar \/ Cair
  BY <1>5, SegueIniciada DEF Finalizar, Cair, tabelas, demais
<1>6. ASSUME NEW r \in Reserva, CancelarReserva(r) PROVE IniciadaInv'
  BY <1>6, SegueIniciada DEF CancelarReserva
<1>7. ASSUME NEW e \in Edicoes, EditarVeiculo(e[1], e[2]) PROVE IniciadaInv'
  BY <1>7, SegueIniciada DEF EditarVeiculo, GravarVeiculo, tabelas
<1>8. ASSUME NEW v \in DOMAIN viagem, Iniciar(v) \/ Concluir(v) \/ CancelarViagem(v)
      PROVE  IniciadaInv'
  BY <1>8, SegueIniciada DEF Iniciar, Concluir, Mudar, CancelarViagem, GravarStatus
<1>9. ASSUME NEW v \in DOMAIN viagem, AutorizarPosicao(v) PROVE IniciadaInv'
  BY <1>9 DEF AutorizarPosicao, PodeEnviar, tabelas, IniciadaInv, Iniciada, PosicaoDeViagemIniciada
<1>10. ASSUME NEW v \in DOMAIN viagem, GravarPosicao(v) \/ PosicaoDoAdmin(v) PROVE IniciadaInv'
  <2>1. UNCHANGED tabelas /\ envios' \subseteq envios
    BY <1>10 DEF GravarPosicao, PosicaoDoAdmin
  <2>2. \A p \in posicao' : p \in posicao \/ p[2] # "motorista" \/ p[1] \in envios
    BY <1>10 DEF GravarPosicao, PosicaoDoAdmin
  <2> QED
    BY <2>1, <2>2 DEF tabelas, IniciadaInv, Iniciada, PosicaoDeViagemIniciada
<1>11. ASSUME NEW l \in DOMAIN presenca, NEW st \in Registraveis, AtualizarPresenca(l, st)
       PROVE  IniciadaInv'
  BY <1>11, SegueIniciada DEF AtualizarPresenca
<1>12. CASE UNCHANGED vars
  BY <1>12, SegueIniciada DEF vars, tabelas, demais
<1> QED
  BY <1>1, <1>2, <1>3, <1>4, <1>5, <1>6, <1>7, <1>8, <1>9, <1>10, <1>11, <1>12
  DEF Next, Planejador

\* A position that a driver sent belongs to a trip that was started, although the
\* trip may end between the check and the upsert.
THEOREM PosicaoSoDeIniciada == Spec => []PosicaoDeViagemIniciada
<1>1. Init => IniciadaInv
  BY DEF Init, IniciadaInv, Iniciada, PosicaoDeViagemIniciada
<1>2. IniciadaInv /\ [Next]_vars => IniciadaInv'
  BY PassoIniciada
<1>3. IniciadaInv => PosicaoDeViagemIniciada
  BY DEF IniciadaInv
<1> QED
  BY <1>1, <1>2, <1>3, PTL DEF Spec

LEMMA IniciadaSempre == Spec => []IniciadaInv
<1>1. Init => IniciadaInv
  BY DEF Init, IniciadaInv, Iniciada, PosicaoDeViagemIniciada
<1> QED
  BY <1>1, PassoIniciada, PTL DEF Spec

\* A trip whose end was recorded is over, and was started.
Encerrada ==
    \A h \in horarios : h[2] = "fim_real" =>
        <<h[1], "inicio_real">> \in horarios /\ viagem[h[1]] = "concluida"

\* One step of HistoriaDaViagem.
PassoDaHistoria ==
    /\ \A v \in DOMAIN viagem :
            /\ viagem[v] \in {"concluida", "cancelada"} => viagem'[v] = viagem[v]
            /\ viagem'[v] = "programada" => viagem[v] = "programada"
    /\ horarios \subseteq horarios'
    /\ \A h \in horarios' : h[2] = "fim_real" =>
            <<h[1], "inicio_real">> \in horarios /\ viagem'[h[1]] = "concluida"

LEMMA HistoriaParada ==
    ASSUME Tipo, Encerrada, UNCHANGED horarios, \A v \in DOMAIN viagem : viagem'[v] = viagem[v]
    PROVE  PassoDaHistoria
<1>1. \A h \in horarios : h[1] \in DOMAIN viagem
  BY DEF Tipo, TypeOK
<1> QED
  BY <1>1 DEF Encerrada, PassoDaHistoria

LEMMA PassoHistoria ==
    ASSUME Tipo, IniciadaInv, Encerrada, [Next]_vars
    PROVE  PassoDaHistoria
<1>1. CASE UNCHANGED <<viagem, horarios>>
  BY <1>1, HistoriaParada
<1>2. CASE GravarIda
  <2>1. \A v \in DOMAIN viagem : viagem'[v] = viagem[v]
    BY <1>2, GravarIdaGrava DEF GravadaIda, Insercao
  <2> QED
    BY <1>2, <2>1, HistoriaParada DEF GravarIda
<1>3. CASE GravarVolta
  <2>1. \A v \in DOMAIN viagem : viagem'[v] = viagem[v]
    BY <1>3, GravarVoltaGrava DEF GravadaVolta, Insercao
  <2> QED
    BY <1>3, <2>1, HistoriaParada DEF GravarVolta
<1>4. \A h \in horarios : h[1] \in DOMAIN viagem
  BY DEF Tipo, TypeOK
<1>5. ASSUME NEW v \in DOMAIN viagem, Iniciar(v) PROVE PassoDaHistoria
  <2>1. /\ viagem[v] = "programada" /\ viagem' = [viagem EXCEPT ![v] = "em_andamento"]
        /\ horarios' = horarios \cup {<<v, "inicio_real">>}
    BY <1>5 DEF Iniciar, Mudar
  <2> QED
    BY <1>4, <2>1 DEF Encerrada, PassoDaHistoria
<1>6. ASSUME NEW v \in DOMAIN viagem, Concluir(v) PROVE PassoDaHistoria
  <2>1. /\ viagem[v] = "em_andamento" /\ viagem' = [viagem EXCEPT ![v] = "concluida"]
        /\ horarios' = horarios \cup {<<v, "fim_real">>}
    BY <1>6 DEF Concluir, Mudar
  <2>2. <<v, "inicio_real">> \in horarios
    BY <2>1 DEF IniciadaInv, Iniciada
  <2> QED
    BY <1>4, <2>1, <2>2 DEF Encerrada, PassoDaHistoria
<1>7. ASSUME NEW v \in DOMAIN viagem, CancelarViagem(v) PROVE PassoDaHistoria
  <2>1. /\ viagem[v] \in {"programada", "em_andamento"} /\ viagem' = [viagem EXCEPT ![v] = "cancelada"]
        /\ UNCHANGED horarios
    BY <1>7 DEF CancelarViagem, GravarStatus
  <2> QED
    BY <1>4, <2>1 DEF Encerrada, PassoDaHistoria
<1>8. \/ UNCHANGED <<viagem, horarios>> \/ GravarIda \/ GravarVolta
      \/ \E v \in DOMAIN viagem : Iniciar(v) \/ Concluir(v) \/ CancelarViagem(v)
  <2>1. CASE UNCHANGED vars
    BY <2>1 DEF vars, tabelas
  <2>2. CASE \/ \E k \in Chave, s \in Sentido : Abrir(k, s)
             \/ Listar \/ AlocarVeiculos \/ EscalarMotoristas \/ ListarCiclos \/ ListarVolta
             \/ Finalizar \/ Cair
    BY <2>2 DEF Abrir, Listar, AlocarVeiculos, EscalarMotoristas, ListarCiclos, ListarVolta, Finalizar,
                Cair, tabelas
  <2>3. CASE \/ \E r \in Reserva : CancelarReserva(r)
             \/ \E e \in Edicoes : EditarVeiculo(e[1], e[2])
             \/ \E v \in DOMAIN viagem : AutorizarPosicao(v) \/ GravarPosicao(v) \/ PosicaoDoAdmin(v)
             \/ \E l \in DOMAIN presenca, st \in Registraveis : AtualizarPresenca(l, st)
    BY <2>3 DEF CancelarReserva, EditarVeiculo, GravarVeiculo, AutorizarPosicao, GravarPosicao,
                PosicaoDoAdmin, AtualizarPresenca, tabelas
  <2> QED
    BY <2>1, <2>2, <2>3 DEF Next, Planejador
<1> QED
  BY <1>1, <1>2, <1>3, <1>5, <1>6, <1>7, <1>8

LEMMA EncerradaSegue ==
    ASSUME PassoDaHistoria
    PROVE  Encerrada'
  BY DEF PassoDaHistoria, Encerrada

\* A trip that is over or cancelled stays so; its end follows its start; what was
\* recorded of them is not recorded again nor lost.
THEOREM HistoriaSemVolta == Spec => HistoriaDaViagem
<1>1. Init => Encerrada
  BY DEF Init, Encerrada
<1>2. Tipo /\ IniciadaInv /\ Encerrada /\ [Next]_vars => Encerrada'
  BY PassoHistoria, EncerradaSegue
<1>3. Tipo /\ IniciadaInv /\ Encerrada /\ [Next]_vars => [PassoDaHistoria]_vars
  BY PassoHistoria
<1>4. HistoriaDaViagem <=> [][PassoDaHistoria]_vars
  BY PTL DEF HistoriaDaViagem, PassoDaHistoria
<1> QED
  BY <1>1, <1>2, <1>3, <1>4, TipoSempre, IniciadaSempre, PTL DEF Spec

-----------------------------------------------------------------------------
(* What the steps of the planning do to the plan *)

MesmaChave == plano'.chave = plano.chave /\ plano'.sentido = plano.sentido
MesmaCarga == /\ plano'.reservas = plano.reservas /\ plano'.veiculos = plano.veiculos
              /\ plano'.lugares = plano.lugares

LEMMA PlanoListado ==
    ASSUME Tipo, Listar
    PROVE  /\ plano.fase = "listar" /\ plano'.fase \in {"sem_demanda", "alocar"} /\ MesmaChave
           /\ plano'.reservas = Confirmadas(plano.chave, "ida")
           /\ UNCHANGED <<tabelas, demais>>
<1>1. DOMAIN plano = DOMAIN SemPlano
  BY DEF Tipo, TypeOK
<1> QED
  BY <1>1 DEF Listar, SemPlano, MesmaChave

LEMMA PlanoAlocado ==
    ASSUME Tipo, AlocarVeiculos
    PROVE  /\ plano.fase = "alocar" /\ UNCHANGED <<tabelas, demais>>
           /\ \/ plano'.fase = "ocioso"
              \/ /\ plano'.fase = "escalar" /\ MesmaChave /\ plano'.reservas = plano.reservas
                 /\ Selecao # <<>> /\ plano'.veiculos = Selecao
                 /\ plano'.lugares = [j \in DOMAIN Selecao |-> LugaresDe(Selecao[j])]
<1>1. DOMAIN plano = DOMAIN SemPlano
  BY DEF Tipo, TypeOK
<1>2. plano.fase = "alocar" /\ UNCHANGED <<tabelas, demais>>
  BY DEF AlocarVeiculos
<1>3. CASE Selecao = <<>>
  BY <1>2, <1>3 DEF AlocarVeiculos, Selecao, Falhar, SemPlano
<1>4. CASE Selecao # <<>>
  <2>1. plano' = [plano EXCEPT !.veiculos = Selecao, !.fase = "escalar",
                               !.lugares = [j \in DOMAIN Selecao |-> LugaresDe(Selecao[j])]]
    BY <1>4 DEF AlocarVeiculos, Selecao
  <2> QED
    BY <1>1, <1>2, <1>4, <2>1 DEF SemPlano, MesmaChave
<1> QED
  BY <1>3, <1>4

LEMMA PlanoEscalado ==
    ASSUME Tipo, EscalarMotoristas
    PROVE  /\ plano.fase = "escalar" /\ UNCHANGED <<tabelas, demais>>
           /\ \/ plano'.fase = "ocioso"
              \/ plano'.fase = "gravar" /\ MesmaChave /\ MesmaCarga
<1>1. DOMAIN plano = DOMAIN SemPlano
  BY DEF Tipo, TypeOK
<1>2. plano.fase = "escalar" /\ UNCHANGED <<tabelas, demais>>
  BY DEF EscalarMotoristas
<1> DEFINE M == PorId(MotoristasDisponiveis(plano.chave))
<1>3. CASE Len(M) < Len(plano.veiculos)
  BY <1>2, <1>3 DEF EscalarMotoristas, Falhar, SemPlano
<1>4. CASE ~(Len(M) < Len(plano.veiculos))
  <2>1. plano' = [plano EXCEPT !.motoristas = SubSeq(M, 1, Len(plano.veiculos)), !.fase = "gravar"]
    BY <1>4 DEF EscalarMotoristas
  <2> HIDE DEF M
  <2> QED
    BY <1>1, <1>2, <2>1 DEF SemPlano, MesmaChave, MesmaCarga
<1> QED
  BY <1>3, <1>4

LEMMA PlanoGravado ==
    ASSUME Tipo, GravarIda \/ GravarVolta
    PROVE  /\ plano'.fase = "concluido" /\ MesmaChave /\ MesmaCarga
           /\ UNCHANGED <<confirmada, horarios, execucao, demais>>
<1>1. DOMAIN plano = DOMAIN SemPlano
  BY DEF Tipo, TypeOK
<1>2. plano' = [plano EXCEPT !.fase = "concluido"] /\ UNCHANGED <<confirmada, horarios, execucao, demais>>
  BY DEF GravarIda, GravarVolta, Passo
<1> QED
  BY <1>1, <1>2 DEF SemPlano, MesmaChave, MesmaCarga

LEMMA PlanoDosCiclos ==
    ASSUME Tipo, ListarCiclos
    PROVE  LET C == PorId(CiclosParaVolta(plano.chave)) IN
           /\ plano.fase = "listar_ciclos" /\ UNCHANGED <<tabelas, demais>>
           /\ plano'.fase \in {"sem_demanda", "listar_volta"} /\ MesmaChave
           /\ plano'.veiculos = C /\ plano'.lugares = [j \in DOMAIN C |-> Assento(C[j])]
<1> DEFINE C == PorId(CiclosParaVolta(plano.chave))
<1>1. DOMAIN plano = DOMAIN SemPlano
  BY DEF Tipo, TypeOK
<1>2. /\ plano.fase = "listar_ciclos" /\ UNCHANGED <<tabelas, demais>>
      /\ plano' = [plano EXCEPT !.veiculos = C, !.lugares = [j \in DOMAIN C |-> Assento(C[j])],
                                !.fase = IF C = <<>> THEN "sem_demanda" ELSE "listar_volta"]
  BY DEF ListarCiclos
<1> HIDE DEF C
<1> SUFFICES /\ plano'.fase \in {"sem_demanda", "listar_volta"} /\ MesmaChave
             /\ plano'.veiculos = C /\ plano'.lugares = [j \in DOMAIN C |-> Assento(C[j])]
  BY <1>2 DEF C
<1> QED
  BY <1>1, <1>2 DEF SemPlano, MesmaChave

LEMMA PlanoDaVolta ==
    ASSUME Tipo, ListarVolta
    PROVE  /\ plano.fase = "listar_volta" /\ UNCHANGED <<tabelas, demais>>
           /\ \/ plano'.fase = "ocioso"
              \/ /\ plano'.fase = "gravar_volta" /\ MesmaChave
                 /\ plano'.veiculos = plano.veiculos /\ plano'.lugares = plano.lugares
                 /\ plano'.reservas = Elegiveis(plano.chave)
                 /\ UNION Range(Distribuir(plano'.reservas, destinoDe, plano'.lugares)) = plano'.reservas
<1> DEFINE R == Elegiveis(plano.chave)
<1>1. DOMAIN plano = DOMAIN SemPlano
  BY DEF Tipo, TypeOK
<1>2. plano.fase = "listar_volta" /\ UNCHANGED <<tabelas, demais>>
  BY DEF ListarVolta
<1>3. CASE UNION Range(Distribuir(R, destinoDe, plano.lugares)) # R
  BY <1>2, <1>3 DEF ListarVolta, Falhar, SemPlano
<1>4. CASE UNION Range(Distribuir(R, destinoDe, plano.lugares)) = R
  <2>1. plano' = [plano EXCEPT !.reservas = R, !.fase = "gravar_volta"]
    BY <1>4 DEF ListarVolta
  <2> HIDE DEF R
  <2>2. /\ plano'.fase = "gravar_volta" /\ MesmaChave
        /\ plano'.veiculos = plano.veiculos /\ plano'.lugares = plano.lugares /\ plano'.reservas = R
    BY <1>1, <2>1 DEF SemPlano, MesmaChave
  <2> QED
    BY <1>2, <1>4, <2>2 DEF R
<1> QED
  BY <1>3, <1>4

-----------------------------------------------------------------------------
(* Nobody is forgotten on the way out *)

\* Whoever has a confirmed reserva of k has a row in a trip of it.
TodosComLinha(k) ==
    \A r \in Confirmadas(k, "ida") : \E l \in DOMAIN presenca : l[2] = r /\ ciclos[l[1][1]].chave = k

\* As soon as a key has a ciclo, everybody has a row; until then the plan under way
\* holds everybody and has seats for them.
Ida ==
    /\ \A k \in Chave : DaChave(k) # {} => TodosComLinha(k)
    /\ plano.fase \in {"alocar", "escalar", "gravar"} =>
          Confirmadas(plano.chave, "ida") \subseteq plano.reservas
    /\ plano.fase \in {"escalar", "gravar"} =>
          Cardinality(plano.reservas) <= Cardinality(Cadeiras(plano.lugares))
    /\ plano.fase = "concluido" /\ plano.sentido = "ida" => DaChave(plano.chave) # {}
    /\ \A k \in Chave : execucao[<<k, "ida">>] = "concluido" => DaChave(k) # {}

LEMMA IdaComum ==
    ASSUME Tipo, Ida, Comum
    PROVE  Ida'
<1>1. /\ UNCHANGED ciclos /\ DOMAIN presenca' = DOMAIN presenca /\ confirmada' \subseteq confirmada
      /\ UNCHANGED plano \/ plano'.fase \in {"ocioso", "listar", "listar_ciclos"}
  BY DEF Comum
<1>2. /\ \A k : DaChave(k)' = DaChave(k)
      /\ \A k, z : Confirmadas(k, z)' \subseteq Confirmadas(k, z)
  BY <1>1 DEF DaChave, Confirmadas
<1>3. \A k \in Chave : DaChave(k)' # {} => TodosComLinha(k)'
  BY <1>1, <1>2 DEF Ida, TodosComLinha
<1>4. /\ plano'.fase \in {"alocar", "escalar", "gravar"} =>
            Confirmadas(plano.chave, "ida")' \subseteq plano'.reservas /\ UNCHANGED plano
      /\ plano'.fase \in {"escalar", "gravar"} =>
            Cardinality(plano'.reservas) <= Cardinality(Cadeiras(plano'.lugares))
      /\ plano'.fase = "concluido" /\ plano'.sentido = "ida" => DaChave(plano.chave)' # {}
  <2>1. CASE UNCHANGED plano
    <3>1. plano.fase \in {"alocar", "escalar", "gravar"} =>
              Confirmadas(plano.chave, "ida")' \subseteq plano.reservas
      BY <1>1, <2>1 DEF Ida, Confirmadas
    <3>2. DaChave(plano.chave)' = DaChave(plano.chave)
      BY <1>1, <2>1 DEF DaChave
    <3> QED
      BY <2>1, <3>1, <3>2 DEF Ida
  <2> QED
    BY <1>1, <2>1
<1>5. \A k \in Chave : execucao'[<<k, "ida">>] = "concluido" => DaChave(k)' # {}
  <2> TAKE k \in Chave
  <2> HAVE execucao'[<<k, "ida">>] = "concluido"
  <2>1. <<k, "ida">> \in Chave \X Sentido
    BY DEF Sentido
  <2>2. \/ execucao'[<<k, "ida">>] \in {execucao[<<k, "ida">>], "processando"}
        \/ <<k, "ida">> = <<plano.chave, plano.sentido>> /\ execucao'[<<k, "ida">>] = plano.fase
    BY <2>1 DEF Comum
  <2> QED
    BY <1>2, <2>2 DEF Ida
<1> QED
  BY <1>1, <1>3, <1>4, <1>5 DEF Ida, Confirmadas

\* The steps that read and choose.
LEMMA IdaDoPlano ==
    ASSUME Ida, UNCHANGED <<tabelas, demais>>,
           plano'.fase \in {"alocar", "escalar", "gravar"} =>
               Confirmadas(plano'.chave, "ida") \subseteq plano'.reservas,
           plano'.fase \in {"escalar", "gravar"} =>
               Cardinality(plano'.reservas) <= Cardinality(Cadeiras(plano'.lugares)),
           plano'.fase = "concluido" => FALSE
    PROVE  Ida'
<1>1. UNCHANGED <<confirmada, ciclos, presenca, execucao>>
  BY DEF tabelas
<1>2. \A k : TodosComLinha(k)' <=> TodosComLinha(k)
  BY <1>1 DEF TodosComLinha, Confirmadas
<1>3. \A k : DaChave(k)' = DaChave(k)
  BY <1>1 DEF DaChave
<1>4. Confirmadas(plano.chave, "ida")' = Confirmadas(plano'.chave, "ida")
  BY <1>1 DEF Confirmadas
<1> QED
  BY <1>1, <1>2, <1>3, <1>4 DEF Ida

LEMMA IdaAlocada ==
    ASSUME Tipo, Ida, AlocarVeiculos
    PROVE  Ida'
<1>1. /\ plano.fase = "alocar" /\ UNCHANGED <<tabelas, demais>>
      /\ \/ plano'.fase = "ocioso"
         \/ /\ plano'.fase = "escalar" /\ MesmaChave /\ plano'.reservas = plano.reservas
            /\ Selecao # <<>>
            /\ plano'.lugares = [j \in DOMAIN Selecao |-> LugaresDe(Selecao[j])]
  BY PlanoAlocado
<1>2. CASE plano'.fase = "ocioso"
  BY <1>1, <1>2, IdaDoPlano
<1>3. CASE plano'.fase = "escalar"
  <2> DEFINE q == Cardinality(plano.reservas)
             p == PlanejarCategorias(Lugares, q)
             cat == [v \in Veiculo |-> frota[v].categoria]
             cap == plano'.lugares
  <2>1. /\ q \in Nat /\ Categorias(Lugares) /\ p \in Planos(Lugares, q)
        /\ p \in [executivo : Nat, escolar : Nat, carro : Nat]
    BY PlanoDasReservas DEF Tipo
  <2>2. q <= Assentos(Lugares, p) /\ Assentos(Lugares, p) \in Nat
    BY <2>1, TipoDosPlanos
  <2>3. /\ Lugares.carro <= Lugares.escolar /\ Lugares.escolar <= Lugares.executivo
        /\ IsFiniteSet(VeiculosDisponiveis) /\ VeiculosDisponiveis \subseteq Veiculo
        /\ \A v \in VeiculosDisponiveis : v \in Nat
    BY FrotaTipo, DadosAssumption DEF Tipo
  <2>4. Selecionar(p, VeiculosDisponiveis, cat) = Selecao
    BY DEF Selecao
  <2>5. \A j \in DOMAIN Selecao : Lugares[cat[Selecao[j]]] = LugaresDe(Selecao[j])
    <3> TAKE j \in DOMAIN Selecao
    <3>1. Selecao \in Seq(Veiculo)
      BY <1>1, <1>3, SelecaoEscolhe DEF Tipo
    <3>2. Selecao[j] \in Veiculo
      BY <3>1
    <3> QED
      BY <3>2 DEF LugaresDe
  <2>6. cap = [j \in DOMAIN Selecao |-> Lugares[cat[Selecao[j]]]]
    BY <1>1, <1>3, <2>5
  <2>7. Selecao # <<>>
    BY <1>1, <1>3
  <2> HIDE DEF q, p, cat, cap
  <2>8. Cardinality(Cadeiras(cap)) \in Nat /\ Assentos(Lugares, p) <= Cardinality(Cadeiras(cap))
    BY <2>1, <2>3, <2>4, <2>6, <2>7, CadeirasDaSelecao
  <2>9. q <= Cardinality(Cadeiras(cap))
    BY <2>1, <2>2, <2>8
  <2>10. Confirmadas(plano'.chave, "ida") \subseteq plano'.reservas
    BY <1>1, <1>3 DEF Ida, MesmaChave
  <2> QED
    BY <1>1, <1>3, <2>9, <2>10, IdaDoPlano DEF q, cap
<1> QED
  BY <1>1, <1>2, <1>3
LEMMA IdaGravada ==
    ASSUME Tipo, Ida, GravarIda
    PROVE  Ida'
<1> DEFINE n == Len(plano.veiculos)
           m == Len(ciclos)
<1>1. /\ plano'.fase = "concluido" /\ MesmaChave /\ UNCHANGED <<confirmada, execucao>>
      /\ plano.fase = "gravar"
  BY PlanoGravado DEF GravarIda
<1>6. PICK k : k = plano.chave /\ k = plano'.chave
  BY <1>1 DEF MesmaChave
<1>2. k \in Chave /\ \A c \in Chave, z \in Sentido : Confirmadas(c, z)' = Confirmadas(c, z)
  BY <1>1, <1>6 DEF Tipo, PlanoTipo, FasesIda, Confirmadas
<1>3. ASSUME NEW A, A = {c \in Chave : DaChave(c)' # {}}, k \in A,
             \A c \in A : TodosComLinha(c)', \A c \in Chave : DaChave(c) # {} => c \in A
      PROVE  Ida'
  <2>1. DaChave(plano.chave)' # {}
    <3>1. DaChave(plano.chave)' = DaChave(k)'
      BY <1>6 DEF DaChave
    <3>2. DaChave(k)' # {}
      BY <1>3
    <3> QED
      BY <3>1, <3>2
  <2>2. \A c \in Chave : execucao'[<<c, "ida">>] = "concluido" => DaChave(c)' # {}
    BY <1>1, <1>3 DEF Ida
  <2> QED
    BY <1>1, <1>3, <2>1, <2>2 DEF Ida
<1>4. CASE JaAlocada(plano.reservas) /\ UNCHANGED <<ciclos, viagem, presenca>>
  <2>1. PICK l \in DOMAIN presenca : l[2] \in plano.reservas
    BY <1>4 DEF JaAlocada, Linhas
  <2>2. chaveDe[l[2]] = k
    BY <1>1, <1>6, <2>1 DEF Tipo, PlanoTipo, PlanoIda
  <2>3. ciclos[l[1][1]].chave = k /\ l[1][1] \in DOMAIN ciclos
    BY <2>1, <2>2 DEF Tipo, LinhasTipo, TypeOK
  <2>4. DaChave(k) # {}
    BY <2>3 DEF DaChave
  <2>5. \A c \in Chave : DaChave(c)' = DaChave(c) /\ (TodosComLinha(c)' <=> TodosComLinha(c))
    BY <1>1, <1>4 DEF DaChave, TodosComLinha, Confirmadas
  <2> DEFINE A == {c \in Chave : DaChave(c)' # {}}
  <2>6. /\ k \in A /\ \A c \in A : TodosComLinha(c)'
        /\ \A c \in Chave : DaChave(c) # {} => c \in A
    BY <1>2, <2>4, <2>5 DEF Ida
  <2> QED
    BY <1>3, <2>6
<1>5. CASE GravadaIda
  <2> DEFINE ids == [j \in DOMAIN plano.veiculos |-> m + j]
  <2>1. /\ m \in Nat /\ n \in Nat /\ n # 0 /\ Len(ciclos') = m + n
        /\ ciclos' \in Seq([chave : Chave, veiculo : Veiculo, motorista : Motorista])
        /\ \A i \in 1 .. m : ciclos'[i] = ciclos[i]
        /\ \A j \in 1 .. n : ciclos'[m + j] = NovoCiclo(j)
        /\ Insercao(ids, "ida", CargaIda)
    BY <1>5 DEF GravadaIda
  <2>2. DOMAIN ciclos = 1 .. m /\ DOMAIN ciclos' = 1 .. m + n /\ DOMAIN plano.veiculos = 1 .. n
    <3>1. plano.veiculos \in Seq(Veiculo)
      BY <1>1 DEF Tipo, PlanoTipo, PlanoIda
    <3> QED
      BY <2>1, <3>1 DEF Tipo, TypeOK
  <2> HIDE DEF m, n
  <2>3. \A j \in 1 .. n : m + j \in DOMAIN ciclos' /\ ciclos'[m + j].chave = k
    <3> TAKE j \in 1 .. n
    <3>1. ciclos'[m + j] = NovoCiclo(j) /\ m + j \in 1 .. m + n
      BY <2>1
    <3>2. NovoCiclo(j).chave = k
      BY <1>6 DEF NovoCiclo
    <3>3. m + j \in DOMAIN ciclos'
      BY <2>2, <3>1
    <3> QED
      BY <3>1, <3>2, <3>3
  <2>4. \A i \in DOMAIN ciclos' : i \in DOMAIN ciclos \/ ciclos'[i].chave = k
    <3> TAKE i \in DOMAIN ciclos'
    <3>1. i \in 1 .. m \/ (i - m \in 1 .. n /\ i = m + (i - m))
      BY <2>1, <2>2
    <3> QED
      BY <2>2, <2>3, <3>1
  <2>5. \A i \in DOMAIN ciclos : i \in DOMAIN ciclos' /\ ciclos'[i] = ciclos[i]
    BY <2>1, <2>2
  <2>6. /\ \A l \in DOMAIN presenca : l \in DOMAIN presenca' /\ ciclos'[l[1][1]] = ciclos[l[1][1]]
        /\ \A l \in LinhasDaCarga(ids, "ida", CargaIda) : l \in DOMAIN presenca'
    <3>1. \A l \in DOMAIN presenca : l[1][1] \in DOMAIN ciclos
      BY DEF Tipo, TypeOK
    <3> QED
      BY <2>1, <2>5, <3>1 DEF Insercao
  <2>7. TodosComLinha(k)'
    <3>1. SUFFICES ASSUME NEW r \in Confirmadas(k, "ida")
                   PROVE  \E l \in DOMAIN presenca' : l[2] = r /\ ciclos'[l[1][1]].chave = k
      BY <1>1, <1>2 DEF TodosComLinha, Sentido
    <3>2. /\ r \in plano.reservas
          /\ Cardinality(plano.reservas) <= Cardinality(Cadeiras(plano.lugares))
      BY <1>1, <1>6, <3>1 DEF Ida
    <3>3. plano.lugares \in [1 .. n -> Nat] /\ plano.reservas \subseteq Reserva
      BY <1>1, <2>2 DEF Tipo, TypeOK, PlanoTipo, PlanoIda
    <3>4. Reparte(plano.reservas, plano.lugares, CargaIda)
      BY <2>1, <3>3, CargaReparte DEF CargaIda
    <3>5. PICK j \in 1 .. n : r \in CargaIda[j]
      BY <3>2, <3>3, <3>4 DEF Reparte
    <3> DEFINE l == <<<<ids[j], "ida">>, r>>
    <3>6. l \in LinhasDaCarga(ids, "ida", CargaIda)
      BY <2>2, <3>5, LinhaDaCarga
    <3>7. l[2] = r /\ l[1][1] = m + j
      BY <2>2
    <3> QED
      BY <2>3, <2>6, <3>6, <3>7
  <2>8. \A c \in Chave : c # k /\ DaChave(c)' # {} => DaChave(c) # {}
    BY <2>4, <2>5 DEF DaChave
  <2>9. \A c \in Chave : DaChave(c) # {} => DaChave(c)' # {} /\ TodosComLinha(c)'
    <3> TAKE c \in Chave
    <3> HAVE DaChave(c) # {}
    <3>1. DaChave(c)' # {}
      BY <2>5 DEF DaChave
    <3>2. TodosComLinha(c)
      BY DEF Ida
    <3>3. Confirmadas(c, "ida")' = Confirmadas(c, "ida")
      BY <1>2 DEF Sentido
    <3> QED
      BY <2>6, <3>1, <3>2, <3>3 DEF TodosComLinha
  <2>10. DaChave(k)' # {}
    <3>1. 1 \in 1 .. n
      BY <2>1
    <3>2. m + 1 \in DOMAIN ciclos' /\ ciclos'[m + 1].chave = k
      BY <2>3, <3>1
    <3> QED
      BY <3>2 DEF DaChave
  <2> DEFINE A == {c \in Chave : DaChave(c)' # {}}
  <2>11. /\ k \in A /\ \A c \in A : TodosComLinha(c)'
         /\ \A c \in Chave : DaChave(c) # {} => c \in A
    BY <1>2, <2>7, <2>8, <2>9, <2>10
  <2> QED
    BY <1>3, <2>11
<1> QED
  BY <1>4, <1>5, GravarIdaGrava
LEMMA PassoIda ==
    ASSUME Tipo, Ida, [Next]_vars
    PROVE  Ida'
<1>1. CASE Comum
  BY <1>1, IdaComum
<1>2. CASE Listar
  <2>1. /\ UNCHANGED <<tabelas, demais>> /\ plano'.fase \in {"sem_demanda", "alocar"}
        /\ Confirmadas(plano'.chave, "ida") \subseteq plano'.reservas
    <3>1. /\ UNCHANGED <<tabelas, demais>> /\ plano'.fase \in {"sem_demanda", "alocar"}
          /\ plano'.chave = plano.chave /\ plano'.reservas = Confirmadas(plano.chave, "ida")
      BY <1>2, PlanoListado DEF MesmaChave
    <3>2. Confirmadas(plano'.chave, "ida") = Confirmadas(plano.chave, "ida")
      BY <3>1
    <3> QED
      BY <3>1, <3>2
  <2> QED
    BY <2>1, IdaDoPlano
<1>3. CASE AlocarVeiculos
  BY <1>3, IdaAlocada
<1>4. CASE EscalarMotoristas
  <2>1. /\ plano.fase = "escalar" /\ UNCHANGED <<tabelas, demais>>
        /\ \/ plano'.fase = "ocioso"
           \/ plano'.fase = "gravar" /\ MesmaChave /\ MesmaCarga
    BY <1>4, PlanoEscalado
  <2>2. plano'.fase = "gravar" =>
            /\ Confirmadas(plano'.chave, "ida") \subseteq plano'.reservas
            /\ Cardinality(plano'.reservas) <= Cardinality(Cadeiras(plano'.lugares))
    BY <2>1 DEF Ida, MesmaChave, MesmaCarga
  <2> QED
    BY <2>1, <2>2, IdaDoPlano
<1>5. CASE GravarIda
  BY <1>5, IdaGravada
<1>6. CASE ListarCiclos
  <2>1. UNCHANGED <<tabelas, demais>> /\ plano'.fase \in {"sem_demanda", "listar_volta"}
    BY <1>6, PlanoDosCiclos
  <2> QED
    BY <2>1, IdaDoPlano
<1>7. CASE ListarVolta
  <2>1. UNCHANGED <<tabelas, demais>> /\ plano'.fase \in {"ocioso", "gravar_volta"}
    BY <1>7, PlanoDaVolta
  <2> QED
    BY <2>1, IdaDoPlano
<1>8. CASE GravarVolta
  <2>1. plano.fase = "gravar_volta" /\ plano.sentido = "volta"
    BY <1>8 DEF GravarVolta, Tipo, PlanoTipo, PlanoVolta, FasesVolta
  <2>2. plano'.fase = "concluido" /\ plano'.sentido = "volta" /\ UNCHANGED <<confirmada, execucao>>
    BY <1>8, <2>1, PlanoGravado DEF MesmaChave
  <2>3. UNCHANGED ciclos /\ \A l \in DOMAIN presenca : l \in DOMAIN presenca'
    BY <1>8, GravarVoltaGrava DEF GravadaVolta, Insercao
  <2>4. \A k \in Chave : /\ TodosComLinha(k) => TodosComLinha(k)'
                         /\ DaChave(k)' = DaChave(k)
    BY <2>2, <2>3 DEF TodosComLinha, Confirmadas, DaChave
  <2> QED
    BY <2>2, <2>4 DEF Ida
<1> QED
  BY <1>1, <1>2, <1>3, <1>4, <1>5, <1>6, <1>7, <1>8, PassoComum

\* When the outbound execution of a key is concluded, whoever has a confirmed reserva
\* of it is in one of its trips (planejamento_service.go, planejamento_processor.go):
\* the seats of the vehicles that the plan chooses are enough (CadeirasDaSelecao), so the
\* distribution leaves nobody out (DistribuirReparte), and a call that dies after the
\* commit is followed by one that finds the rows there.
THEOREM IdaSemFalta == Spec => []IdaCompleta
<1>1. Init => Ida
  <2> SUFFICES ASSUME Init PROVE Ida
    OBVIOUS
  <2>1. plano.fase = "ocioso" /\ ciclos = <<>>
    BY DEF Init, SemPlano
  <2>2. \A k \in Chave : DaChave(k) = {} /\ execucao[<<k, "ida">>] = "ausente"
    BY <2>1 DEF Init, DaChave, Sentido
  <2> QED
    BY <2>1, <2>2 DEF Ida
<1>2. Tipo /\ Ida /\ [Next]_vars => Ida'
  BY PassoIda
<1>3. Ida => IdaCompleta
  BY DEF Ida, IdaCompleta, TodosComLinha
<1> QED
  BY <1>1, <1>2, <1>3, TipoSempre, PTL DEF Spec

-----------------------------------------------------------------------------
(* What no step takes back *)

Persiste ==
    /\ \A i \in DOMAIN ciclos : i \in DOMAIN ciclos' /\ ciclos'[i] = ciclos[i]
    /\ \A l \in DOMAIN presenca :
          l \in DOMAIN presenca' /\ (presenca'[l] = presenca[l] \/ presenca'[l] \in Registraveis)
    /\ DOMAIN viagem \subseteq DOMAIN viagem'

LEMMA IdaPersiste ==
    ASSUME Tipo, GravadaIda
    PROVE  Persiste
<1> DEFINE n == Len(plano.veiculos)
           m == Len(ciclos)
           ids == [j \in DOMAIN plano.veiculos |-> m + j]
<1>1. /\ m \in Nat /\ n \in Nat /\ Len(ciclos') = m + n
      /\ ciclos' \in Seq([chave : Chave, veiculo : Veiculo, motorista : Motorista])
      /\ \A i \in 1 .. m : ciclos'[i] = ciclos[i]
      /\ Insercao(ids, "ida", CargaIda)
  BY DEF GravadaIda
<1>2. DOMAIN ciclos = 1 .. m /\ DOMAIN ciclos' = 1 .. m + n
  BY <1>1 DEF Tipo, TypeOK
<1> HIDE DEF n, m, ids
<1>3. \A i \in DOMAIN ciclos : i \in DOMAIN ciclos' /\ ciclos'[i] = ciclos[i]
  BY <1>1, <1>2
<1> QED
  BY <1>1, <1>3 DEF Persiste, Insercao

LEMMA PassoPersiste ==
    ASSUME Tipo, [Next]_vars
    PROVE  Persiste
<1>1. CASE Comum
  BY <1>1 DEF Comum, Persiste
<1>2. CASE UNCHANGED <<ciclos, viagem, presenca>>
  BY <1>2 DEF Persiste
<1>3. CASE Listar \/ AlocarVeiculos \/ EscalarMotoristas \/ ListarCiclos \/ ListarVolta
  BY <1>2, <1>3 DEF Listar, AlocarVeiculos, EscalarMotoristas, ListarCiclos, ListarVolta, tabelas
<1>4. CASE GravarIda
  BY <1>2, <1>4, GravarIdaGrava, IdaPersiste
<1>5. CASE GravarVolta
  <2>1. CASE GravadaVolta
    BY <2>1 DEF GravadaVolta, Insercao, Persiste
  <2> QED
    BY <1>2, <1>5, <2>1, GravarVoltaGrava
<1> QED
  BY <1>1, <1>3, <1>4, <1>5, PassoComum

-----------------------------------------------------------------------------
(* A return trip carries only who was on an outbound trip *)

\* The presence of the client of r on an outbound trip of k was recorded.
ComPresenca(r, k) ==
    \E p \in DOMAIN presenca :
        /\ p[1][2] = "ida" /\ presenca[p] # "aguardando"
        /\ ciclos[p[1][1]].chave = k /\ clienteDe[p[2]] = clienteDe[r]

Embarque ==
    /\ \A l \in DOMAIN presenca : l[1][2] = "volta" => ComPresenca(l[2], ciclos[l[1][1]].chave)
    /\ plano.fase = "gravar_volta" => \A r \in plano.reservas : ComPresenca(r, plano.chave)

LEMMA PresencaFica ==
    ASSUME Tipo, Persiste, NEW r, NEW k, ComPresenca(r, k)
    PROVE  ComPresenca(r, k)'
<1>1. PICK p \in DOMAIN presenca : /\ p[1][2] = "ida" /\ presenca[p] # "aguardando"
                                   /\ ciclos[p[1][1]].chave = k /\ clienteDe[p[2]] = clienteDe[r]
  BY DEF ComPresenca
<1>2. p[1][1] \in DOMAIN ciclos
  BY DEF Tipo, TypeOK
<1>3. p \in DOMAIN presenca' /\ presenca'[p] # "aguardando" /\ ciclos'[p[1][1]].chave = k
  BY <1>1, <1>2 DEF Persiste, Registraveis
<1> QED
  BY <1>1, <1>3 DEF ComPresenca

\* Rows of the return that were there keep their presence.
LEMMA LinhasAntigas ==
    ASSUME Tipo, Persiste, Embarque
    PROVE  \A l \in DOMAIN presenca : l[1][2] = "volta" => ComPresenca(l[2], ciclos[l[1][1]].chave)'
<1> TAKE l \in DOMAIN presenca
<1> HAVE l[1][2] = "volta"
<1>1. PICK k : k = ciclos[l[1][1]].chave
  OBVIOUS
<1>2. l[1][1] \in DOMAIN ciclos
  BY DEF Tipo, TypeOK
<1>3. ciclos'[l[1][1]].chave = k
  BY <1>1, <1>2 DEF Persiste
<1>4. ComPresenca(l[2], k)'
  BY <1>1, PresencaFica DEF Embarque
<1> QED
  BY <1>3, <1>4 DEF ComPresenca

LEMMA PassoEmbarque ==
    ASSUME Tipo, Embarque, [Next]_vars
    PROVE  Embarque'
<1>1. Persiste
  BY PassoPersiste
<1>2. \A l \in DOMAIN presenca : l[1][2] = "volta" => ComPresenca(l[2], ciclos[l[1][1]].chave)'
  BY <1>1, LinhasAntigas
<1>3. ASSUME DOMAIN presenca' = DOMAIN presenca,
             plano'.fase = "gravar_volta" => UNCHANGED plano
      PROVE  Embarque'
  <2>1. ASSUME plano'.fase = "gravar_volta", NEW r \in plano'.reservas PROVE ComPresenca(r, plano.chave)'
    <3>1. PICK k : k = plano.chave
      OBVIOUS
    <3>2. ComPresenca(r, k)
      BY <1>3, <2>1, <3>1 DEF Embarque
    <3>3. ComPresenca(r, k)' /\ k = plano'.chave
      BY <1>1, <1>3, <2>1, <3>1, <3>2, PresencaFica
    <3> QED
      BY <3>3 DEF ComPresenca
  <2> QED
    BY <1>2, <1>3, <2>1 DEF Embarque
<1>4. CASE Comum
  BY <1>3, <1>4 DEF Comum
<1>5. CASE Listar
  BY <1>3, <1>5, PlanoListado DEF tabelas
<1>6. CASE AlocarVeiculos
  BY <1>3, <1>6, PlanoAlocado DEF tabelas
<1>7. CASE EscalarMotoristas
  BY <1>3, <1>7, PlanoEscalado DEF tabelas
<1>8. CASE ListarCiclos
  <2>1. plano'.fase \in {"sem_demanda", "listar_volta"} /\ UNCHANGED <<tabelas, demais>>
    BY <1>8, PlanoDosCiclos
  <2> QED
    BY <1>3, <2>1 DEF tabelas
<1>9. CASE ListarVolta
  <2>1. UNCHANGED <<tabelas, demais>>
    BY <1>9, PlanoDaVolta
  <2>2. CASE plano'.fase # "gravar_volta"
    BY <1>3, <2>1, <2>2 DEF tabelas
  <2>3. CASE plano'.fase = "gravar_volta"
    <3>1. plano'.reservas = Elegiveis(plano.chave) /\ plano'.chave = plano.chave
      BY <1>9, <2>3, PlanoDaVolta DEF MesmaChave
    <3>2. ASSUME NEW r \in plano'.reservas PROVE ComPresenca(r, plano.chave)'
      <4>1. PICK l \in Linhas({"embarcou"}) : /\ l[1][2] = "ida" /\ ciclos[l[1][1]].chave = plano.chave
                                              /\ clienteDe[l[2]] = clienteDe[r]
        BY <3>1, <3>2 DEF Elegiveis
      <4>2. l \in DOMAIN presenca /\ presenca[l] # "aguardando"
        BY <4>1 DEF Linhas
      <4>3. UNCHANGED <<ciclos, presenca>>
        BY <2>1 DEF tabelas
      <4> QED
        BY <3>1, <4>1, <4>2, <4>3 DEF ComPresenca
    <3> QED
      BY <1>2, <2>1, <3>2 DEF Embarque, tabelas
  <2> QED
    BY <2>2, <2>3
<1>10. CASE GravarIda
  <2>1. plano'.fase = "concluido"
    BY <1>10, PlanoGravado
  <2>2. CASE UNCHANGED presenca
    BY <1>3, <2>1, <2>2
  <2>3. CASE GravadaIda
    <3> DEFINE ids == [j \in DOMAIN plano.veiculos |-> Len(ciclos) + j]
    <3>1. DOMAIN presenca' = DOMAIN presenca \cup LinhasDaCarga(ids, "ida", CargaIda)
      BY <2>3 DEF GravadaIda, Insercao
    <3>2. \A l \in LinhasDaCarga(ids, "ida", CargaIda) : l[1][2] = "ida"
      BY LinhaDaCarga
    <3> QED
      BY <1>2, <2>1, <3>1, <3>2 DEF Embarque
  <2> QED
    BY <1>10, <2>2, <2>3, GravarIdaGrava
<1>11. CASE GravarVolta
  <2>1. plano'.fase = "concluido" /\ plano.fase = "gravar_volta"
    BY <1>11, PlanoGravado DEF GravarVolta
  <2>2. CASE UNCHANGED presenca
    BY <1>3, <2>1, <2>2
  <2>3. CASE GravadaVolta
    <3> DEFINE ids   == plano.veiculos
               carga == Distribuir(plano.reservas, destinoDe, plano.lugares)
    <3>1. DOMAIN presenca' = DOMAIN presenca \cup LinhasDaCarga(ids, "volta", carga) /\ UNCHANGED ciclos
      BY <2>3 DEF GravadaVolta, Insercao
    <3>2. /\ ids \in Seq(DaChave(plano.chave)) /\ plano.lugares \in [DOMAIN ids -> Nat]
          /\ plano.reservas \subseteq Reserva
      BY <2>1 DEF Tipo, TypeOK, PlanoTipo, PlanoVolta
    <3> HIDE DEF ids
    <3>3. Len(ids) \in Nat /\ DOMAIN ids = 1 .. Len(ids)
      BY <3>2
    <3>4. carga \in [DOMAIN ids -> SUBSET plano.reservas]
      BY <3>2, <3>3, CargaReparte
    <3> HIDE DEF carga
    <3>5. ASSUME NEW l \in LinhasDaCarga(ids, "volta", carga)
          PROVE  ComPresenca(l[2], ciclos[l[1][1]].chave)'
      <4>1. PICK j \in DOMAIN ids : \E r \in carga[j] : l = <<<<ids[j], "volta">>, r>>
        BY <3>5, LinhaDaCarga
      <4>2. l[2] \in plano.reservas /\ l[1][1] = ids[j] /\ ids[j] \in DaChave(plano.chave)
        BY <3>2, <3>3, <3>4, <4>1
      <4>3. PICK k : k = plano.chave
        OBVIOUS
      <4>4. ciclos'[l[1][1]].chave = k
        BY <3>1, <4>2, <4>3 DEF DaChave
      <4>5. ComPresenca(l[2], k)'
        BY <1>1, <2>1, <4>2, <4>3, PresencaFica DEF Embarque
      <4> QED
        BY <4>4, <4>5 DEF ComPresenca
    <3> QED
      BY <1>2, <2>1, <3>1, <3>5 DEF Embarque
  <2> QED
    BY <1>11, <2>2, <2>3, GravarVoltaGrava
<1> QED
  BY <1>4, <1>5, <1>6, <1>7, <1>8, <1>9, <1>10, <1>11, PassoComum

\* A return trip only carries clients whose presence on an outbound trip of the key was
\* recorded (ListReservasElegiveisParaVolta, CreatePlanejamentoVolta): presence may be
\* corrected between the reading and the commit, but no correction makes it unrecorded.
THEOREM VoltaSoDeQuemEmbarcou == Spec => []VoltaDeQuemEmbarcou
<1>1. Init => Embarque
  BY DEF Init, SemPlano, Embarque
<1>2. Tipo /\ Embarque /\ [Next]_vars => Embarque'
  BY PassoEmbarque
<1>3. Embarque => VoltaDeQuemEmbarcou
  BY DEF Embarque, VoltaDeQuemEmbarcou, ComPresenca
<1> QED
  BY <1>1, <1>2, <1>3, TipoSempre, PTL DEF Spec

-----------------------------------------------------------------------------
(* Whoever boarded in time travels back *)

TemVolta(k) == \E v \in DOMAIN viagem : v[2] = "volta" /\ ciclos[v[1]].chave = k

\* The confirmed reservas back of a key whose client boarded before the return was closed.
DePontual(k) ==
    {r \in Confirmadas(k, "volta") :
        \E p \in pontuais : ciclos[p[1][1]].chave = k /\ clienteDe[p[2]] = clienteDe[r]}

ComVolta(r) == \E l \in DOMAIN presenca : l[1][2] = "volta" /\ l[2] = r

\* Those who boarded in time are still on board.
Pontuais == \A p \in pontuais : p \in DOMAIN presenca /\ p[1][2] = "ida" /\ presenca[p] = "embarcou"

\* A plan about to be committed holds all of them and seats them, a return that exists
\* carries all of them, and the execution of a key is not concluded without one.
Volta ==
    /\ Pontuais
    /\ plano.fase = "gravar_volta" =>
          /\ DePontual(plano.chave) \subseteq plano.reservas
          /\ UNION Range(Distribuir(plano.reservas, destinoDe, plano.lugares)) = plano.reservas
    /\ \A k \in Chave : TemVolta(k) => /\ execucao[<<k, "volta">>] # "ausente"
                                       /\ \A r \in DePontual(k) : ComVolta(r)
    /\ plano.fase = "concluido" /\ plano.sentido = "volta" => TemVolta(plano.chave)
    /\ \A k \in Chave : execucao[<<k, "volta">>] = "concluido" => TemVolta(k)

\* Once the return of a key is being planned nobody else boards in time.
LEMMA DePontualNaoCresce ==
    ASSUME Tipo, Comum, NEW k \in Chave, execucao[<<k, "volta">>] # "ausente"
    PROVE  DePontual(k)' \subseteq DePontual(k)
<1> SUFFICES ASSUME NEW r \in DePontual(k)' PROVE r \in DePontual(k)
  OBVIOUS
<1>1. UNCHANGED ciclos /\ confirmada' \subseteq confirmada
  BY DEF Comum
<1>2. r \in Confirmadas(k, "volta")
  BY <1>1 DEF DePontual, Confirmadas
<1>3. PICK p \in pontuais' : ciclos'[p[1][1]].chave = k /\ clienteDe[p[2]] = clienteDe[r]
  BY DEF DePontual
<1>4. \/ p \in pontuais
      \/ AntesDaVolta(p)
  BY DEF Comum
<1>5. ~AntesDaVolta(p)
  BY <1>1, <1>3 DEF AntesDaVolta
<1> QED
  BY <1>1, <1>2, <1>3, <1>4, <1>5 DEF DePontual

LEMMA PontuaisComum ==
    ASSUME Tipo, Pontuais, Comum
    PROVE  Pontuais'
<1>1. DOMAIN presenca' = DOMAIN presenca
  BY DEF Comum
<1>2. ASSUME NEW p \in pontuais'
      PROVE  p \in DOMAIN presenca' /\ p[1][2] = "ida" /\ presenca'[p] = "embarcou"
  <2>1. \/ p \in pontuais /\ presenca'[p] = presenca[p]
        \/ p \in DOMAIN presenca /\ AntesDaVolta(p) /\ presenca'[p] = "embarcou"
    BY DEF Comum
  <2> QED
    BY <1>1, <2>1 DEF Pontuais, AntesDaVolta
<1> QED
  BY <1>2 DEF Pontuais

LEMMA VoltaComum ==
    ASSUME Tipo, Volta, Comum
    PROVE  Volta'
<1>1. /\ UNCHANGED ciclos /\ DOMAIN presenca' = DOMAIN presenca /\ confirmada' \subseteq confirmada
      /\ DOMAIN viagem' = DOMAIN viagem
      /\ UNCHANGED plano \/ plano'.fase \in {"ocioso", "listar", "listar_ciclos"}
  BY DEF Comum
<1>2. Pontuais'
  BY PontuaisComum DEF Volta
<1>3. \A k : (TemVolta(k)' <=> TemVolta(k)) /\ (ComVolta(k)' <=> ComVolta(k))
  BY <1>1 DEF TemVolta, ComVolta
<1>4. \A k \in Chave : \/ execucao'[<<k, "volta">>] \in {execucao[<<k, "volta">>], "processando"}
                       \/ /\ <<k, "volta">> = <<plano.chave, plano.sentido>> /\ plano.fase \in Terminal
                          /\ execucao'[<<k, "volta">>] = plano.fase
  BY DEF Comum, Sentido
<1>5. \A k \in Chave : TemVolta(k)' => /\ execucao'[<<k, "volta">>] # "ausente"
                                       /\ \A r \in DePontual(k)' : ComVolta(r)'
  <2> TAKE k \in Chave
  <2> HAVE TemVolta(k)'
  <2>1. execucao[<<k, "volta">>] # "ausente" /\ \A r \in DePontual(k) : ComVolta(r)
    BY <1>3 DEF Volta
  <2>2. execucao'[<<k, "volta">>] # "ausente"
    BY <1>4, <2>1 DEF Terminal
  <2>3. DePontual(k)' \subseteq DePontual(k)
    BY <2>1, DePontualNaoCresce
  <2> QED
    BY <1>3, <2>1, <2>2, <2>3
<1>6. plano'.fase = "gravar_volta" =>
          /\ DePontual(plano.chave)' \subseteq plano'.reservas
          /\ UNION Range(Distribuir(plano'.reservas, destinoDe, plano'.lugares)) = plano'.reservas
  <2> HAVE plano'.fase = "gravar_volta"
  <2>1. plano' = plano
    BY <1>1
  <2>2. PICK k : k = plano.chave
    OBVIOUS
  <2>3. k \in Chave /\ execucao[<<k, "volta">>] = "processando"
    BY <2>1, <2>2 DEF Tipo, PlanoTipo, PlanoVolta, FasesVolta
  <2>4. DePontual(k)' \subseteq DePontual(k)
    BY <2>3, DePontualNaoCresce
  <2>5. DePontual(k) \subseteq plano.reservas
    BY <2>1, <2>2 DEF Volta
  <2>6. k = plano'.chave
    BY <2>1, <2>2
  <2>7. DePontual(plano.chave)' = DePontual(k)'
    BY <2>6 DEF DePontual, Confirmadas
  <2> QED
    BY <2>1, <2>4, <2>5, <2>7 DEF Volta
<1>7. plano'.fase = "concluido" /\ plano'.sentido = "volta" => TemVolta(plano.chave)'
  <2> HAVE plano'.fase = "concluido" /\ plano'.sentido = "volta"
  <2>1. plano' = plano
    BY <1>1
  <2> QED
    BY <1>1, <2>1 DEF Volta, TemVolta
<1>8. \A k \in Chave : execucao'[<<k, "volta">>] = "concluido" => TemVolta(k)'
  BY <1>3, <1>4 DEF Volta
<1> QED
  BY <1>2, <1>5, <1>6, <1>7, <1>8 DEF Volta

LEMMA VoltaDoPlano ==
    ASSUME Volta, UNCHANGED <<tabelas, demais>>, plano'.fase # "concluido",
           plano'.fase = "gravar_volta" =>
               /\ DePontual(plano'.chave) \subseteq plano'.reservas
               /\ UNION Range(Distribuir(plano'.reservas, destinoDe, plano'.lugares)) = plano'.reservas
    PROVE  Volta'
<1>1. UNCHANGED <<confirmada, ciclos, viagem, presenca, execucao, pontuais>>
  BY DEF tabelas, demais
<1>2. Pontuais'
  BY <1>1 DEF Volta, Pontuais
<1>3. \A k : /\ TemVolta(k)' <=> TemVolta(k)
             /\ ComVolta(k)' <=> ComVolta(k)
             /\ DePontual(k)' = DePontual(k)
  BY <1>1 DEF TemVolta, ComVolta, DePontual, Confirmadas
<1>4. DePontual(plano.chave)' = DePontual(plano'.chave)
  BY <1>1 DEF DePontual, Confirmadas
<1> QED
  BY <1>1, <1>2, <1>3, <1>4 DEF Volta

LEMMA VoltaLida ==
    ASSUME Tipo, Volta, ListarVolta
    PROVE  Volta'
<1>1. /\ plano.fase = "listar_volta" /\ UNCHANGED <<tabelas, demais>>
      /\ \/ plano'.fase = "ocioso"
         \/ /\ plano'.fase = "gravar_volta" /\ MesmaChave
            /\ plano'.reservas = Elegiveis(plano.chave)
            /\ UNION Range(Distribuir(plano'.reservas, destinoDe, plano'.lugares)) = plano'.reservas
  BY PlanoDaVolta
<1>2. CASE plano'.fase = "ocioso"
  BY <1>1, <1>2, VoltaDoPlano
<1>3. CASE plano'.fase = "gravar_volta"
  <2>1. plano'.chave = plano.chave /\ plano'.reservas = Elegiveis(plano.chave)
    BY <1>1, <1>3 DEF MesmaChave
  <2>2. DePontual(plano.chave) \subseteq Elegiveis(plano.chave)
    BY DEF DePontual, Elegiveis, Linhas, Volta, Pontuais
  <2>3. DePontual(plano'.chave) = DePontual(plano.chave)
    BY <2>1
  <2> QED
    BY <1>1, <1>3, <2>1, <2>2, <2>3, VoltaDoPlano
<1> QED
  BY <1>1, <1>2, <1>3

LEMMA VoltaGravadaIda ==
    ASSUME Tipo, Volta, GravarIda
    PROVE  Volta'
<1>1. /\ plano.fase = "gravar" /\ plano'.fase = "concluido" /\ plano'.sentido = "ida"
      /\ UNCHANGED <<confirmada, execucao, pontuais>>
  BY PlanoGravado DEF GravarIda, MesmaChave, demais, Tipo, PlanoTipo, PlanoIda, FasesIda
<1>2. CASE UNCHANGED <<ciclos, viagem, presenca>>
  <2>1. \A k : /\ TemVolta(k)' <=> TemVolta(k)
               /\ ComVolta(k)' <=> ComVolta(k)
               /\ DePontual(k)' = DePontual(k)
    BY <1>1, <1>2 DEF TemVolta, ComVolta, DePontual, Confirmadas
  <2>2. Pontuais'
    BY <1>1, <1>2 DEF Volta, Pontuais
  <2> QED
    BY <1>1, <2>1, <2>2 DEF Volta
<1>3. CASE GravadaIda
  <2> DEFINE ids == [j \in DOMAIN plano.veiculos |-> Len(ciclos) + j]
  <2>1. /\ DOMAIN viagem' = DOMAIN viagem \cup {<<ids[j], "ida">> : j \in DOMAIN ids}
        /\ DOMAIN presenca' = DOMAIN presenca \cup LinhasDaCarga(ids, "ida", CargaIda)
        /\ \A l \in DOMAIN presenca : presenca'[l] = presenca[l]
    BY <1>3 DEF GravadaIda, Insercao
  <2>2. Persiste
    BY <1>3, IdaPersiste
  <2>3. \A l \in LinhasDaCarga(ids, "ida", CargaIda) : l[1][2] = "ida"
    BY LinhaDaCarga
  <2> HIDE DEF ids
  <2>4. \A v \in DOMAIN viagem' : v[2] = "volta" => v \in DOMAIN viagem
    BY <2>1
  <2>5. \A v \in DOMAIN viagem : v \in DOMAIN viagem' /\ ciclos'[v[1]] = ciclos[v[1]]
    BY <2>2 DEF Persiste, Tipo, TypeOK
  <2>6. \A p \in pontuais : p \in DOMAIN presenca /\ ciclos'[p[1][1]] = ciclos[p[1][1]]
    BY <2>2 DEF Persiste, Tipo, TypeOK
  <2>7. \A k : TemVolta(k)' <=> TemVolta(k)
    BY <2>4, <2>5 DEF TemVolta
  <2>8. \A r : ComVolta(r) => ComVolta(r)'
    BY <2>1 DEF ComVolta
  <2>9. \A k : DePontual(k)' \subseteq DePontual(k)
    BY <1>1, <2>6 DEF DePontual, Confirmadas
  <2>10. Pontuais'
    BY <1>1, <2>1, <2>6 DEF Volta, Pontuais
  <2> QED
    BY <1>1, <2>7, <2>8, <2>9, <2>10 DEF Volta
<1> QED
  BY <1>2, <1>3, GravarIdaGrava

LEMMA VoltaGravada ==
    ASSUME Tipo, Volta, GravarVolta
    PROVE  Volta'
<1>1. /\ plano.fase = "gravar_volta" /\ plano'.fase = "concluido" /\ plano'.chave = plano.chave
      /\ UNCHANGED <<confirmada, execucao, pontuais>>
  BY PlanoGravado DEF GravarVolta, MesmaChave, demais
<1>2. PICK k : k = plano.chave
  OBVIOUS
<1>3. /\ k \in Chave /\ execucao[<<k, "volta">>] = "processando"
      /\ plano.veiculos \in Seq(DaChave(k)) /\ plano.veiculos # <<>>
      /\ plano.lugares \in [DOMAIN plano.veiculos -> Nat] /\ plano.reservas \subseteq Reserva
      /\ \A r \in plano.reservas : chaveDe[r] = k /\ sentidoDe[r] = "volta"
  BY <1>1, <1>2 DEF Tipo, TypeOK, PlanoTipo, PlanoVolta, FasesVolta
<1>4. TemVolta(plano.chave)' <=> TemVolta(k)'
  BY <1>1, <1>2 DEF TemVolta
<1>5. CASE /\ \/ \E j \in DOMAIN plano.veiculos : <<plano.veiculos[j], "volta">> \in DOMAIN viagem
              \/ JaAlocada(plano.reservas)
           /\ UNCHANGED <<ciclos, viagem, presenca>>
  <2>1. \A c : /\ TemVolta(c)' <=> TemVolta(c)
               /\ ComVolta(c)' <=> ComVolta(c)
               /\ DePontual(c)' = DePontual(c)
    BY <1>1, <1>5 DEF TemVolta, ComVolta, DePontual, Confirmadas
  <2>2. Pontuais'
    BY <1>1, <1>5 DEF Volta, Pontuais
  <2>3. TemVolta(k)
    <3>1. CASE \E j \in DOMAIN plano.veiculos : <<plano.veiculos[j], "volta">> \in DOMAIN viagem
      <4>1. PICK j \in DOMAIN plano.veiculos : <<plano.veiculos[j], "volta">> \in DOMAIN viagem
        BY <3>1
      <4>2. plano.veiculos[j] \in DaChave(k)
        BY <1>3
      <4> QED
        BY <4>1, <4>2 DEF TemVolta, DaChave
    <3>2. CASE JaAlocada(plano.reservas)
      <4>1. PICK l \in DOMAIN presenca : l[2] \in plano.reservas
        BY <3>2 DEF JaAlocada, Linhas
      <4>2. l[1][2] = "volta" /\ ciclos[l[1][1]].chave = k /\ l[1] \in DOMAIN viagem
        BY <1>3, <4>1 DEF Tipo, TypeOK, LinhasTipo
      <4> QED
        BY <4>2 DEF TemVolta
    <3> QED
      BY <1>5, <3>1, <3>2
  <2> QED
    BY <1>1, <1>4, <2>1, <2>2, <2>3 DEF Volta
<1>6. CASE GravadaVolta
  <2> DEFINE ids   == plano.veiculos
             carga == Distribuir(plano.reservas, destinoDe, plano.lugares)
  <2>1. /\ UNCHANGED ciclos
        /\ DOMAIN viagem' = DOMAIN viagem \cup {<<ids[j], "volta">> : j \in DOMAIN ids}
        /\ DOMAIN presenca' = DOMAIN presenca \cup LinhasDaCarga(ids, "volta", carga)
        /\ \A l \in DOMAIN presenca : presenca'[l] = presenca[l]
    BY <1>6 DEF GravadaVolta, Insercao
  <2>2. Len(ids) \in Nat /\ DOMAIN ids = 1 .. Len(ids) /\ 1 \in DOMAIN ids
    BY <1>3
  <2>3. \A j \in DOMAIN ids : ids[j] \in DaChave(k)
    BY <1>3
  <2>4. /\ DePontual(k) \subseteq plano.reservas
        /\ UNION Range(carga) = plano.reservas
    BY <1>1, <1>2 DEF Volta
  <2>5. carga \in [DOMAIN ids -> SUBSET plano.reservas]
    BY <1>3, <2>2, CargaReparte
  <2> HIDE DEF ids, carga
  <2>6. TemVolta(k)'
    <3>1. <<ids[1], "volta">> \in DOMAIN viagem'
      BY <2>1, <2>2
    <3>2. ciclos'[ids[1]].chave = k
      BY <2>1, <2>2, <2>3 DEF DaChave
    <3> QED
      BY <3>1, <3>2 DEF TemVolta
  <2>7. \A c : c # k /\ TemVolta(c)' => TemVolta(c)
    <3> TAKE c
    <3> HAVE c # k /\ TemVolta(c)'
    <3>1. PICK v \in DOMAIN viagem' : v[2] = "volta" /\ ciclos'[v[1]].chave = c
      BY DEF TemVolta
    <3>2. v \in DOMAIN viagem \/ \E j \in DOMAIN ids : v = <<ids[j], "volta">>
      BY <2>1
    <3>3. \A j \in DOMAIN ids : ciclos'[ids[j]].chave = k
      BY <2>1, <2>3 DEF DaChave
    <3> QED
      BY <2>1, <3>1, <3>2, <3>3 DEF TemVolta
  <2>8. \A c : DePontual(c)' = DePontual(c)
    BY <1>1, <2>1 DEF DePontual, Confirmadas
  <2>9. \A r : ComVolta(r) => ComVolta(r)'
    BY <2>1 DEF ComVolta
  <2>10. \A r \in plano.reservas : ComVolta(r)'
    <3> TAKE r \in plano.reservas
    <3>1. PICK j \in DOMAIN ids : r \in carga[j]
      BY <2>4, <2>5 DEF Range
    <3> DEFINE l == <<<<ids[j], "volta">>, r>>
    <3>2. l \in LinhasDaCarga(ids, "volta", carga)
      BY <3>1, LinhaDaCarga
    <3>3. l \in DOMAIN presenca' /\ l[1][2] = "volta" /\ l[2] = r
      BY <2>1, <3>2
    <3> QED
      BY <3>3 DEF ComVolta
  <2>11. \A p \in pontuais : p \in DOMAIN presenca
    BY DEF Tipo, TypeOK
  <2>12. Pontuais'
    BY <1>1, <2>1, <2>11 DEF Volta, Pontuais
  <2>13. \A c \in Chave : TemVolta(c)' => /\ execucao'[<<c, "volta">>] # "ausente"
                                          /\ \A r \in DePontual(c)' : ComVolta(r)'
    <3> TAKE c \in Chave
    <3> HAVE TemVolta(c)'
    <3>1. CASE c = k
      BY <1>1, <1>3, <2>4, <2>8, <2>10, <3>1
    <3>2. CASE c # k
      BY <1>1, <2>7, <2>8, <2>9, <3>2 DEF Volta
    <3> QED
      BY <3>1, <3>2
  <2>14. \A c \in Chave : execucao'[<<c, "volta">>] = "concluido" => TemVolta(c)'
    <3>1. \A c : TemVolta(c) => TemVolta(c)'
      BY <2>1 DEF TemVolta
    <3> QED
      BY <1>1, <3>1 DEF Volta
  <2> QED
    BY <1>1, <1>4, <2>6, <2>12, <2>13, <2>14 DEF Volta
<1> QED
  BY <1>5, <1>6, GravarVoltaGrava

LEMMA PassoVolta ==
    ASSUME Tipo, Volta, [Next]_vars
    PROVE  Volta'
<1>1. CASE Listar
  BY <1>1, PlanoListado, VoltaDoPlano
<1>2. CASE AlocarVeiculos
  <2>1. UNCHANGED <<tabelas, demais>> /\ plano'.fase \in {"ocioso", "escalar"}
    BY <1>2, PlanoAlocado
  <2> QED
    BY <2>1, VoltaDoPlano
<1>3. CASE EscalarMotoristas
  <2>1. UNCHANGED <<tabelas, demais>> /\ plano'.fase \in {"ocioso", "gravar"}
    BY <1>3, PlanoEscalado
  <2> QED
    BY <2>1, VoltaDoPlano
<1>4. CASE ListarCiclos
  <2>1. UNCHANGED <<tabelas, demais>> /\ plano'.fase \in {"sem_demanda", "listar_volta"}
    BY <1>4, PlanoDosCiclos
  <2> QED
    BY <2>1, VoltaDoPlano
<1> QED
  BY <1>1, <1>2, <1>3, <1>4, VoltaComum, VoltaLida, VoltaGravadaIda, VoltaGravada, PassoComum

\* Whoever boarded before the return was closed and has a confirmed reserva for it is in
\* a return trip once its execution is concluded: nobody else boards in time while the
\* return is planned, the check of ListarVolta leaves nobody out, and a commit that finds
\* trips or rows there was preceded by one that carried everybody.
THEOREM NinguemFicaParaTras == Spec => []QuemEmbarcouVolta
<1>1. Init => Volta
  <2> SUFFICES ASSUME Init PROVE Volta
    OBVIOUS
  <2>1. plano.fase = "ocioso" /\ DOMAIN viagem = {} /\ pontuais = {}
    BY DEF Init, SemPlano
  <2>2. \A k \in Chave : execucao[<<k, "volta">>] = "ausente"
    BY DEF Init, Sentido
  <2> QED
    BY <2>1, <2>2 DEF Volta, Pontuais, TemVolta
<1>2. Tipo /\ Volta /\ [Next]_vars => Volta'
  BY PassoVolta
<1>3. Tipo /\ Volta => QuemEmbarcouVolta
  <2> SUFFICES ASSUME Tipo, Volta, NEW p \in pontuais, NEW r \in confirmada,
                      execucao[<<ciclos[p[1][1]].chave, "volta">>] = "concluido",
                      sentidoDe[r] = "volta", chaveDe[r] = ciclos[p[1][1]].chave,
                      clienteDe[r] = clienteDe[p[2]]
               PROVE  ComVolta(r)
    BY DEF QuemEmbarcouVolta, ComVolta
  <2>1. PICK k : k = ciclos[p[1][1]].chave
    OBVIOUS
  <2>2. k \in Chave
    BY <2>1, DadosAssumption DEF Tipo, TypeOK
  <2>3. r \in DePontual(k)
    BY <2>1 DEF DePontual, Confirmadas
  <2> QED
    BY <2>1, <2>2, <2>3 DEF Volta
<1> QED
  BY <1>1, <1>2, <1>3, TipoSempre, PTL DEF Spec

-----------------------------------------------------------------------------
(* Seats *)

LinhasDe(v) == {l \in DOMAIN presenca : l[1] = v}

\* The rows of a trip, cancelled ones included, have seats; the seats a plan counts on
\* are those of its vehicles, as long as nobody edits them.
Lotacao ==
    /\ \A v \in DOMAIN viagem : ciclos[v[1]].veiculo \notin editados =>
          Cardinality(LinhasDe(v)) <= Assento(v[1])
    /\ plano.fase \in {"escalar", "gravar"} =>
          \A j \in DOMAIN plano.veiculos : plano.veiculos[j] \notin editados =>
              plano.lugares[j] = LugaresDe(plano.veiculos[j])
    /\ plano.fase \in {"listar_volta", "gravar_volta"} =>
          \A j \in DOMAIN plano.veiculos : ciclos[plano.veiculos[j]].veiculo \notin editados =>
              plano.lugares[j] = Assento(plano.veiculos[j])

LEMMA VeiculoDoCiclo ==
    ASSUME TypeOK, NEW i \in DOMAIN ciclos
    PROVE  ciclos[i].veiculo \in Veiculo /\ ciclos[i].chave \in Chave
<1>1. ciclos \in Seq([chave : Chave, veiculo : Veiculo, motorista : Motorista])
  BY DEF TypeOK
<1> DEFINE C == [chave : Chave, veiculo : Veiculo, motorista : Motorista]
<1>2. ciclos[i] \in C
  <2>1. ciclos \in Seq(C)
    BY <1>1
  <2> HIDE DEF C
  <2> QED
    BY <2>1
<1> QED
  BY <1>2

LEMMA LinhasFinitas ==
    ASSUME Tipo, NEW v
    PROVE  IsFiniteSet(LinhasDe(v))
<1>1. IsFiniteSet({v} \X Reserva)
  BY FS_Singleton, FS_Product, DadosAssumption
<1>2. LinhasDe(v) \subseteq {v} \X Reserva
  BY DEF LinhasDe, Tipo, LinhasTipo
<1> QED
  BY <1>1, <1>2, FS_Subset

LEMMA LotacaoBasta == Tipo /\ Lotacao => LotacaoRespeitada
<1> SUFFICES ASSUME Tipo, Lotacao, NEW v \in DOMAIN viagem, ciclos[v[1]].veiculo \notin editados
             PROVE  Cardinality({l \in Linhas(Ativas) : l[1] = v}) <= Assento(v[1])
  BY DEF LotacaoRespeitada
<1> DEFINE A == {l \in Linhas(Ativas) : l[1] = v}
<1>1. A \subseteq LinhasDe(v)
  BY DEF Linhas, LinhasDe
<1>2. IsFiniteSet(LinhasDe(v))
  BY LinhasFinitas
<1> HIDE DEF A
<1>3. Cardinality(A) <= Cardinality(LinhasDe(v)) /\ Cardinality(A) \in Nat /\ Cardinality(LinhasDe(v)) \in Nat
  BY <1>1, <1>2, FS_Subset, FS_CardinalityType
<1>4. Assento(v[1]) \in Nat
  <2>1. v[1] \in DOMAIN ciclos
    BY DEF Tipo, TypeOK
  <2>2. ciclos[v[1]].veiculo \in Veiculo
    BY <2>1, VeiculoDoCiclo DEF Tipo
  <2> QED
    BY <2>2, FrotaTipo DEF Tipo, Assento
<1>5. Cardinality(LinhasDe(v)) <= Assento(v[1])
  BY DEF Lotacao
<1>6. Cardinality(A) <= Assento(v[1])
  BY <1>3, <1>4, <1>5
<1> QED
  BY <1>6 DEF A

\* The rows of a trip after an insertion: those it had, or one for every passenger.
LEMMA LinhasInseridas ==
    ASSUME Tipo, NEW ids, NEW s, NEW carga, Insercao(ids, s, carga),
           \A i, j \in DOMAIN ids : ids[i] = ids[j] => i = j,
           NEW v \in DOMAIN viagem'
    PROVE  \/ v \in DOMAIN viagem /\ LinhasDe(v)' = LinhasDe(v)
           \/ \E j \in DOMAIN ids : v = <<ids[j], s>> /\ LinhasDe(v)' = {v} \X carga[j]
<1>1. /\ DOMAIN viagem' = DOMAIN viagem \cup {<<ids[j], s>> : j \in DOMAIN ids}
      /\ \A j \in DOMAIN ids : <<ids[j], s>> \notin DOMAIN viagem
      /\ DOMAIN presenca' = DOMAIN presenca \cup LinhasDaCarga(ids, s, carga)
  BY DEF Insercao
<1>2. \A l \in DOMAIN presenca : l[1] \in DOMAIN viagem
  BY DEF Tipo, TypeOK
<1>3. CASE v \in DOMAIN viagem
  <2>1. \A l \in LinhasDaCarga(ids, s, carga) : l[1] # v
    <3> TAKE l \in LinhasDaCarga(ids, s, carga)
    <3>1. PICK j \in DOMAIN ids : l[1] = <<ids[j], s>>
      BY LinhaDaCarga
    <3> QED
      BY <1>1, <1>3, <3>1
  <2> QED
    BY <1>1, <1>3, <2>1 DEF LinhasDe
<1>4. CASE v \notin DOMAIN viagem
  <2>1. PICK j \in DOMAIN ids : v = <<ids[j], s>>
    BY <1>1, <1>4
  <2>2. ASSUME NEW l \in LinhasDe(v)' PROVE l \in {v} \X carga[j]
    <3>1. l \in LinhasDaCarga(ids, s, carga) /\ l[1] = v
      BY <1>1, <1>2, <1>4 DEF LinhasDe
    <3>2. PICK i \in DOMAIN ids : \E r \in carga[i] : l = <<<<ids[i], s>>, r>>
      BY <3>1, LinhaDaCarga
    <3>3. i = j
      BY <2>1, <3>1, <3>2
    <3> QED
      BY <2>1, <3>2, <3>3
  <2>3. ASSUME NEW l \in {v} \X carga[j] PROVE l \in LinhasDe(v)'
    <3>1. PICK r \in carga[j] : l = <<v, r>>
      BY <2>3
    <3>2. l \in LinhasDaCarga(ids, s, carga)
      BY <2>1, <3>1, LinhaDaCarga
    <3> QED
      BY <1>1, <3>1, <3>2 DEF LinhasDe
  <2> QED
    BY <2>1, <2>2, <2>3
<1> QED
  BY <1>3, <1>4

\* A trip that is inserted is as full as its vehicle in the plan.
LEMMA CargaCabe ==
    ASSUME Tipo, NEW n, n \in Nat, plano.lugares \in [1 .. n -> Nat], NEW j \in 1 .. n, NEW v
    PROVE  Cardinality({v} \X Distribuir(plano.reservas, destinoDe, plano.lugares)[j]) <= plano.lugares[j]
<1> DEFINE c == Distribuir(plano.reservas, destinoDe, plano.lugares)
<1>1. plano.reservas \subseteq Reserva
  BY DEF Tipo, TypeOK
<1>2. Reparte(plano.reservas, plano.lugares, c)
  BY <1>1, CargaReparte
<1> HIDE DEF c
<1>3. IsFiniteSet(c[j]) /\ Cardinality(c[j]) <= plano.lugares[j]
  BY <1>2 DEF Reparte, Cabe
<1>4. IsFiniteSet({v}) /\ Cardinality({v}) = 1
  BY FS_Singleton
<1>5. Cardinality(c[j]) \in Nat
  BY <1>3, FS_CardinalityType
<1>6. Cardinality({v} \X c[j]) = Cardinality({v}) * Cardinality(c[j])
  BY <1>3, <1>4, FS_Product
<1>7. Cardinality({v} \X c[j]) <= plano.lugares[j]
  BY <1>3, <1>4, <1>5, <1>6
<1> QED
  BY <1>7 DEF c

LEMMA LotacaoComum ==
    ASSUME Tipo, Lotacao, Comum
    PROVE  Lotacao'
<1>1. /\ UNCHANGED ciclos /\ DOMAIN presenca' = DOMAIN presenca /\ DOMAIN viagem' = DOMAIN viagem
      /\ UNCHANGED plano \/ plano'.fase \in {"ocioso", "listar", "listar_ciclos"}
      /\ \A v \in Veiculo : v \notin editados' => v \notin editados /\ frota'[v] = frota[v]
  BY DEF Comum
<1>2. \A i \in DOMAIN ciclos : ciclos[i].veiculo \in Veiculo
  BY VeiculoDoCiclo DEF Tipo
<1>3. \A i \in DOMAIN ciclos : ciclos[i].veiculo \notin editados' =>
          ciclos[i].veiculo \notin editados /\ Assento(i)' = Assento(i)
  BY <1>1, <1>2 DEF Assento, LugaresDe
<1>4. \A v \in DOMAIN viagem : v[1] \in DOMAIN ciclos /\ LinhasDe(v)' = LinhasDe(v)
  BY <1>1 DEF LinhasDe, Tipo, TypeOK
<1>5. \A v \in DOMAIN viagem' : ciclos'[v[1]].veiculo \notin editados' =>
          Cardinality(LinhasDe(v)') <= Assento(v[1])'
  <2> TAKE v \in DOMAIN viagem'
  <2> HAVE ciclos'[v[1]].veiculo \notin editados'
  <2>1. v \in DOMAIN viagem /\ v[1] \in DOMAIN ciclos /\ LinhasDe(v)' = LinhasDe(v)
    BY <1>1, <1>4
  <2>2. ciclos[v[1]].veiculo \notin editados /\ Assento(v[1])' = Assento(v[1])
    BY <1>1, <1>3, <2>1
  <2> QED
    BY <2>1, <2>2 DEF Lotacao
<1>6. CASE plano'.fase \in {"ocioso", "listar", "listar_ciclos"}
  BY <1>5, <1>6 DEF Lotacao
<1>7. CASE UNCHANGED plano
  <2>1. plano.fase \in {"escalar", "gravar"} =>
            \A j \in DOMAIN plano.veiculos : plano.veiculos[j] \notin editados' =>
                plano.lugares[j] = LugaresDe(plano.veiculos[j])'
    <3> HAVE plano.fase \in {"escalar", "gravar"}
    <3> TAKE j \in DOMAIN plano.veiculos
    <3> HAVE plano.veiculos[j] \notin editados'
    <3>1. plano.veiculos[j] \in Veiculo
      BY DEF Tipo, PlanoTipo, PlanoIda
    <3>2. plano.veiculos[j] \notin editados /\ frota'[plano.veiculos[j]] = frota[plano.veiculos[j]]
      BY <1>1, <3>1
    <3> QED
      BY <1>7, <3>2 DEF Lotacao, LugaresDe
  <2>2. plano.fase \in {"listar_volta", "gravar_volta"} =>
            \A j \in DOMAIN plano.veiculos : ciclos'[plano.veiculos[j]].veiculo \notin editados' =>
                plano.lugares[j] = Assento(plano.veiculos[j])'
    <3> HAVE plano.fase \in {"listar_volta", "gravar_volta"}
    <3> TAKE j \in DOMAIN plano.veiculos
    <3> HAVE ciclos'[plano.veiculos[j]].veiculo \notin editados'
    <3>1. PICK i : i = plano.veiculos[j]
      OBVIOUS
    <3>2. i \in DOMAIN ciclos
      BY <3>1 DEF Tipo, PlanoTipo, PlanoVolta, DaChave
    <3>3. ciclos[i].veiculo \notin editados /\ Assento(i)' = Assento(i)
      BY <1>1, <1>3, <3>1, <3>2
    <3>4. i = plano'.veiculos[j]
      BY <1>7, <3>1
    <3> QED
      BY <3>1, <3>3, <3>4 DEF Lotacao, Assento, LugaresDe
  <2> QED
    BY <1>5, <1>7, <2>1, <2>2 DEF Lotacao
<1> QED
  BY <1>1, <1>6, <1>7
\* The trips that were there keep their rows and their vehicle.
LEMMA LotacaoAntiga ==
    ASSUME Tipo, Lotacao, Persiste, UNCHANGED cadastro, NEW v \in DOMAIN viagem,
           LinhasDe(v)' = LinhasDe(v), ciclos'[v[1]].veiculo \notin editados'
    PROVE  Cardinality(LinhasDe(v)') <= Assento(v[1])'
<1>1. v[1] \in DOMAIN ciclos
  BY DEF Tipo, TypeOK
<1>2. ciclos'[v[1]] = ciclos[v[1]] /\ UNCHANGED <<frota, editados>>
  BY <1>1 DEF Persiste, cadastro
<1>3. Assento(v[1])' = Assento(v[1])
  BY <1>2 DEF Assento, LugaresDe
<1> QED
  BY <1>2, <1>3 DEF Lotacao

\* The steps that read and choose.
LEMMA LotacaoDoPlano ==
    ASSUME Lotacao, UNCHANGED <<tabelas, demais>>,
           plano'.fase \in {"escalar", "gravar"} =>
               \A j \in DOMAIN plano'.veiculos : plano'.lugares[j] = LugaresDe(plano'.veiculos[j])
                                                 \/ plano'.veiculos[j] \in editados,
           plano'.fase \in {"listar_volta", "gravar_volta"} =>
               \A j \in DOMAIN plano'.veiculos : plano'.lugares[j] = Assento(plano'.veiculos[j])
                                                 \/ ciclos[plano'.veiculos[j]].veiculo \in editados
    PROVE  Lotacao'
<1>1. UNCHANGED <<ciclos, viagem, presenca, frota, editados>>
  BY DEF tabelas, demais, cadastro
<1>2. \A i : LugaresDe(i)' = LugaresDe(i) /\ Assento(i)' = Assento(i) /\ LinhasDe(i)' = LinhasDe(i)
  BY <1>1 DEF LugaresDe, Assento, LinhasDe
<1>3. \A v \in DOMAIN viagem' : ciclos'[v[1]].veiculo \notin editados' =>
          Cardinality(LinhasDe(v)') <= Assento(v[1])'
  BY <1>1, <1>2 DEF Lotacao
<1>4. plano'.fase \in {"escalar", "gravar"} =>
          \A j \in DOMAIN plano'.veiculos : plano'.veiculos[j] \notin editados' =>
              plano'.lugares[j] = LugaresDe(plano.veiculos[j])'
  BY <1>1 DEF LugaresDe
<1>5. plano'.fase \in {"listar_volta", "gravar_volta"} =>
          \A j \in DOMAIN plano'.veiculos : ciclos'[plano'.veiculos[j]].veiculo \notin editados' =>
              plano'.lugares[j] = Assento(plano.veiculos[j])'
  BY <1>1 DEF Assento, LugaresDe
<1> QED
  BY <1>3, <1>4, <1>5 DEF Lotacao

LEMMA LotacaoEscolhida ==
    ASSUME Tipo, Lotacao, Listar \/ AlocarVeiculos \/ EscalarMotoristas \/ ListarCiclos \/ ListarVolta
    PROVE  Lotacao'
<1>1. CASE Listar
  <2>1. UNCHANGED <<tabelas, demais>> /\ plano'.fase \in {"sem_demanda", "alocar"}
    BY <1>1, PlanoListado
  <2> QED
    BY <2>1, LotacaoDoPlano
<1>2. CASE AlocarVeiculos
  <2>1. /\ UNCHANGED <<tabelas, demais>>
        /\ \/ plano'.fase = "ocioso"
           \/ /\ plano'.fase = "escalar" /\ plano'.veiculos = Selecao
              /\ plano'.lugares = [j \in DOMAIN Selecao |-> LugaresDe(Selecao[j])]
    BY <1>2, PlanoAlocado
  <2>2. CASE plano'.fase = "ocioso"
    BY <2>1, <2>2, LotacaoDoPlano
  <2>3. CASE plano'.fase = "escalar"
    <3>1. \A j \in DOMAIN plano'.veiculos : plano'.lugares[j] = LugaresDe(plano'.veiculos[j])
      BY <2>1, <2>3
    <3> QED
      BY <2>1, <2>3, <3>1, LotacaoDoPlano
  <2> QED
    BY <2>1, <2>2, <2>3
<1>3. CASE EscalarMotoristas
  <2>1. /\ plano.fase = "escalar" /\ UNCHANGED <<tabelas, demais>>
        /\ \/ plano'.fase = "ocioso"
           \/ /\ plano'.fase = "gravar" /\ plano'.veiculos = plano.veiculos
              /\ plano'.lugares = plano.lugares
    BY <1>3, PlanoEscalado DEF MesmaCarga
  <2>2. CASE plano'.fase = "ocioso"
    BY <2>1, <2>2, LotacaoDoPlano
  <2>3. CASE plano'.fase = "gravar"
    <3>1. \A j \in DOMAIN plano'.veiculos : \/ plano'.lugares[j] = LugaresDe(plano'.veiculos[j])
                                            \/ plano'.veiculos[j] \in editados
      BY <2>1, <2>3 DEF Lotacao
    <3> QED
      BY <2>1, <2>3, <3>1, LotacaoDoPlano
  <2> QED
    BY <2>1, <2>2, <2>3
<1>4. CASE ListarCiclos
  <2> DEFINE C == PorId(CiclosParaVolta(plano.chave))
  <2>1. /\ UNCHANGED <<tabelas, demais>> /\ plano'.fase \in {"sem_demanda", "listar_volta"}
        /\ plano'.veiculos = C /\ plano'.lugares = [j \in DOMAIN C |-> Assento(C[j])]
    BY <1>4, PlanoDosCiclos
  <2> HIDE DEF C
  <2>2. \A j \in DOMAIN plano'.veiculos : plano'.lugares[j] = Assento(plano'.veiculos[j])
    BY <2>1
  <2> QED
    BY <2>1, <2>2, LotacaoDoPlano
<1>5. CASE ListarVolta
  <2>1. /\ plano.fase = "listar_volta" /\ UNCHANGED <<tabelas, demais>>
        /\ \/ plano'.fase = "ocioso"
           \/ /\ plano'.fase = "gravar_volta" /\ plano'.veiculos = plano.veiculos
              /\ plano'.lugares = plano.lugares
    BY <1>5, PlanoDaVolta
  <2>2. CASE plano'.fase = "ocioso"
    BY <2>1, <2>2, LotacaoDoPlano
  <2>3. CASE plano'.fase = "gravar_volta"
    <3>1. \A j \in DOMAIN plano'.veiculos : \/ plano'.lugares[j] = Assento(plano'.veiculos[j])
                                            \/ ciclos[plano'.veiculos[j]].veiculo \in editados
      BY <2>1, <2>3 DEF Lotacao
    <3> QED
      BY <2>1, <2>3, <3>1, LotacaoDoPlano
  <2> QED
    BY <2>1, <2>2, <2>3
<1> QED
  BY <1>1, <1>2, <1>3, <1>4, <1>5

\* A commit that changes nothing.
LEMMA LotacaoParada ==
    ASSUME Lotacao, UNCHANGED <<ciclos, viagem, presenca, cadastro>>, plano'.fase = "concluido"
    PROVE  Lotacao'
<1>1. \A i : Assento(i)' = Assento(i) /\ LinhasDe(i)' = LinhasDe(i)
  BY DEF LugaresDe, Assento, LinhasDe, cadastro
<1>2. \A v \in DOMAIN viagem' : ciclos'[v[1]].veiculo \notin editados' =>
          Cardinality(LinhasDe(v)') <= Assento(v[1])'
  BY <1>1 DEF Lotacao, cadastro
<1> QED
  BY <1>2 DEF Lotacao

LEMMA LotacaoGravadaIda ==
    ASSUME Tipo, Lotacao, GravarIda
    PROVE  Lotacao'
<1>1. /\ plano'.fase = "concluido" /\ UNCHANGED cadastro /\ plano.fase = "gravar"
  BY PlanoGravado DEF GravarIda, demais
<1>2. CASE UNCHANGED <<ciclos, viagem, presenca>>
  BY <1>1, <1>2, LotacaoParada
<1>3. CASE GravadaIda
  <2> DEFINE n == Len(plano.veiculos)
             m == Len(ciclos)
             ids == [j \in DOMAIN plano.veiculos |-> m + j]
  <2>1. /\ m \in Nat /\ n \in Nat
        /\ \A j \in 1 .. n : ciclos'[m + j] = NovoCiclo(j)
        /\ Insercao(ids, "ida", CargaIda)
    BY <1>3 DEF GravadaIda
  <2>2. /\ DOMAIN plano.veiculos = 1 .. n /\ plano.lugares \in [1 .. n -> Nat]
        /\ plano.veiculos \in Seq(Veiculo)
    BY <1>1 DEF Tipo, PlanoTipo, PlanoIda
  <2> HIDE DEF n, m
  <2>3. DOMAIN ids = 1 .. n /\ \A j \in 1 .. n : ids[j] = m + j
    BY <2>2
  <2> HIDE DEF ids
  <2>4. \A i, j \in DOMAIN ids : ids[i] = ids[j] => i = j
    BY <2>1, <2>3
  <2>5. Persiste
    BY <1>3, IdaPersiste
  <2>6. ASSUME NEW v \in DOMAIN viagem', ciclos'[v[1]].veiculo \notin editados'
        PROVE  Cardinality(LinhasDe(v)') <= Assento(v[1])'
    <3>1. CASE v \in DOMAIN viagem /\ LinhasDe(v)' = LinhasDe(v)
      BY <1>1, <2>5, <2>6, <3>1, LotacaoAntiga
    <3>2. CASE \E j \in DOMAIN ids : v = <<ids[j], "ida">> /\ LinhasDe(v)' = {v} \X CargaIda[j]
      <4>1. PICK j \in 1 .. n : v = <<m + j, "ida">> /\ LinhasDe(v)' = {v} \X CargaIda[j]
        BY <2>3, <3>2
      <4>2. ciclos'[v[1]].veiculo = plano.veiculos[j]
        <5>1. ciclos'[v[1]] = NovoCiclo(j)
          BY <2>1, <4>1
        <5> QED
          BY <5>1 DEF NovoCiclo
      <4>3. plano.lugares[j] = LugaresDe(plano.veiculos[j])
        BY <1>1, <2>2, <2>6, <4>2 DEF Lotacao, cadastro
      <4>4. Assento(v[1])' = LugaresDe(plano.veiculos[j])
        BY <1>1, <4>2 DEF Assento, LugaresDe, cadastro
      <4>5. Cardinality({v} \X CargaIda[j]) <= plano.lugares[j]
        BY <2>1, <2>2, CargaCabe DEF CargaIda
      <4> QED
        BY <4>1, <4>3, <4>4, <4>5
    <3> QED
      BY <2>1, <2>4, <3>1, <3>2, LinhasInseridas
  <2> QED
    BY <1>1, <2>6 DEF Lotacao
<1> QED
  BY <1>2, <1>3, GravarIdaGrava

LEMMA LotacaoGravadaVolta ==
    ASSUME Tipo, Lotacao, GravarVolta
    PROVE  Lotacao'
<1>1. /\ plano'.fase = "concluido" /\ UNCHANGED cadastro /\ plano.fase = "gravar_volta"
  BY PlanoGravado DEF GravarVolta, demais
<1>2. CASE UNCHANGED <<ciclos, viagem, presenca>>
  BY <1>1, <1>2, LotacaoParada
<1>3. CASE GravadaVolta
  <2> DEFINE n == Len(plano.veiculos)
             ids == plano.veiculos
             carga == Distribuir(plano.reservas, destinoDe, plano.lugares)
  <2>1. Insercao(ids, "volta", carga) /\ UNCHANGED ciclos
    BY <1>3 DEF GravadaVolta
  <2>2. ids \in Seq(DaChave(plano.chave)) /\ Distinta(ids) /\ plano.lugares \in [DOMAIN ids -> Nat]
    BY <1>1 DEF Tipo, PlanoTipo, PlanoVolta
  <2>3. n \in Nat /\ DOMAIN ids = 1 .. n
    BY <2>2
  <2>4. \A i, j \in DOMAIN ids : ids[i] = ids[j] => i = j
    BY <2>2, <2>3 DEF Distinta
  <2>5. Persiste
    BY <2>1 DEF Insercao, Persiste
  <2> HIDE DEF n
  <2>6. ASSUME NEW v \in DOMAIN viagem', ciclos'[v[1]].veiculo \notin editados'
        PROVE  Cardinality(LinhasDe(v)') <= Assento(v[1])'
    <3>1. CASE v \in DOMAIN viagem /\ LinhasDe(v)' = LinhasDe(v)
      BY <1>1, <2>5, <2>6, <3>1, LotacaoAntiga
    <3>2. CASE \E j \in DOMAIN ids : v = <<ids[j], "volta">> /\ LinhasDe(v)' = {v} \X carga[j]
      <4>1. PICK j \in 1 .. n : v = <<ids[j], "volta">> /\ LinhasDe(v)' = {v} \X carga[j]
        BY <2>3, <3>2
      <4>2. v[1] = plano.veiculos[j]
        BY <4>1
      <4>3. plano.lugares[j] = Assento(v[1])
        BY <1>1, <2>1, <2>3, <2>6, <4>2 DEF Lotacao, cadastro
      <4>4. Assento(v[1])' = Assento(v[1])
        BY <1>1, <2>1 DEF Assento, LugaresDe, cadastro
      <4>5. Cardinality({v} \X carga[j]) <= plano.lugares[j]
        BY <2>2, <2>3, CargaCabe
      <4> QED
        BY <4>1, <4>3, <4>4, <4>5
    <3> HIDE DEF ids, carga
    <3> QED
      BY <2>1, <2>4, <3>1, <3>2, LinhasInseridas
  <2> QED
    BY <1>1, <2>6 DEF Lotacao
<1> QED
  BY <1>2, <1>3, GravarVoltaGrava

LEMMA InicioLotacao == Init => Lotacao
<1> SUFFICES ASSUME Init PROVE Lotacao
  OBVIOUS
<1>1. plano.fase = "ocioso" /\ DOMAIN viagem = {}
  BY DEF Init, SemPlano
<1> QED
  BY <1>1 DEF Lotacao

LEMMA PassoLotacao == Tipo /\ Lotacao /\ [Next]_vars => Lotacao'
  BY PassoComum, LotacaoComum, LotacaoEscolhida, LotacaoGravadaIda, LotacaoGravadaVolta

LEMMA LotacaoSempre == Spec => []Lotacao
  BY InicioLotacao, PassoLotacao, TipoSempre, PTL DEF Spec

\* Nobody travels without a seat: the rows of a trip, there or back, are never more than
\* the seats of the vehicle of its ciclo, unless somebody edited the vehicle.  No check in
\* the code follows the distribution on the way out; that it never overfills a vehicle
\* (DistribuirReparte) and that the seats it is given are those of the vehicles is enough.
THEOREM NinguemDePe == Spec => []LotacaoRespeitada
  BY LotacaoBasta, LotacaoSempre, TipoSempre, PTL

-----------------------------------------------------------------------------
(* The return has seats *)

\* Active rows of the outbound trips of k; those of one client.
LinhasIda(k) == {l \in Linhas(Ativas) : l[1][2] = "ida" /\ ciclos[l[1][1]].chave = k}
IdasDoCliente(k, c) == {l \in Linhas(Ativas) : l[1][2] = "ida" /\ clienteDe[l[2]] = c
                                               /\ ciclos[l[1][1]].chave = k}

LEMMA CiclosFinitos ==
    ASSUME TypeOK
    PROVE  /\ IsFiniteSet(DOMAIN ciclos) /\ \A i \in DOMAIN ciclos : i \in Nat
           /\ \A i \in DOMAIN ciclos : Assento(i) \in Nat
<1>1. ciclos \in Seq([chave : Chave, veiculo : Veiculo, motorista : Motorista])
  BY DEF TypeOK
<1>2. Len(ciclos) \in Nat /\ DOMAIN ciclos = 1 .. Len(ciclos)
  BY <1>1
<1>3. IsFiniteSet(DOMAIN ciclos) /\ \A i \in DOMAIN ciclos : i \in Nat
  BY <1>2, FS_Interval
<1>4. \A i \in DOMAIN ciclos : Assento(i) \in Nat
  BY VeiculoDoCiclo, FrotaTipo DEF Assento
<1> QED
  BY <1>3, <1>4

LEMMA LinhasIdaFinitas ==
    ASSUME Tipo, NEW k
    PROVE  /\ IsFiniteSet(LinhasIda(k)) /\ Cardinality(LinhasIda(k)) \in Nat
           /\ \A l \in LinhasIda(k) : /\ l \in DOMAIN presenca /\ l[1] \in DOMAIN viagem
                                      /\ l[1] = <<l[1][1], "ida">> /\ l[1][1] \in DaChave(k)
<1> DEFINE D == DOMAIN ciclos
<1>1. IsFiniteSet(D)
  BY CiclosFinitos DEF Tipo
<1>2. IsFiniteSet(Sentido)
  <2>1. Sentido = {"ida"} \cup {"volta"} /\ IsFiniteSet({"ida"})
    BY FS_Singleton DEF Sentido
  <2> QED
    BY <2>1, FS_AddElement
<1>3. IsFiniteSet((D \X Sentido) \X Reserva)
  BY <1>1, <1>2, FS_Product, DadosAssumption
<1>4. ASSUME NEW l \in LinhasIda(k)
      PROVE  /\ l \in DOMAIN presenca /\ l[1] \in DOMAIN viagem /\ l \in (D \X Sentido) \X Reserva
             /\ l[1] = <<l[1][1], "ida">> /\ l[1][1] \in DaChave(k)
  <2>1. l \in DOMAIN presenca /\ l[1][2] = "ida" /\ ciclos[l[1][1]].chave = k
    BY <1>4 DEF LinhasIda, Linhas
  <2>2. l \in (DOMAIN viagem) \X Reserva /\ l[1] \in DOMAIN viagem
    BY <2>1 DEF Tipo, TypeOK, LinhasTipo
  <2>3. l[1] \in D \X Sentido
    BY <2>2 DEF Tipo, TypeOK
  <2> QED
    BY <2>1, <2>2, <2>3 DEF DaChave
<1>5. IsFiniteSet(LinhasIda(k))
  BY <1>3, <1>4, FS_Subset
<1> QED
  BY <1>4, <1>5, FS_CardinalityType

\* No more passengers than seats.
LEMMA IdasCabem ==
    ASSUME Tipo, Lotacao, NEW k, NEW cap, cap = [i \in DaChave(k) |-> Assento(i)],
           \A i \in DaChave(k) : ciclos[i].veiculo \notin editados
    PROVE  /\ IsFiniteSet(Cadeiras(cap)) /\ Cardinality(Cadeiras(cap)) \in Nat
           /\ Cardinality(LinhasIda(k)) <= Cardinality(Cadeiras(cap))
<1> DEFINE T == LinhasIda(k)
           S == Cadeiras(cap)
           f == [l \in T |-> l[1][1]]
           g == [x \in S |-> x[1]]
<1>1. Capacidades(cap)
  <2>1. DaChave(k) \subseteq DOMAIN ciclos
    BY DEF DaChave
  <2>2. IsFiniteSet(DaChave(k)) /\ \A i \in DaChave(k) : i \in Nat /\ Assento(i) \in Nat
    BY <2>1, CiclosFinitos, FS_Subset DEF Tipo
  <2> QED
    BY <2>2 DEF Capacidades
<1>2. IsFiniteSet(S) /\ Cardinality(S) \in Nat
  BY <1>1, CadeirasFinitas
<1>3. /\ IsFiniteSet(T)
      /\ \A l \in T : /\ l \in DOMAIN presenca /\ l[1] \in DOMAIN viagem
                      /\ l[1] = <<l[1][1], "ida">> /\ l[1][1] \in DaChave(k)
  BY LinhasIdaFinitas
<1>4. ASSUME NEW l \in T
      PROVE  Cardinality(Parte(T, f, f[l])) <= Cardinality(Parte(S, g, f[l]))
  <2>1. PICK i : i = l[1][1] /\ i \in DaChave(k) /\ <<i, "ida">> \in DOMAIN viagem
    BY <1>3
  <2>2. f[l] = i
    BY <2>1
  <2>3. cap[i] = Assento(i) /\ cap[i] \in Nat /\ i \in DOMAIN cap
    BY <1>1, <2>1 DEF Capacidades
  <2>4. Parte(T, f, i) \subseteq LinhasDe(<<i, "ida">>)
    BY <1>3 DEF Parte, LinhasDe
  <2>5. Cardinality(LinhasDe(<<i, "ida">>)) <= Assento(i)
    BY <2>1 DEF Lotacao
  <2>6. IsFiniteSet(LinhasDe(<<i, "ida">>))
    BY LinhasFinitas
  <2>7. {i} \X (1 .. cap[i]) \subseteq Parte(S, g, i)
    <3>1. \A x \in {i} \X (1 .. cap[i]) : x \in S /\ x[1] = i
      BY <2>3 DEF Cadeiras
    <3> QED
      BY <3>1 DEF Parte
  <2>8. IsFiniteSet({i} \X (1 .. cap[i])) /\ Cardinality({i} \X (1 .. cap[i])) = cap[i]
    <3>1. IsFiniteSet({i}) /\ Cardinality({i}) = 1
      BY FS_Singleton
    <3>2. IsFiniteSet(1 .. cap[i]) /\ Cardinality(1 .. cap[i]) = cap[i]
      BY <2>3, FS_Interval
    <3>3. /\ IsFiniteSet({i} \X (1 .. cap[i]))
          /\ Cardinality({i} \X (1 .. cap[i])) = Cardinality({i}) * Cardinality(1 .. cap[i])
      BY <3>1, <3>2, FS_Product
    <3> QED
      BY <2>3, <3>1, <3>2, <3>3
  <2> HIDE DEF f, g, S
  <2>9. IsFiniteSet(Parte(S, g, i))
    BY <1>2, FS_Subset DEF Parte
  <2>10. Cardinality(Parte(T, f, i)) <= Cardinality(LinhasDe(<<i, "ida">>))
    BY <2>4, <2>6, FS_Subset
  <2>11. cap[i] <= Cardinality(Parte(S, g, i))
    BY <2>7, <2>8, <2>9, FS_Subset
  <2>12. /\ Cardinality(Parte(T, f, i)) \in Nat /\ Cardinality(LinhasDe(<<i, "ida">>)) \in Nat
         /\ Cardinality(Parte(S, g, i)) \in Nat
    BY <2>4, <2>6, <2>9, FS_Subset, FS_CardinalityType
  <2>13. Cardinality(Parte(T, f, i)) <= Cardinality(Parte(S, g, i))
    BY <2>3, <2>5, <2>10, <2>11, <2>12
  <2> QED
    BY <2>2, <2>13
<1> HIDE DEF T, S, f, g
<1>5. Cardinality(T) <= Cardinality(S)
  BY <1>2, <1>3, <1>4, PartePorParte
<1> QED
  BY <1>2, <1>5 DEF S, T

LEMMA ElegiveisCabem ==
    ASSUME Tipo, NEW k,
           \A r \in Elegiveis(k) :
               Cardinality({e \in Elegiveis(k) : clienteDe[e] = clienteDe[r]})
                   <= Cardinality(IdasDoCliente(k, clienteDe[r]))
    PROVE  /\ Cardinality(Elegiveis(k)) \in Nat
           /\ Cardinality(Elegiveis(k)) <= Cardinality(LinhasIda(k))
<1> DEFINE E == Elegiveis(k)
           T == LinhasIda(k)
           g == [l \in T |-> clienteDe[l[2]]]
<1>1. IsFiniteSet(E)
  <2>1. E \subseteq Reserva
    BY DEF Elegiveis, Confirmadas, Tipo, TypeOK
  <2> QED
    BY <2>1, FS_Subset, DadosAssumption
<1>2. IsFiniteSet(T)
  BY LinhasIdaFinitas
<1>3. ASSUME NEW r \in E
      PROVE  Cardinality(Parte(E, clienteDe, clienteDe[r])) <= Cardinality(Parte(T, g, clienteDe[r]))
  <2>1. Parte(E, clienteDe, clienteDe[r]) = {e \in Elegiveis(k) : clienteDe[e] = clienteDe[r]}
    BY DEF Parte
  <2>2. Parte(T, g, clienteDe[r]) = IdasDoCliente(k, clienteDe[r])
    BY DEF Parte, LinhasIda, IdasDoCliente
  <2> QED
    BY <2>1, <2>2
<1> HIDE DEF E, T, g
<1>4. Cardinality(E) <= Cardinality(T)
  BY <1>1, <1>2, <1>3, PartePorParte
<1> QED
  BY <1>1, <1>4, FS_CardinalityType DEF E, T

LEMMA CabeTodaVolta == Tipo /\ Lotacao => VoltaCabe
<1> SUFFICES ASSUME Tipo, Lotacao, NEW k \in Chave,
                    \A i \in DaChave(k) : /\ viagem[<<i, "ida">>] # "cancelada"
                                          /\ ciclos[i].veiculo \notin editados,
                    \A r \in Elegiveis(k) :
                        Cardinality({e \in Elegiveis(k) : clienteDe[e] = clienteDe[r]})
                            <= Cardinality(IdasDoCliente(k, clienteDe[r]))
             PROVE  Cardinality(Elegiveis(k))
                        <= Cardinality(Cadeiras([i \in CiclosParaVolta(k) |-> Assento(i)]))
  BY DEF VoltaCabe, IdasDoCliente
<1> DEFINE cap == [i \in DaChave(k) |-> Assento(i)]
<1>1. CiclosParaVolta(k) = DaChave(k)
  BY DEF CiclosParaVolta
<1>2. [i \in CiclosParaVolta(k) |-> Assento(i)] = cap
  BY <1>1
<1> HIDE DEF cap
<1>3. /\ Cardinality(Cadeiras(cap)) \in Nat
      /\ Cardinality(LinhasIda(k)) <= Cardinality(Cadeiras(cap))
  BY IdasCabem DEF cap
<1>4. /\ Cardinality(Elegiveis(k)) \in Nat
      /\ Cardinality(Elegiveis(k)) <= Cardinality(LinhasIda(k))
  BY ElegiveisCabem
<1>5. Cardinality(LinhasIda(k)) \in Nat
  BY LinhasIdaFinitas
<1>6. Cardinality(Elegiveis(k)) <= Cardinality(Cadeiras(cap))
  BY <1>3, <1>4, <1>5
<1> QED
  BY <1>2, <1>6

\* The return does not fail for want of seats, under the conditions VoltaCabe names: who
\* is eligible has an active outbound row for every reserva back, and those rows have
\* seats (NinguemDePe) in the very ciclos the return is planned with.
THEOREM VoltaTemLugares == Spec => []VoltaCabe
  BY CabeTodaVolta, LotacaoSempre, TipoSempre, PTL

\* What alocacao.go and alocacao_service.go choose is right for every number of
\* passengers and every fleet: AlocarEscolheBem, of which a run evaluates one instance.
THEOREM AlocacaoSempreCorreta == Spec => []AlocacaoCorreta
<1>1. AlocacaoCorreta
  BY AlocarEscolheBem DEF AlocacaoCorreta
<1> QED
  BY <1>1, PTL

\* What planejamento_service.go distributes is right: DistribuirDireito.
THEOREM ReparticaoSempreCorreta == Spec => []ReparticaoCorreta
<1>1. ReparticaoCorreta
  BY DistribuirDireito DEF ReparticaoCorreta
<1> QED
  BY <1>1, PTL
=============================================================================
