------------------------ MODULE RotaDinamica_proofs ------------------------
(* Theorems about RotaDinamica, for every value of its constants: any number *)
(* of trips, reservas and destinos, any windows, failures and edits.         *)
EXTENDS RotaDinamica, Naturais_proofs, TLAPS

LEMMA ConstantesDaRota ==
    /\ Antecedencia \in Nat /\ JanelaBloqueio \in Nat /\ JanelaCalculo \in Nat /\ Fim \in Nat
    /\ \A h \in Horarios : h \in Nat /\ h > 0
    /\ horarioInicial \in Horarios /\ Viagem # {}
    /\ viagemDe \in [Reserva -> Viagem] /\ destinoDe \in [Reserva -> Destino]
  BY JanelasAssumption

\* What a calculation is when nothing runs.
LEMMA OciosoTipado ==
    /\ Ocioso \in [fase : {"ocioso", "ler", "ordenar", "gravar"}, viagem : Viagem,
                   destinos : SUBSET Destino]
    /\ Ocioso.fase = "ocioso"
  BY ConstantesDaRota DEF Ocioso

LEMMA DestinosDaViagem ==
    ASSUME NEW v, NEW R
    PROVE  DestinosDe(v, R) \subseteq Destino
  BY ConstantesDaRota DEF DestinosDe, DaViagem

\* Fewer reservas go to fewer destinos.
LEMMA DestinosDeMenos ==
    ASSUME NEW v, NEW R, NEW S, S \subseteq R
    PROVE  DestinosDe(v, S) \subseteq DestinosDe(v, R)
  BY DEF DestinosDe

\* A counted event keeps the counters natural.
LEMMA Contado ==
    ASSUME TypeOK, NEW q, NEW max, Contar(q, max)
    PROVE  \A p \in DOMAIN quantas' : quantas'[p] \in Nat
  BY DEF TypeOK, Contar

LEMMA RotaIncluida ==
    ASSUME TypeOK, NEW v, NEW r \in Rotas, Incluir(v, r)
    PROVE  rota' \in [Viagem -> Rotas]
  BY DEF TypeOK, Incluir

-----------------------------------------------------------------------------
(* Types *)

LEMMA TipoInicial == Init => TypeOK
<1> SUFFICES ASSUME Init PROVE TypeOK
  OBVIOUS
<1>1. rota \in [Viagem -> Rotas]
  BY DEF Init, Rotas, SemRota
<1>2. calculo \in [Calculo -> [fase : {"ocioso", "ler", "ordenar", "gravar"}, viagem : Viagem,
                               destinos : SUBSET Destino]]
  BY OciosoTipado DEF Init
<1>3. \A q \in DOMAIN quantas : quantas[q] \in Nat
  BY DEF Init
<1>4. agora \in 0 .. Fim
  BY ConstantesDaRota DEF Init
<1>5. /\ horario \in Horarios \cup {SemHorario} /\ planejada \in Horarios \cup {0}
      /\ situacao \in [Viagem -> {"programada", "em_andamento", "cancelada"}]
  BY ConstantesDaRota DEF Init
<1> QED
  BY <1>1, <1>2, <1>3, <1>4, <1>5 DEF Init, TypeOK

\* Time, the departure and the planner.
LEMMA TipoDoRelogio ==
    ASSUME TypeOK, Passar \/ Candidatar \/ Planejar \/ ExcluirHorario
                   \/ \E h \in Horarios : EditarHorario(h) \/ CriarHorario(h)
    PROVE  TypeOK'
<1>1. CASE Passar
  <2>1. agora' \in 0 .. Fim
    BY <1>1, ConstantesDaRota DEF TypeOK, Passar
  <2> QED
    BY <1>1, <2>1 DEF TypeOK, Passar, tabelas
<1>2. CASE Candidatar
  BY <1>2 DEF TypeOK, Candidatar, tabelas, doWorker
<1>3. CASE Planejar
  BY <1>3 DEF TypeOK, Planejar, doWorker
<1>4. CASE ExcluirHorario
  <2>1. \A p \in DOMAIN quantas' : quantas'[p] \in Nat
    BY <1>4, Contado DEF ExcluirHorario
  <2> QED
    BY <1>4, <2>1 DEF TypeOK, ExcluirHorario, GravarHorario, tabelas, doWorker
<1>5. ASSUME NEW h \in Horarios, EditarHorario(h) PROVE TypeOK'
  <2>1. \A p \in DOMAIN quantas' : quantas'[p] \in Nat
    BY <1>5, Contado DEF EditarHorario
  <2> QED
    BY <1>5, <2>1 DEF TypeOK, EditarHorario, GravarHorario, tabelas, doWorker
<1>6. ASSUME NEW h \in Horarios, CriarHorario(h) PROVE TypeOK'
  BY <1>6 DEF TypeOK, CriarHorario, GravarHorario, tabelas, doWorker
<1> QED
  BY <1>1, <1>2, <1>3, <1>4, <1>5, <1>6

\* A calculation ends or takes another form of its type; nothing else that is
\* typed by it changes.
LEMMA TipoDoCalculo ==
    ASSUME TypeOK, NEW c \in Calculo,
           Ler(c) \/ Ordenar(c) \/ Falhar(c) \/ Gravar(c)
    PROVE  TypeOK'
<1> DEFINE Fases == {"ocioso", "ler", "ordenar", "gravar"}
           Tipo == [fase : Fases, viagem : Viagem, destinos : SUBSET Destino]
<1>0. calculo \in [Calculo -> Tipo] /\ calculo[c] \in Tipo
  BY DEF TypeOK
<1>e. Encerrar(c) => calculo' \in [Calculo -> Tipo]
  BY <1>0, OciosoTipado DEF Encerrar
<1>1. CASE Ler(c)
  <2> DEFINE D == DestinosCalculo(calculo[c].viagem)
  <2>1. D \in SUBSET Destino
    BY DestinosDaViagem DEF DestinosCalculo
  <2>2. calculo' \in [Calculo -> Tipo]
    <3>1. CASE Calculavel(D)
      <4>1. calculo' = [calculo EXCEPT ![c].fase = "ordenar", ![c].destinos = D]
        BY <1>1, <3>1 DEF Ler
      <4> QED
        BY <4>1, <1>0, <2>1
    <3>2. CASE ~Calculavel(D)
      BY <1>1, <1>e, <3>2 DEF Ler
    <3> QED
      BY <3>1, <3>2
  <2> QED
    BY <1>1, <2>2 DEF TypeOK, Ler, relogio, tabelas
<1>2. CASE Ordenar(c)
  <2>1. calculo' \in [Calculo -> Tipo]
    BY <1>2, <1>0 DEF Ordenar
  <2> QED
    BY <1>2, <2>1 DEF TypeOK, Ordenar, relogio, tabelas
<1>3. CASE Falhar(c)
  <2>1. \A p \in DOMAIN quantas' : quantas'[p] \in Nat
    BY <1>3, Contado DEF Falhar
  <2> QED
    BY <1>3, <2>1, <1>e DEF TypeOK, Falhar, relogio, tabelas
<1>4. CASE Gravar(c)
  <2> DEFINE v == calculo[c].viagem
             D == calculo[c].destinos
  <2>0. v \in Viagem /\ D \in SUBSET Destino
    BY <1>0
  <2>1. Nova("calculada", D) \in Rotas
    BY <2>0 DEF Nova, Rotas
  <2>2. rota' \in [Viagem -> Rotas]
    BY <1>4, <2>1, RotaIncluida DEF Gravar
  <2>3. antiga' \subseteq Viagem
    BY <1>4, <2>0 DEF Gravar, TypeOK
  <2> QED
    BY <1>4, <2>2, <2>3, <1>e DEF TypeOK, Gravar, relogio, tabelas
<1> QED
  BY <1>1, <1>2, <1>3, <1>4

\* The worker goes round, and what is asked of a trip by hand.
LEMMA TipoDaViagem ==
    ASSUME TypeOK, \/ Rodar
                   \/ \E v \in Viagem : \/ Proxima(v) \/ CalcularManual(v) \/ Excluir(v)
                                        \/ \E ds \in BoundedSeq(Destino, 2) : Criar(v, ds)
                                        \/ \E s \in {"em_andamento", "cancelada"} : MudarSituacao(v, s)
    PROVE  TypeOK'
<1> DEFINE Tipo == [fase : {"ocioso", "ler", "ordenar", "gravar"}, viagem : Viagem,
                    destinos : SUBSET Destino]
<1>0. calculo \in [Calculo -> Tipo]
  BY DEF TypeOK
<1>1. CASE Rodar
  <2>1. fila' \subseteq Viagem
    BY <1>1 DEF Rodar, Pendentes
  <2>2. \A p \in DOMAIN quantas' : quantas'[p] \in Nat
    BY <1>1, Contado DEF Rodar, TypeOK
  <2> QED
    BY <1>1, <2>1, <2>2 DEF TypeOK, Rodar, relogio, tabelas
<1>2. ASSUME NEW v \in Viagem, Proxima(v) PROVE TypeOK'
  <2>1. [Ocioso EXCEPT !.fase = "ler", !.viagem = v] \in Tipo
    BY OciosoTipado
  <2>2. calculo' \in [Calculo -> Tipo]
    BY <1>2, <2>1, <1>0 DEF Proxima
  <2> QED
    BY <1>2, <2>2 DEF TypeOK, Proxima, relogio, tabelas
<1>3. ASSUME NEW v \in Viagem, CalcularManual(v) PROVE TypeOK'
  <2>1. [Ocioso EXCEPT !.fase = "ler", !.viagem = v] \in Tipo
    BY OciosoTipado
  <2>2. calculo' \in [Calculo -> Tipo]
    BY <1>3, <2>1, <1>0 DEF CalcularManual
  <2>3. \A p \in DOMAIN quantas' : quantas'[p] \in Nat
    BY <1>3, Contado DEF CalcularManual
  <2> QED
    BY <1>3, <2>2, <2>3 DEF TypeOK, CalcularManual, relogio, tabelas
<1>4. ASSUME NEW v \in Viagem, Excluir(v) PROVE TypeOK'
  <2>1. SemRota \in Rotas
    BY DEF SemRota, Rotas
  <2>2. rota' \in [Viagem -> Rotas]
    BY <1>4, <2>1 DEF Excluir, TypeOK
  <2>3. \A p \in DOMAIN quantas' : quantas'[p] \in Nat
    BY <1>4, Contado DEF Excluir
  <2> QED
    BY <1>4, <2>2, <2>3 DEF TypeOK, Excluir, relogio, tabelas, doWorker
<1>5. ASSUME NEW v \in Viagem, NEW ds \in BoundedSeq(Destino, 2), Criar(v, ds) PROVE TypeOK'
  <2>1. Range(ds) \subseteq Destino
    BY DEF BoundedSeq, SeqOf, Range
  <2>2. Nova("manual", Range(ds)) \in Rotas
    BY <2>1 DEF Nova, Rotas
  <2>3. rota' \in [Viagem -> Rotas]
    BY <1>5, <2>2, RotaIncluida DEF Criar
  <2>4. \A p \in DOMAIN quantas' : quantas'[p] \in Nat
    BY <1>5, Contado DEF Criar
  <2> QED
    BY <1>5, <2>3, <2>4 DEF TypeOK, Criar, relogio, tabelas, doWorker
<1>6. ASSUME NEW v \in Viagem, NEW s \in {"em_andamento", "cancelada"}, MudarSituacao(v, s) PROVE TypeOK'
  <2>1. \A p \in DOMAIN quantas' : quantas'[p] \in Nat
    BY <1>6, Contado DEF MudarSituacao
  <2> QED
    BY <1>6, <2>1 DEF TypeOK, MudarSituacao, relogio, doWorker
<1> QED
  BY <1>1, <1>2, <1>3, <1>4, <1>5, <1>6

\* Passengers change.
LEMMA TipoDaReserva ==
    ASSUME TypeOK, NEW r \in Reserva,
           CancelarReserva(r) \/ EditarReserva(r) \/ Invalidar(r) \/ CancelarPresenca(r)
    PROVE  TypeOK'
<1>0. viagemDe[r] \in Viagem
  BY ConstantesDaRota
<1>1. \A p \in DOMAIN quantas' : quantas'[p] \in Nat
  BY Contado DEF TypeOK, CancelarReserva, EditarReserva, Invalidar, CancelarPresenca
<1>2. CASE CancelarReserva(r)
  BY <1>1, <1>2 DEF TypeOK, CancelarReserva, relogio, doWorker
<1>3. CASE EditarReserva(r)
  <2>1. confirmada' \subseteq Reserva /\ remarcada' \subseteq Reserva
    BY <1>3 DEF TypeOK, EditarReserva
  <2> QED
    BY <1>1, <1>3, <2>1 DEF TypeOK, EditarReserva, relogio, doWorker
<1>4. CASE Invalidar(r)
  <2>1. SemRota \in Rotas
    BY DEF SemRota, Rotas
  <2>2. rota' \in [Viagem -> Rotas]
    BY <1>4, <2>1 DEF TypeOK, Invalidar
  <2>3. antiga' \subseteq Viagem
    BY <1>4, <1>0 DEF TypeOK, Invalidar
  <2> QED
    BY <1>1, <1>4, <2>2, <2>3 DEF TypeOK, Invalidar, relogio, tabelas, doWorker
<1>5. CASE CancelarPresenca(r)
  BY <1>0, <1>1, <1>5 DEF TypeOK, CancelarPresenca, relogio, doWorker
<1> QED
  BY <1>2, <1>3, <1>4, <1>5

LEMMA PassoTipado == TypeOK /\ [Next]_vars => TypeOK'
<1>1. TypeOK /\ Next => TypeOK'
  BY TipoDoRelogio, TipoDoCalculo, TipoDaViagem, TipoDaReserva DEF Next
<1>2. TypeOK /\ UNCHANGED vars => TypeOK'
  BY DEF TypeOK, vars, relogio, tabelas, doWorker
<1> QED
  BY <1>1, <1>2

\* Every reachable state is well typed: the tables of the trips, the routes and
\* what the calculations hold.
THEOREM TipoCorreto == Spec => []TypeOK
  BY TipoInicial, PassoTipado, PTL DEF Spec

-----------------------------------------------------------------------------
(* Before the planner *)

\* Before the planner has created the trips nothing refers to them.
AntesDoPlano ==
    /\ Existem => candidata
    /\ ~Existem => /\ passageira = {} /\ fila = {}
                   /\ \A v \in Viagem : rota[v] = SemRota
                   /\ \A c \in Calculo : calculo[c].fase = "ocioso"

\* A step that creates no trips, routes, passengers or calculations keeps it.
LEMMA NadaNovo ==
    ASSUME AntesDoPlano, planejada' = planejada, candidata' = candidata \/ candidata',
           ~Existem => /\ passageira' = passageira /\ fila' = fila
                       /\ rota' = rota /\ calculo' = calculo
    PROVE  AntesDoPlano'
  BY DEF AntesDoPlano, Existem

LEMMA PassoAntesDoPlano == TypeOK /\ AntesDoPlano /\ [Next]_vars => AntesDoPlano'
<1> SUFFICES ASSUME TypeOK, AntesDoPlano, [Next]_vars PROVE AntesDoPlano'
  OBVIOUS
<1>1. CASE Passar
  BY <1>1, NadaNovo DEF Passar, tabelas
<1>2. ASSUME NEW h \in Horarios, EditarHorario(h) \/ CriarHorario(h) PROVE AntesDoPlano'
  BY <1>2, NadaNovo DEF EditarHorario, CriarHorario, GravarHorario, tabelas, doWorker
<1>3. CASE ExcluirHorario
  BY <1>3, NadaNovo DEF ExcluirHorario, GravarHorario, tabelas, doWorker
<1>4. CASE Candidatar
  BY <1>4, NadaNovo DEF Candidatar, tabelas, doWorker
<1>5. CASE Planejar
  <2>1. planejada' > 0
    BY <1>5, ConstantesDaRota DEF Planejar, TypeOK
  <2> QED
    BY <1>5, <2>1 DEF Planejar, AntesDoPlano, Existem
<1>6. CASE Rodar
  <2>1. ~Existem => fila' = {}
    BY <1>6 DEF Rodar, Pendentes
  <2> QED
    BY <1>6, <2>1, NadaNovo DEF Rodar, relogio, tabelas, AntesDoPlano
<1>7. ASSUME NEW v \in Viagem, Proxima(v) PROVE AntesDoPlano'
  BY <1>7, NadaNovo DEF Proxima, relogio, tabelas, AntesDoPlano
<1>8. ASSUME NEW c \in Calculo, Ler(c) \/ Ordenar(c) \/ Falhar(c) \/ Gravar(c)
      PROVE  AntesDoPlano'
  <2>1. calculo[c].fase # "ocioso"
    BY <1>8 DEF Ler, Ordenar, Falhar, Gravar
  <2>2. Existem
    BY <2>1 DEF AntesDoPlano
  <2> QED
    BY <1>8, <2>2, NadaNovo DEF Ler, Ordenar, Falhar, Gravar, relogio
<1>9. ASSUME NEW v \in Viagem, CalcularManual(v) \/ Excluir(v) PROVE AntesDoPlano'
  <2>1. Existem
    BY <1>9 DEF CalcularManual, Excluir, AntesDoPlano
  <2> QED
    BY <1>9, <2>1, NadaNovo DEF CalcularManual, Excluir, relogio
<1>10. ASSUME NEW v \in Viagem, NEW ds, Criar(v, ds) PROVE AntesDoPlano'
  BY <1>10, NadaNovo DEF Criar, relogio
<1>11. ASSUME NEW v \in Viagem, NEW s, MudarSituacao(v, s) PROVE AntesDoPlano'
  BY <1>11, NadaNovo DEF MudarSituacao, relogio
<1>12. ASSUME NEW r \in Reserva, CancelarReserva(r) \/ EditarReserva(r) PROVE AntesDoPlano'
  BY <1>12, NadaNovo DEF CancelarReserva, EditarReserva, relogio, doWorker
<1>13. ASSUME NEW r \in Reserva, Invalidar(r) PROVE AntesDoPlano'
  <2>1. ~Existem => rota' = rota
    BY <1>13 DEF Invalidar, Invalidaveis, TypeOK
  <2> QED
    BY <1>13, <2>1, NadaNovo DEF Invalidar, relogio, tabelas, doWorker
<1>14. ASSUME NEW r \in Reserva, CancelarPresenca(r) PROVE AntesDoPlano'
  <2>1. Existem
    BY <1>14 DEF CancelarPresenca, AntesDoPlano
  <2> QED
    BY <1>14, <2>1, NadaNovo DEF CancelarPresenca, relogio
<1>15. CASE UNCHANGED vars
  BY <1>15, NadaNovo DEF vars, relogio, tabelas, doWorker
<1> QED
  BY <1>1, <1>2, <1>3, <1>4, <1>5, <1>6, <1>7, <1>8, <1>9, <1>10, <1>11, <1>12, <1>13, <1>14,
     <1>15 DEF Next

-----------------------------------------------------------------------------
(* Routes against passengers *)

\* The passengers of this date.
Atuais == (confirmada \cap passageira) \ remarcada

\* What a calculation has read covers the passengers there still are.
CalculoCobre ==
    \A c \in Calculo : calculo[c].fase \in {"ordenar", "gravar"} =>
        DestinosDe(calculo[c].viagem, Atuais) \subseteq calculo[c].destinos

CobreInv == TypeOK /\ AntesDoPlano /\ CalculoCobre /\ RotaCobrePassageiros

\* Once the trips exist, passengers only leave.
LEMMA PassageirosSaem ==
    ASSUME TypeOK, AntesDoPlano, Existem, [Next]_vars
    PROVE  Atuais' \subseteq Atuais
<1>1. ASSUME NEW r \in Reserva, CancelarReserva(r) \/ CancelarPresenca(r) PROVE Atuais' \subseteq Atuais
  BY <1>1 DEF CancelarReserva, CancelarPresenca, Atuais
<1>2. ASSUME NEW r \in Reserva, EditarReserva(r) PROVE Atuais' \subseteq Atuais
  <2>1. candidata
    BY DEF AntesDoPlano
  <2> QED
    BY <1>2, <2>1 DEF EditarReserva, Atuais
<1>3. ASSUME UNCHANGED <<confirmada, passageira, remarcada>> PROVE Atuais' \subseteq Atuais
  BY <1>3 DEF Atuais
<1>4. ~Planejar
  BY DEF Planejar
<1> QED
  BY <1>1, <1>2, <1>3, <1>4
  DEF Next, vars, tabelas, Passar, EditarHorario, CriarHorario, ExcluirHorario, GravarHorario,
      Candidatar, Rodar, Proxima, Ler, Ordenar, Falhar, Gravar, CalcularManual, Excluir, Criar,
      MudarSituacao, Invalidar

\* A route that is covered stays so while passengers only leave.
LEMMA RotaSegueCoberta ==
    ASSUME RotaCobrePassageiros, Atuais' \subseteq Atuais, NEW v \in Viagem,
           rota'[v] = rota[v] \/ rota'[v].origem # "calculada"
    PROVE  rota'[v].origem = "calculada" => DestinosDe(v, Atuais') \subseteq rota'[v].destinos
<1>1. DestinosDe(v, Atuais') \subseteq DestinosDe(v, Atuais)
  BY DestinosDeMenos
<1>2. rota[v].origem = "calculada" => DestinosDe(v, Atuais) \subseteq rota[v].destinos
  BY DEF RotaCobrePassageiros, Atuais
<1> QED
  BY <1>1, <1>2

\* So does what a calculation has read.
LEMMA CalculoSegueCoberto ==
    ASSUME CalculoCobre, Atuais' \subseteq Atuais, NEW c \in Calculo,
           \/ calculo'[c].fase \notin {"ordenar", "gravar"}
           \/ /\ calculo[c].fase \in {"ordenar", "gravar"}
              /\ calculo'[c].viagem = calculo[c].viagem
              /\ calculo'[c].destinos = calculo[c].destinos
    PROVE  calculo'[c].fase \in {"ordenar", "gravar"} =>
               DestinosDe(calculo'[c].viagem, Atuais') \subseteq calculo'[c].destinos
<1>1. DestinosDe(calculo[c].viagem, Atuais') \subseteq DestinosDe(calculo[c].viagem, Atuais)
  BY DestinosDeMenos
<1> QED
  BY <1>1 DEF CalculoCobre

\* A step keeps the calculations, or moves one on: what is read is read now.
LEMMA PassoCalculoCobre ==
    ASSUME TypeOK, AntesDoPlano, CalculoCobre, Existem, [Next]_vars
    PROVE  CalculoCobre'
<1> DEFINE Seguem(c) == \/ calculo'[c].fase \notin {"ordenar", "gravar"}
                        \/ /\ calculo[c].fase \in {"ordenar", "gravar"}
                           /\ calculo'[c].viagem = calculo[c].viagem
                           /\ calculo'[c].destinos = calculo[c].destinos
           Tipo == [fase : {"ocioso", "ler", "ordenar", "gravar"}, viagem : Viagem,
                    destinos : SUBSET Destino]
           Coberto(c) == calculo'[c].fase \in {"ordenar", "gravar"} =>
                             DestinosDe(calculo'[c].viagem, Atuais') \subseteq calculo'[c].destinos
<1>0. calculo \in [Calculo -> Tipo] /\ Atuais' \subseteq Atuais
  BY PassageirosSaem DEF TypeOK
<1>s. ASSUME NEW c \in Calculo, Seguem(c) PROVE Coberto(c)
  BY <1>0, <1>s, CalculoSegueCoberto
<1>m. ASSUME calculo' = calculo, NEW c \in Calculo PROVE Seguem(c)
  BY <1>m
<1>d. "worker" \in Calculo /\ "admin" \in Calculo
  BY DEF Calculo
<1>o. ASSUME NEW v \in Viagem,
             LET novo == [Ocioso EXCEPT !.fase = "ler", !.viagem = v]
             IN  calculo' = [calculo EXCEPT !["worker"] = novo] \/ calculo' = [calculo EXCEPT !["admin"] = novo],
             NEW c \in Calculo
      PROVE  Seguem(c)
  <2>1. [Ocioso EXCEPT !.fase = "ler", !.viagem = v].fase = "ler"
    BY DEF Ocioso
  <2> QED
    BY <1>0, <1>d, <1>o, <2>1
<1>1. ASSUME NEW d \in Calculo, Ler(d), NEW c \in Calculo PROVE Coberto(c)
  <2> DEFINE D == DestinosCalculo(calculo[d].viagem)
  <2>1. CASE ~Calculavel(D)
    <3>1. calculo' = [calculo EXCEPT ![d] = Ocioso]
      BY <1>1, <2>1 DEF Ler, Encerrar
    <3>2. Seguem(c)
      BY <1>0, <3>1, OciosoTipado
    <3> QED
      BY <3>2, <1>s
  <2>2. CASE Calculavel(D) /\ c # d
    <3>1. calculo'[c] = calculo[c]
      BY <1>0, <1>1, <2>2 DEF Ler
    <3>2. Seguem(c)
      BY <3>1
    <3> QED
      BY <3>2, <1>s
  <2>3. CASE Calculavel(D) /\ c = d
    <3>1. calculo' = [calculo EXCEPT ![d].fase = "ordenar", ![d].destinos = D]
      BY <1>1, <2>3 DEF Ler
    <3>2. calculo'[c].viagem = calculo[c].viagem /\ calculo'[c].destinos = D
      BY <3>1, <1>0, <2>3
    <3>3. Atuais' = (confirmada \cap passageira) \ remarcada
      BY <1>1 DEF Ler, tabelas, Atuais
    <3>4. DestinosDe(calculo[c].viagem, Atuais') \subseteq D
      BY <3>3, <2>3, DestinosDeMenos DEF DestinosCalculo
    <3> QED
      BY <3>2, <3>4
  <2> QED
    BY <2>1, <2>2, <2>3
<1>2. ASSUME NEW d \in Calculo, Ordenar(d), NEW c \in Calculo PROVE Seguem(c)
  BY <1>0, <1>2 DEF Ordenar
<1>3. ASSUME NEW d \in Calculo, Falhar(d) \/ Gravar(d), NEW c \in Calculo PROVE Seguem(c)
  <2>1. calculo' = [calculo EXCEPT ![d] = Ocioso]
    BY <1>3 DEF Falhar, Gravar, Encerrar
  <2> QED
    BY <1>0, <2>1, OciosoTipado
<1>4. ASSUME NEW v \in Viagem, Proxima(v) \/ CalcularManual(v), NEW c \in Calculo PROVE Seguem(c)
  BY <1>4, <1>o DEF Proxima, CalcularManual
<1>5. ASSUME calculo' = calculo PROVE CalculoCobre'
  BY <1>5, <1>s, <1>m DEF CalculoCobre
<1>6. \/ calculo' = calculo
      \/ \E d \in Calculo : Ler(d) \/ Ordenar(d) \/ Falhar(d) \/ Gravar(d)
      \/ \E v \in Viagem : Proxima(v) \/ CalcularManual(v)
  BY DEF Next, vars, doWorker, Passar, EditarHorario, CriarHorario, ExcluirHorario, GravarHorario,
      Candidatar, Planejar, Rodar, Excluir, Criar, MudarSituacao, Invalidar, CancelarReserva,
      EditarReserva, CancelarPresenca
<1>7. ASSUME \A c \in Calculo : Coberto(c) PROVE CalculoCobre'
  BY <1>7 DEF CalculoCobre
<1>8. ASSUME NEW d \in Calculo, Ler(d) \/ Ordenar(d) \/ Falhar(d) \/ Gravar(d) PROVE CalculoCobre'
  <2>1. \A c \in Calculo : Coberto(c)
    BY <1>1, <1>2, <1>3, <1>s, <1>8
  <2> QED
    BY <2>1, <1>7
<1>9. ASSUME NEW v \in Viagem, Proxima(v) \/ CalcularManual(v) PROVE CalculoCobre'
  BY <1>4, <1>9, <1>s, <1>7
<1> QED
  BY <1>5, <1>6, <1>8, <1>9

\* A step keeps a route, deletes it, writes one by hand, or stores what a
\* calculation has read.
LEMMA PassoRotaCobre ==
    ASSUME CobreInv, Existem, [Next]_vars
    PROVE  RotaCobrePassageiros'
<1> DEFINE Coberta(v) == rota'[v].origem = "calculada" =>
                             DestinosDe(v, Atuais') \subseteq rota'[v].destinos
           Segue(v) == rota'[v] = rota[v] \/ rota'[v].origem # "calculada"
<1>0. rota \in [Viagem -> Rotas] /\ Atuais' \subseteq Atuais
  BY PassageirosSaem DEF CobreInv, TypeOK
<1>s. ASSUME NEW v \in Viagem, Segue(v) PROVE Coberta(v)
  BY <1>0, <1>s, RotaSegueCoberta DEF CobreInv
<1>n. SemRota.origem # "calculada"
  BY DEF SemRota
<1>1. ASSUME NEW c \in Calculo, Gravar(c), NEW v \in Viagem PROVE Coberta(v)
  <2> DEFINE w == calculo[c].viagem
             D == calculo[c].destinos
  <2>1. CASE v # w \/ rota[w] # SemRota
    <3>1. rota'[v] = rota[v]
      BY <1>0, <1>1, <2>1 DEF Gravar, Incluir
    <3> QED
      BY <3>1, <1>s
  <2>2. CASE v = w /\ rota[w] = SemRota
    <3>1. rota'[v].destinos = D
      BY <1>0, <1>1, <2>2 DEF Gravar, Incluir, Nova
    <3>2. DestinosDe(v, Atuais) \subseteq D
      BY <1>1, <2>2 DEF Gravar, CobreInv, CalculoCobre
    <3>3. DestinosDe(v, Atuais') \subseteq DestinosDe(v, Atuais)
      BY <1>0, DestinosDeMenos
    <3> QED
      BY <3>1, <3>2, <3>3
  <2> QED
    BY <2>1, <2>2
<1>2. ASSUME NEW w \in Viagem, NEW ds, Criar(w, ds), NEW v \in Viagem PROVE Segue(v)
  BY <1>0, <1>2 DEF Criar, Incluir, Nova
<1>3. ASSUME NEW w \in Viagem, Excluir(w), NEW v \in Viagem PROVE Segue(v)
  BY <1>0, <1>3, <1>n DEF Excluir
<1>4. ASSUME NEW r \in Reserva, Invalidar(r), NEW v \in Viagem PROVE Segue(v)
  BY <1>0, <1>4, <1>n DEF Invalidar
<1>5. rota' = rota \/ (\E c \in Calculo : Gravar(c)) \/ (\E r \in Reserva : Invalidar(r))
      \/ \E w \in Viagem : Excluir(w) \/ \E ds \in BoundedSeq(Destino, 2) : Criar(w, ds)
  BY DEF Next, vars, Passar, EditarHorario, CriarHorario, ExcluirHorario, GravarHorario,
      Candidatar, Planejar, Rodar, Proxima, Ler, Ordenar, Falhar, CalcularManual, MudarSituacao,
      CancelarReserva, EditarReserva, CancelarPresenca
<1>6. \A v \in Viagem : Coberta(v)
  BY <1>1, <1>2, <1>3, <1>4, <1>5, <1>s
<1> QED
  BY <1>6 DEF RotaCobrePassageiros, Atuais

\* Before the trips exist there is neither a route nor a calculation, and the
\* step that creates them creates neither.
LEMMA SemRotaAntes ==
    ASSUME AntesDoPlano, ~Existem, [Next]_vars, TypeOK
    PROVE  /\ \A v \in Viagem : rota'[v] = SemRota
           /\ \A c \in Calculo : calculo'[c].fase = "ocioso"
<1>1. CASE Planejar
  BY <1>1 DEF Planejar, AntesDoPlano, doWorker
<1>2. CASE ~Planejar
  <2>1. planejada' = planejada
    BY <1>2 DEF Next, vars, relogio, Passar, EditarHorario, CriarHorario, ExcluirHorario, GravarHorario,
      Candidatar, Rodar, Proxima, Ler, Ordenar, Falhar, Gravar, CalcularManual, Excluir, Criar,
      MudarSituacao, Invalidar, CancelarReserva, EditarReserva, CancelarPresenca
  <2>2. AntesDoPlano'
    BY PassoAntesDoPlano
  <2> QED
    BY <2>1, <2>2 DEF AntesDoPlano, Existem
<1> QED
  BY <1>1, <1>2

\* A calculated route takes every passenger where they go: OSRM's answer is
\* stored late, but passengers only leave once the trips exist.
THEOREM RotaSempreCobre == Spec => []RotaCobrePassageiros
<1>1. Init => CobreInv
  <2> SUFFICES ASSUME Init PROVE CobreInv
    OBVIOUS
  <2>1. AntesDoPlano
    BY OciosoTipado DEF Init, AntesDoPlano, Existem
  <2>2. CalculoCobre
    BY OciosoTipado DEF Init, CalculoCobre
  <2>3. RotaCobrePassageiros
    BY DEF Init, RotaCobrePassageiros, SemRota
  <2> QED
    BY <2>1, <2>2, <2>3, TipoInicial DEF CobreInv
<1>2. CobreInv /\ [Next]_vars => CobreInv'
  <2> SUFFICES ASSUME CobreInv, [Next]_vars PROVE CobreInv'
    OBVIOUS
  <2>1. TypeOK' /\ AntesDoPlano'
    BY PassoTipado, PassoAntesDoPlano DEF CobreInv
  <2>2. CASE Existem
    BY <2>1, <2>2, PassoCalculoCobre, PassoRotaCobre DEF CobreInv
  <2>3. CASE ~Existem
    <3>1. CalculoCobre'
      BY <2>3, SemRotaAntes DEF CobreInv, CalculoCobre
    <3>2. RotaCobrePassageiros'
      BY <2>3, SemRotaAntes DEF CobreInv, RotaCobrePassageiros, SemRota
    <3> QED
      BY <2>1, <3>1, <3>2 DEF CobreInv
  <2> QED
    BY <2>2, <2>3
<1>3. CobreInv => RotaCobrePassageiros
  BY DEF CobreInv
<1> QED
  BY <1>1, <1>2, <1>3, PTL DEF Spec

-----------------------------------------------------------------------------
(* Routes without spare destinos *)

SobraInv == TypeOK /\ AntesDoPlano /\ RotaSemSobra

\* What a route serves when nothing is owed to it.
Exata(v) ==
    rota[v].origem = "calculada" /\ v \notin antiga /\ DaViagem(v) \cap invalidar = {} =>
        rota[v].destinos = DestinosDe(v, confirmada \cap passageira)

\* A trip none of whose reservas is touched keeps its destinos.
LEMMA DestinosMantidos ==
    ASSUME NEW v, NEW R, NEW S, NEW r, R \subseteq S \cup {r}, S \subseteq R \cup {r}, viagemDe[r] # v
    PROVE  DestinosDe(v, R) = DestinosDe(v, S)
  BY DEF DestinosDe, DaViagem

LEMMA PassoExato ==
    ASSUME SobraInv, Existem, [Next]_vars, NEW v \in Viagem
    PROVE  Exata(v)'
<1>0. rota \in [Viagem -> Rotas] /\ Exata(v)
  BY DEF SobraInv, TypeOK, RotaSemSobra, Exata
<1>n. SemRota.origem # "calculada"
  BY DEF SemRota
<1>1. ASSUME NEW r \in Reserva, CancelarReserva(r) \/ EditarReserva(r) PROVE Exata(v)'
  <2>1. invalidar' = invalidar \cup {r} /\ rota' = rota /\ antiga' = antiga
        /\ passageira' = passageira
    BY <1>1 DEF CancelarReserva, EditarReserva
  <2>2. CASE viagemDe[r] = v
    <3>1. r \in DaViagem(v) \cap invalidar'
      BY <2>1, <2>2 DEF DaViagem
    <3> QED
      BY <3>1 DEF Exata, DaViagem
  <2>3. CASE viagemDe[r] # v
    <3>1. confirmada' \subseteq confirmada \cup {r} /\ confirmada \subseteq confirmada' \cup {r}
      BY <1>1 DEF CancelarReserva, EditarReserva
    <3>2. DestinosDe(v, confirmada' \cap passageira) = DestinosDe(v, confirmada \cap passageira)
      BY <2>3, <3>1, DestinosMantidos
    <3> QED
      BY <1>0, <2>1, <3>2 DEF Exata, DaViagem, DestinosDe
  <2> QED
    BY <2>2, <2>3
<1>2. ASSUME NEW r \in Reserva, CancelarPresenca(r) PROVE Exata(v)'
  <2>1. CASE viagemDe[r] = v
    BY <1>2, <2>1 DEF CancelarPresenca, Exata
  <2>2. CASE viagemDe[r] # v
    <3>1. DestinosDe(v, confirmada \cap (passageira \ {r})) = DestinosDe(v, confirmada \cap passageira)
      BY <2>2, DestinosMantidos
    <3> QED
      BY <1>0, <1>2, <2>2, <3>1 DEF CancelarPresenca, Exata, DaViagem, DestinosDe
  <2> QED
    BY <2>1, <2>2
<1>3. ASSUME NEW r \in Reserva, Invalidar(r) PROVE Exata(v)'
  <2>1. rota'[v] = rota[v] \/ rota'[v] = SemRota
    BY <1>0, <1>3 DEF Invalidar
  <2>2. CASE viagemDe[r] = v
    <3>1. v \in antiga' \/ rota'[v] = SemRota
      BY <1>3, <2>2, ConstantesDaRota DEF Invalidar, Invalidaveis, SobraInv, TypeOK
    <3> QED
      BY <3>1, <1>n DEF Exata
  <2>3. CASE viagemDe[r] # v
    <3>1. r \notin DaViagem(v)
      BY <2>3 DEF DaViagem
    <3>2. DaViagem(v) \cap invalidar' = DaViagem(v) \cap invalidar /\ antiga \subseteq antiga'
          /\ confirmada' = confirmada /\ passageira' = passageira
      BY <1>3, <3>1 DEF Invalidar, tabelas
    <3> QED
      BY <1>0, <1>n, <2>1, <3>2 DEF Exata, DaViagem, DestinosDe
  <2> QED
    BY <2>2, <2>3
<1>4. ASSUME NEW c \in Calculo, Gravar(c) PROVE Exata(v)'
  <2> DEFINE w == calculo[c].viagem
             D == calculo[c].destinos
  <2>0. confirmada' = confirmada /\ passageira' = passageira /\ invalidar' = invalidar
    BY <1>4 DEF Gravar, tabelas
  <2>1. CASE rota'[w] = rota[w]
    <3>1. rota'[v] = rota[v] /\ antiga' = antiga
      BY <1>0, <1>4, <2>1 DEF Gravar, Incluir
    <3> QED
      BY <1>0, <2>0, <3>1 DEF Exata, DaViagem, DestinosDe
  <2>2. CASE rota'[w] # rota[w] /\ v # w
    <3>1. rota'[v] = rota[v] /\ (v \in antiga <=> v \in antiga')
      BY <1>0, <1>4, <2>2 DEF Gravar, Incluir
    <3> QED
      BY <1>0, <2>0, <3>1 DEF Exata, DaViagem, DestinosDe
  <2>3. CASE rota'[w] # rota[w] /\ v = w
    <3>1. rota'[v].destinos = D
      BY <1>0, <1>4, <2>3 DEF Gravar, Incluir, Nova
    <3>2. v \in antiga' \/ D = DestinosDe(v, confirmada \cap passageira)
      BY <1>4, <2>3 DEF Gravar
    <3> QED
      BY <2>0, <3>1, <3>2 DEF Exata, DaViagem, DestinosDe
  <2> QED
    BY <2>1, <2>2, <2>3
<1>5. ASSUME NEW w \in Viagem,
             \/ Excluir(w)
             \/ \E ds \in BoundedSeq(Destino, 2) : Criar(w, ds)
      PROVE  Exata(v)'
  <2>1. rota'[v] = rota[v] \/ rota'[v].origem # "calculada"
    BY <1>0, <1>n, <1>5 DEF Excluir, Criar, Incluir, Nova
  <2>2. confirmada' = confirmada /\ passageira' = passageira /\ invalidar' = invalidar
        /\ antiga' = antiga
    BY <1>5 DEF Excluir, Criar, tabelas
  <2> QED
    BY <1>0, <2>1, <2>2 DEF Exata, DaViagem, DestinosDe
<1>6. ASSUME UNCHANGED <<rota, antiga, confirmada, passageira, invalidar>> PROVE Exata(v)'
  BY <1>0, <1>6 DEF Exata, DaViagem, DestinosDe
<1>7. ~Planejar
  BY DEF Planejar
<1> QED
  BY <1>1, <1>2, <1>3, <1>4, <1>5, <1>6, <1>7
  DEF Next, vars, tabelas, Passar, EditarHorario, CriarHorario, ExcluirHorario, GravarHorario,
      Candidatar, Rodar, Proxima, Ler, Ordenar, Falhar, CalcularManual, MudarSituacao

\* A calculated route carries a destino nobody goes to only in the cases that
\* antiga names: a change while OSRM computed, inside the block, by the driver,
\* or with an invalidation that failed or is still to come.
THEOREM RotaSempreSemSobra == Spec => []RotaSemSobra
<1>1. Init => SobraInv
  <2> SUFFICES ASSUME Init PROVE SobraInv
    OBVIOUS
  <2>1. AntesDoPlano
    BY OciosoTipado DEF Init, AntesDoPlano, Existem
  <2>2. RotaSemSobra
    BY DEF Init, RotaSemSobra, SemRota
  <2> QED
    BY <2>1, <2>2, TipoInicial DEF SobraInv
<1>2. SobraInv /\ [Next]_vars => SobraInv'
  <2> SUFFICES ASSUME SobraInv, [Next]_vars PROVE SobraInv'
    OBVIOUS
  <2>1. TypeOK' /\ AntesDoPlano'
    BY PassoTipado, PassoAntesDoPlano DEF SobraInv
  <2>2. CASE Existem
    <3>1. \A v \in Viagem : Exata(v)'
      BY <2>2, PassoExato
    <3>2. RotaSemSobra'
      BY <3>1 DEF RotaSemSobra, Exata
    <3> QED
      BY <2>1, <3>2 DEF SobraInv
  <2>3. CASE ~Existem
    <3>1. RotaSemSobra'
      BY <2>3, SemRotaAntes DEF SobraInv, RotaSemSobra, SemRota
    <3> QED
      BY <2>1, <3>1 DEF SobraInv
  <2> QED
    BY <2>2, <2>3
<1>3. SobraInv => RotaSemSobra
  BY DEF SobraInv
<1> QED
  BY <1>1, <1>2, <1>3, PTL DEF Spec

-----------------------------------------------------------------------------
(* The order of the destinos (Otimizador), for any number of them *)

\* What the optimiser computes from: N destinos, natural durations between them,
\* from the origin to each and from each to the end.
Entrada(e, N) ==
    /\ N \in Nat \ {0}
    /\ e.entre \in [1 .. N -> [1 .. N -> Nat]]
    /\ e.origem \in [1 .. N -> Nat] /\ e.final \in [1 .. N -> Nat]

LEMMA IndicesDaEntrada ==
    ASSUME NEW e, NEW N, Entrada(e, N)
    PROVE  Indices(e) = 1 .. N /\ IsFiniteSet(1 .. N) /\ Cardinality(1 .. N) = N
<1>1. Indices(e) = 1 .. N
  BY DEF Indices, Entrada
<1>2. N \in Int /\ 1 \in Int /\ ~(1 > N) /\ N - 1 + 1 = N
  BY DEF Entrada
<1>3. IsFiniteSet(1 .. N) /\ Cardinality(1 .. N) = N - 1 + 1
  BY <1>2, FS_Interval
<1> QED
  BY <1>1, <1>2, <1>3

LEMMA PrimeiroEscolhe ==
    ASSUME NEW S \in SUBSET Nat, S # {}, NEW f, \A o \in S : f[o] \in Nat
    PROVE  Primeiro(S, f) \in S /\ \A o \in S : f[Primeiro(S, f)] <= f[o]
<1> DEFINE Vence(d) == \A o \in S : f[d] < f[o] \/ (f[d] = f[o] /\ d <= o)
<1>1. PICK p \in S : \A o \in S : f[p] <= f[o]
  <2> DEFINE g == [o \in S |-> f[o]]
  <2>1. g \in [S -> Nat] /\ \A o \in S : g[o] = f[o]
    OBVIOUS
  <2> HIDE DEF g
  <2>2. PICK p \in S : \A o \in S : g[p] <= g[o]
    BY <2>1, ArgMenor
  <2> QED
    BY <2>1, <2>2
<1> DEFINE T == {o \in S : f[o] = f[p]}
<1>2. T \in SUBSET Nat /\ T # {}
  OBVIOUS
<1>3. PICK d \in T : \A o \in T : d <= o
  BY <1>2, MenorNatural
<1>4. d \in S /\ Vence(d)
  <2>1. ASSUME NEW o \in S PROVE f[d] < f[o] \/ (f[d] = f[o] /\ d <= o)
    <3>1. f[d] = f[p] /\ f[p] <= f[o] /\ f[d] \in Nat /\ f[o] \in Nat
      BY <1>1
    <3>2. CASE f[o] = f[p]
      BY <1>3, <3>1, <3>2
    <3>3. CASE f[o] # f[p]
      BY <3>1, <3>3
    <3> QED
      BY <3>2, <3>3
  <2> QED
    BY <2>1
<1>5. Primeiro(S, f) = CHOOSE x \in S : Vence(x)
  BY DEF Primeiro
<1>6. Primeiro(S, f) \in S /\ Vence(Primeiro(S, f))
  <2> HIDE DEF Vence
  <2> QED
    BY <1>4, <1>5
<1>7. ASSUME NEW o \in S PROVE f[Primeiro(S, f)] <= f[o]
  <2>1. f[Primeiro(S, f)] \in Nat /\ f[o] \in Nat
    BY <1>6
  <2>2. f[Primeiro(S, f)] < f[o] \/ f[Primeiro(S, f)] = f[o]
    BY <1>6
  <2> QED
    BY <2>1, <2>2
<1> QED
  BY <1>6, <1>7

-----------------------------------------------------------------------------
(* What an order costs *)

\* t accumulates the durations along the order.
Acumula(t, e, ordem, n) ==
    /\ t \in [1 .. n -> Nat]
    /\ t[1] = e.origem[ordem[1]]
    /\ \A k \in 2 .. n : t[k] = t[k - 1] + e.entre[ordem[k - 1]][ordem[k]]

LEMMA TrajetoPassos ==
    ASSUME NEW e, NEW N, Entrada(e, N), NEW n \in Nat \ {0}, NEW p \in [1 .. n -> 1 .. N]
    PROVE  Acumula(Trajeto(e, p), e, p, n)
<1> DEFINE passo(k, v) == IF k = 1 THEN e.origem[p[1]] ELSE v + e.entre[p[k - 1]][p[k]]
           G == [k \in 1 .. n |-> [v \in Nat |-> passo(k, v)]]
           Passo(f) == f = [k \in 1 .. n |->
                              IF k = 1 THEN e.origem[p[1]] ELSE f[k - 1] + e.entre[p[k - 1]][p[k]]]
           F == Trajeto(e, p)
<1>1. Len(p) = n
  BY DEF Entrada
<1>2. F = CHOOSE f : Passo(f)
  BY <1>1 DEF Trajeto
<1>3. \A k \in 1 .. n, v \in Nat : passo(k, v) \in Nat
  <2> TAKE k \in 1 .. n, v \in Nat
  <2>1. p[1] \in 1 .. N /\ p[k] \in 1 .. N /\ (k # 1 => k - 1 \in 1 .. n /\ p[k - 1] \in 1 .. N)
    OBVIOUS
  <2>2. e.origem[p[1]] \in Nat /\ (k # 1 => e.entre[p[k - 1]][p[k]] \in Nat)
    BY <2>1 DEF Entrada
  <2> QED
    BY <2>2
<1>4. G \in [1 .. n -> [Nat -> Nat]]
  <2> HIDE DEF passo
  <2> QED
    BY <1>3
<1>5. PICK g : Recorre(g, n, Nat, 0, G)
  <2> HIDE DEF G
  <2> QED
    BY <1>4, RecursaoFinita
<1>6. /\ \A k \in 0 .. n : g[k] \in Nat
      /\ \A k \in 1 .. n : g[k] = passo(k, g[k - 1])
  <2>1. g \in [0 .. n -> Nat] /\ \A k \in 1 .. n : g[k] = G[k][g[k - 1]]
    <3> HIDE DEF G
    <3> QED
      BY <1>5 DEF Recorre
  <2>2. \A k \in 1 .. n : k - 1 \in 0 .. n
    OBVIOUS
  <2> HIDE DEF passo
  <2> QED
    BY <2>1, <2>2
<1> DEFINE f == [k \in 1 .. n |-> g[k]]
<1>7. Passo(f)
  <2>1. \A k \in 1 .. n : f[k] = IF k = 1 THEN e.origem[p[1]] ELSE f[k - 1] + e.entre[p[k - 1]][p[k]]
    <3> TAKE k \in 1 .. n
    <3>1. f[k] = g[k] /\ (k # 1 => f[k - 1] = g[k - 1])
      OBVIOUS
    <3> HIDE DEF f
    <3> QED
      BY <1>6, <3>1
  <2> QED
    BY <2>1
<1>8. Passo(F)
  <2> HIDE DEF Passo, F, f
  <2> QED
    BY <1>2, <1>7
<1> HIDE DEF F
<1>9. \A k \in 1 .. n : F[k] = IF k = 1 THEN e.origem[p[1]] ELSE F[k - 1] + e.entre[p[k - 1]][p[k]]
  BY <1>8
<1>10. \A k \in 1 .. n : F[k] \in Nat
  <2> DEFINE T == {k \in Nat : k + 1 <= n => F[k + 1] \in Nat}
  <2>1. 0 \in T
    <3>1. p[1] \in 1 .. N /\ 1 \in 1 .. n
      OBVIOUS
    <3>2. F[1] = e.origem[p[1]]
      BY <1>9, <3>1
    <3> QED
      BY <3>1, <3>2 DEF Entrada
  <2>2. ASSUME NEW k \in T PROVE k + 1 \in T
    <3> SUFFICES ASSUME k + 2 <= n PROVE F[k + 2] \in Nat
      OBVIOUS
    <3>1. k + 2 \in 1 .. n /\ k + 1 \in 1 .. n /\ k + 2 # 1 /\ (k + 2) - 1 = k + 1
      OBVIOUS
    <3>2. F[k + 1] \in Nat
      BY <3>1
    <3>3. F[k + 2] = F[k + 1] + e.entre[p[k + 1]][p[k + 2]]
      BY <1>9, <3>1
    <3>4. p[k + 1] \in 1 .. N /\ p[k + 2] \in 1 .. N
      BY <3>1
    <3>5. e.entre[p[k + 1]][p[k + 2]] \in Nat
      BY <3>4 DEF Entrada
    <3> QED
      BY <3>2, <3>3, <3>5
  <2>3. T = Nat
    <3>1. T \in SUBSET Nat
      OBVIOUS
    <3> HIDE DEF T
    <3> QED
      BY <2>1, <2>2, <3>1, InducaoNatural
  <2>4. ASSUME NEW k \in 1 .. n PROVE F[k] \in Nat
    <3>1. k - 1 \in Nat /\ (k - 1) + 1 = k /\ k <= n
      OBVIOUS
    <3>2. k - 1 \in T
      BY <2>3, <3>1
    <3> QED
      BY <3>1, <3>2
  <2> QED
    BY <2>4
<1>11. F = [k \in 1 .. n |-> F[k]]
  BY <1>8
<1>12. \A k \in 2 .. n : k \in 1 .. n /\ k # 1
  OBVIOUS
<1>13. 1 \in 1 .. n
  OBVIOUS
<1>14. Acumula(F, e, p, n)
  BY <1>9, <1>10, <1>11, <1>12, <1>13 DEF Acumula
<1> QED
  BY <1>14 DEF F

LEMMA CustoNatural ==
    ASSUME NEW e, NEW N, Entrada(e, N), NEW n \in Nat \ {0}, NEW p \in [1 .. n -> 1 .. N]
    PROVE  Custo(e, p) \in Nat /\ Custo(e, p) = Trajeto(e, p)[n] + e.final[p[n]]
<1>1. Len(p) = n /\ n \in 1 .. n
  OBVIOUS
<1>2. Trajeto(e, p)[n] \in Nat
  BY <1>1, TrajetoPassos DEF Acumula
<1>3. e.final[p[n]] \in Nat
  BY <1>1 DEF Entrada
<1> QED
  BY <1>1, <1>2, <1>3 DEF Custo

\* What accumulates along the same order is the same.
LEMMA AcumulaUnica ==
    ASSUME NEW e, NEW n \in Nat \ {0}, NEW m \in Nat, n <= m, NEW p, NEW q, NEW t, NEW u,
           Acumula(t, e, p, n), Acumula(u, e, q, m), \A k \in 1 .. n : p[k] = q[k]
    PROVE  \A k \in 1 .. n : t[k] = u[k]
<1> DEFINE T == {k \in Nat : k + 1 <= n => t[k + 1] = u[k + 1]}
<1>1. 0 \in T
  <2>1. 1 \in 1 .. n
    OBVIOUS
  <2> QED
    BY <2>1 DEF Acumula
<1>2. ASSUME NEW k \in T PROVE k + 1 \in T
  <2> SUFFICES ASSUME k + 2 <= n PROVE t[k + 2] = u[k + 2]
    OBVIOUS
  <2>1. /\ k + 2 \in 2 .. n /\ k + 2 \in 2 .. m /\ (k + 2) - 1 = k + 1
        /\ k + 1 \in 1 .. n /\ k + 2 \in 1 .. n
    OBVIOUS
  <2>2. t[k + 1] = u[k + 1]
    BY <2>1
  <2>3. t[k + 2] = t[k + 1] + e.entre[p[k + 1]][p[k + 2]]
    BY <2>1 DEF Acumula
  <2>4. u[k + 2] = u[k + 1] + e.entre[q[k + 1]][q[k + 2]]
    BY <2>1 DEF Acumula
  <2>5. p[k + 1] = q[k + 1] /\ p[k + 2] = q[k + 2]
    BY <2>1
  <2> QED
    BY <2>2, <2>3, <2>4, <2>5
<1>3. T = Nat
  <2>1. T \in SUBSET Nat
    OBVIOUS
  <2> HIDE DEF T
  <2> QED
    BY <1>1, <1>2, <2>1, InducaoNatural
<1>4. ASSUME NEW k \in 1 .. n PROVE t[k] = u[k]
  <2>1. k - 1 \in Nat /\ (k - 1) + 1 = k /\ k <= n
    OBVIOUS
  <2>2. k - 1 \in T
    BY <1>3, <2>1
  <2> QED
    BY <2>1, <2>2
<1> QED
  BY <1>4

-----------------------------------------------------------------------------
(* Held and Karp's table *)

\* The states of smaller sets, from which a state is reached.
Antes(x) == x[1] \ {x[2]}

LEMMA EstadosDaEntrada ==
    ASSUME NEW e, NEW N, Entrada(e, N), NEW x \in Estados(e)
    PROVE  /\ x[1] \in SUBSET (1 .. N) /\ x[2] \in x[1] /\ x[2] \in 1 .. N
           /\ Antes(x) \in SUBSET Nat /\ Antes(x) \in SUBSET (1 .. N)
           /\ IsFiniteSet(x[1]) /\ Cardinality(x[1]) \in Nat /\ Cardinality(x[1]) > 0
           /\ IsFiniteSet(Antes(x)) /\ Cardinality(Antes(x)) = Cardinality(x[1]) - 1
           /\ \A d \in Antes(x) : /\ <<Antes(x), d>> \in Estados(e)
                                  /\ <<Antes(x), d>>[1] = Antes(x) /\ <<Antes(x), d>>[2] = d
<1>1. Indices(e) = 1 .. N /\ IsFiniteSet(1 .. N)
  BY IndicesDaEntrada
<1>2. x[1] \in SUBSET (1 .. N) /\ x[2] \in x[1] /\ x[2] \in 1 .. N
  BY <1>1 DEF Estados
<1>3. Antes(x) \in SUBSET Nat /\ Antes(x) \in SUBSET (1 .. N)
  BY <1>2 DEF Antes
<1>4. IsFiniteSet(x[1])
  BY <1>1, <1>2, FS_Subset
<1>5. Cardinality(x[1]) \in Nat /\ IsFiniteSet(Antes(x))
      /\ Cardinality(Antes(x)) = Cardinality(x[1]) - 1
  BY <1>2, <1>4, FS_CardinalityType, FS_RemoveElement DEF Antes
<1>6. Cardinality(Antes(x)) \in Nat
  BY <1>5, FS_CardinalityType
<1>7. Cardinality(x[1]) > 0
  BY <1>5, <1>6
<1>8. ASSUME NEW d \in Antes(x)
      PROVE  <<Antes(x), d>> \in Estados(e) /\ <<Antes(x), d>>[1] = Antes(x) /\ <<Antes(x), d>>[2] = d
  BY <1>1, <1>3 DEF Estados
<1> QED
  BY <1>2, <1>3, <1>4, <1>5, <1>7, <1>8

Posto(e) == [x \in Estados(e) |-> Cardinality(x[1])]

LEMMA PostoTipado ==
    ASSUME NEW e, NEW N, Entrada(e, N)
    PROVE  /\ Posto(e) \in [Estados(e) -> Nat]
           /\ \A x \in Estados(e) : \A d \in Antes(x) : Posto(e)[<<Antes(x), d>>] < Posto(e)[x]
<1>1. \A x \in Estados(e) : Cardinality(x[1]) \in Nat
  BY EstadosDaEntrada
<1>2. ASSUME NEW x \in Estados(e), NEW d \in Antes(x)
      PROVE  Posto(e)[<<Antes(x), d>>] < Posto(e)[x]
  <2>1. /\ <<Antes(x), d>> \in Estados(e) /\ <<Antes(x), d>>[1] = Antes(x)
        /\ Cardinality(Antes(x)) = Cardinality(x[1]) - 1 /\ Cardinality(x[1]) \in Nat
    BY EstadosDaEntrada
  <2>2. /\ Posto(e)[<<Antes(x), d>>] = Cardinality(Antes(x))
        /\ Posto(e)[x] = Cardinality(x[1])
    BY <2>1 DEF Posto
  <2> QED
    BY <2>1, <2>2
<1> QED
  BY <1>1, <1>2 DEF Posto

LEMMA CandidatosNaturais ==
    ASSUME NEW e, NEW N, Entrada(e, N), NEW dp \in [Estados(e) -> Nat], NEW x \in Estados(e)
    PROVE  /\ Candidatos(e, dp, Antes(x), x[2]) \in [Antes(x) -> Nat]
           /\ \A d \in Antes(x) :
                 Candidatos(e, dp, Antes(x), x[2])[d] = dp[<<Antes(x), d>>] + e.entre[d][x[2]]
<1>1. ASSUME NEW d \in Antes(x) PROVE dp[<<Antes(x), d>>] + e.entre[d][x[2]] \in Nat
  <2>1. <<Antes(x), d>> \in Estados(e) /\ d \in 1 .. N /\ x[2] \in 1 .. N
    BY EstadosDaEntrada
  <2>2. dp[<<Antes(x), d>>] \in Nat /\ e.entre[d][x[2]] \in Nat
    BY <2>1 DEF Entrada
  <2> QED
    BY <2>2
<1> QED
  BY <1>1 DEF Candidatos

\* What ordenarHeldKarp puts into dp for a state.
ValorDe(e, dp, x) ==
    IF Antes(x) = {} THEN e.origem[x[2]]
    ELSE Candidatos(e, dp, Antes(x), x[2])[Primeiro(Antes(x), Candidatos(e, dp, Antes(x), x[2]))]

LEMMA ValorNatural ==
    ASSUME NEW e, NEW N, Entrada(e, N), NEW dp \in [Estados(e) -> Nat], NEW x \in Estados(e)
    PROVE  ValorDe(e, dp, x) \in Nat
<1>1. CASE Antes(x) = {}
  <2>1. x[2] \in 1 .. N
    BY EstadosDaEntrada
  <2>2. ValorDe(e, dp, x) = e.origem[x[2]]
    BY <1>1 DEF ValorDe
  <2> QED
    BY <2>1, <2>2 DEF Entrada
<1>2. CASE Antes(x) # {}
  <2> DEFINE c == Candidatos(e, dp, Antes(x), x[2])
  <2>1. c \in [Antes(x) -> Nat] /\ Antes(x) \in SUBSET Nat
    BY CandidatosNaturais, EstadosDaEntrada
  <2>2. Primeiro(Antes(x), c) \in Antes(x)
    <3> HIDE DEF c
    <3> QED
      BY <1>2, <2>1, PrimeiroEscolhe
  <2>3. ValorDe(e, dp, x) = c[Primeiro(Antes(x), c)]
    BY <1>2 DEF ValorDe
  <2> HIDE DEF c
  <2> QED
    BY <2>1, <2>2, <2>3
<1> QED
  BY <1>1, <1>2

LEMMA TabelaPassos ==
    ASSUME NEW e, NEW N, Entrada(e, N)
    PROVE  /\ Tabela(e) \in [Estados(e) -> Nat]
           /\ \A x \in Estados(e) : Tabela(e)[x] = ValorDe(e, Tabela(e), x)
<1> DEFINE S == Estados(e)
           V == [x \in S |-> Nat]
           G == [x \in S |-> [f \in Tipadas(S, V) |-> ValorDe(e, f, x)]]
           Passo(f) == f = [x \in S |-> ValorDe(e, f, x)]
           F == Tabela(e)
<1>1. F = CHOOSE f : Passo(f)
  BY DEF Tabela, ValorDe, Antes
<1>2. \A f \in Tipadas(S, V) : f \in [S -> Nat]
  <2> TAKE f \in Tipadas(S, V)
  <2>1. f = [x \in S |-> f[x]] /\ \A x \in S : f[x] \in Nat
    BY DEF Tipadas
  <2> QED
    BY <2>1
<1>3. \A x \in S, f \in Tipadas(S, V) : G[x][f] = ValorDe(e, f, x) /\ G[x][f] \in V[x]
  BY <1>2, ValorNatural
<1>4. G \in [S -> [Tipadas(S, V) -> UNION {V[x] : x \in S}]]
  <2>1. \A x \in S, f \in Tipadas(S, V) : ValorDe(e, f, x) \in UNION {V[y] : y \in S}
    BY <1>2, ValorNatural
  <2> QED
    BY <2>1
<1>5. ASSUME NEW x \in S, NEW f \in Tipadas(S, V), NEW g \in Tipadas(S, V),
             \A y \in S : Posto(e)[y] < Posto(e)[x] => f[y] = g[y]
      PROVE  G[x][f] = G[x][g]
  <2>1. \A d \in Antes(x) : f[<<Antes(x), d>>] = g[<<Antes(x), d>>]
    BY <1>5, PostoTipado, EstadosDaEntrada
  <2>2. Candidatos(e, f, Antes(x), x[2]) = Candidatos(e, g, Antes(x), x[2])
    BY <2>1 DEF Candidatos
  <2>3. ValorDe(e, f, x) = ValorDe(e, g, x)
    BY <2>2 DEF ValorDe
  <2> QED
    BY <1>3, <2>3
<1>6. \A x \in S : V[x] # {}
  OBVIOUS
<1>7. Gera(S, V, Posto(e), G)
  <2>1. Posto(e) \in [S -> Nat]
    BY PostoTipado
  <2> HIDE DEF G, V, S
  <2> QED
    BY <1>3, <1>4, <1>5, <1>6, <2>1 DEF Gera
<1>8. PICK f \in Tipadas(S, V) : \A x \in S : f[x] = G[x][f]
  <2> HIDE DEF G, V
  <2> QED
    BY <1>7, RecursaoPorPosto
<1>9. Passo(f)
  <2>1. f = [x \in S |-> f[x]]
    BY <1>2
  <2> HIDE DEF G
  <2>2. \A x \in S : f[x] = ValorDe(e, f, x)
    BY <1>3, <1>8
  <2> QED
    BY <2>1, <2>2
<1>10. Passo(F)
  <2> HIDE DEF Passo, F
  <2> QED
    BY <1>1, <1>9
<1> HIDE DEF F, V
<1>11. F = [x \in S |-> F[x]] /\ \A x \in S : F[x] = ValorDe(e, F, x)
  BY <1>10
<1>12. F \in [S -> Nat]
  <2> DEFINE P == {x \in S : F[x] \in Nat}
  <2>1. ASSUME NEW x \in S, \A y \in S : Posto(e)[y] < Posto(e)[x] => y \in P
        PROVE  x \in P
    <3> DEFINE dp == [y \in S |-> IF F[y] \in Nat THEN F[y] ELSE 0]
    <3>1. dp \in [S -> Nat]
      OBVIOUS
    <3>2. \A d \in Antes(x) : dp[<<Antes(x), d>>] = F[<<Antes(x), d>>]
      BY <2>1, PostoTipado, EstadosDaEntrada
    <3> HIDE DEF dp
    <3>3. Candidatos(e, dp, Antes(x), x[2]) = Candidatos(e, F, Antes(x), x[2])
      BY <3>2 DEF Candidatos
    <3>4. ValorDe(e, dp, x) = ValorDe(e, F, x)
      BY <3>3 DEF ValorDe
    <3>5. F[x] \in Nat
      BY <1>11, <3>1, <3>4, ValorNatural
    <3> QED
      BY <3>5
  <2>2. P = S
    <3>1. P \in SUBSET S
      OBVIOUS
    <3> HIDE DEF P, S
    <3> QED
      BY <2>1, <3>1, PostoTipado, InducaoPorPosto DEF S
  <2> QED
    BY <1>11, <2>2
<1> QED
  BY <1>11, <1>12 DEF F

-----------------------------------------------------------------------------
(* The paths through the table *)

LEMMA Estendida ==
    ASSUME NEW n \in Nat, NEW D, NEW s \in [1 .. n -> D], NEW v \in D
    PROVE  /\ Append(s, v) \in [1 .. n + 1 -> D]
           /\ Append(s, v)[n + 1] = v
           /\ \A k \in 1 .. n : Append(s, v)[k] = s[k]
<1> DEFINE t == Append(s, v)
<1>1. s \in Seq(D) /\ Len(s) = n
  OBVIOUS
<1> HIDE DEF t
<1>2. t \in Seq(D) /\ Len(t) = n + 1 /\ t[n + 1] = v /\ \A k \in 1 .. n : t[k] = s[k]
  BY <1>1 DEF t
<1>3. t \in [1 .. n + 1 -> D]
  BY <1>2
<1> QED
  BY <1>2, <1>3 DEF t

\* An order of the destinos of x that ends in x[2] and costs what dp says.
Chega(s, e, dp, x) ==
    LET n == Cardinality(x[1]) IN
    /\ s \in [1 .. n -> x[1]] /\ Range(s) = x[1]
    /\ s[n] = x[2]
    /\ Trajeto(e, s)[n] = dp[x]

LEMMA ChegaPrimeiro ==
    ASSUME NEW e, NEW N, Entrada(e, N), NEW dp, NEW x \in Estados(e), Antes(x) = {},
           dp[x] = ValorDe(e, dp, x)
    PROVE  Chega(<<x[2]>>, e, dp, x)
<1>1. x[1] = {x[2]} /\ x[2] \in 1 .. N /\ Cardinality(x[1]) = 1
  <2>1. x[2] \in x[1] /\ x[2] \in 1 .. N
    BY EstadosDaEntrada
  <2>2. x[1] = {x[2]}
    BY <2>1 DEF Antes
  <2> QED
    BY <2>1, <2>2, FS_Singleton
<1> DEFINE s == <<x[2]>>
<1>2. s \in [1 .. 1 -> x[1]] /\ Range(s) = x[1] /\ s[1] = x[2] /\ s \in [1 .. 1 -> 1 .. N]
  BY <1>1 DEF Range
<1>3. Trajeto(e, s)[1] = e.origem[s[1]]
  <2>1. 1 \in Nat \ {0} /\ s \in [1 .. 1 -> 1 .. N]
    BY <1>2
  <2> HIDE DEF s
  <2>2. Acumula(Trajeto(e, s), e, s, 1)
    BY <2>1, TrajetoPassos
  <2> QED
    BY <2>2 DEF Acumula
<1>4. dp[x] = e.origem[x[2]]
  BY DEF ValorDe
<1> HIDE DEF s
<1>5. Chega(s, e, dp, x)
  BY <1>1, <1>2, <1>3, <1>4 DEF Chega
<1> QED
  BY <1>5 DEF s

LEMMA ChegaDepois ==
    ASSUME NEW e, NEW N, Entrada(e, N), NEW dp, NEW x \in Estados(e), NEW d \in Antes(x), NEW s,
           dp[x] = dp[<<Antes(x), d>>] + e.entre[d][x[2]],
           Chega(s, e, dp, <<Antes(x), d>>)
    PROVE  Chega(Append(s, x[2]), e, dp, x)
<1> DEFINE m == Cardinality(x[1])
           n == Cardinality(Antes(x))
           z == Append(s, x[2])
<1>1. /\ <<Antes(x), d>>[1] = Antes(x) /\ <<Antes(x), d>>[2] = d
      /\ x[1] \in SUBSET (1 .. N) /\ x[2] \in x[1] /\ Antes(x) \in SUBSET x[1]
      /\ n = m - 1 /\ m \in Nat /\ x[1] = Antes(x) \cup {x[2]}
  BY EstadosDaEntrada DEF Antes
<1>2. n \in Nat /\ m = n + 1 /\ n # 0
  <2>1. n \in Nat /\ n # 0
    BY EstadosDaEntrada, FS_CardinalityType, FS_EmptySet
  <2> QED
    BY <1>1, <2>1
<1>3. /\ s \in [1 .. n -> Antes(x)] /\ Range(s) = Antes(x)
      /\ s[n] = d /\ Trajeto(e, s)[n] = dp[<<Antes(x), d>>]
  BY <1>1 DEF Chega
<1> HIDE DEF n, m
<1>4. z \in [1 .. n + 1 -> x[1]] /\ z[n + 1] = x[2] /\ \A k \in 1 .. n : z[k] = s[k]
  <2>1. s \in [1 .. n -> x[1]]
    BY <1>1, <1>3
  <2> QED
    BY <1>1, <1>2, <2>1, Estendida
<1> HIDE DEF z
<1>5. \A k \in 1 .. n : z[k] = s[k] /\ k \in 1 .. m
  BY <1>2, <1>4
<1>6. z[m] = x[2] /\ m \in 1 .. m
  BY <1>2, <1>4
<1>7. z \in [1 .. m -> x[1]]
  BY <1>2, <1>4
<1>8. Range(z) = x[1]
  <2>1. \A v \in x[1] : \E k \in 1 .. m : z[k] = v
    <3> TAKE v \in x[1]
    <3>1. CASE v = x[2]
      BY <1>6, <3>1
    <3>2. CASE v \in Antes(x)
      <4>1. PICK k \in 1 .. n : s[k] = v
        BY <1>3, <3>2 DEF Range
      <4> QED
        BY <1>5, <4>1
    <3> QED
      BY <1>1, <3>1, <3>2
  <2> QED
    BY <1>7, <2>1 DEF Range
<1>9. s \in [1 .. n -> 1 .. N] /\ z \in [1 .. m -> 1 .. N]
  <2>1. Antes(x) \in SUBSET (1 .. N)
    BY <1>1
  <2>2. s \in [1 .. n -> 1 .. N]
    BY <1>3, <2>1
  <2>3. z \in [1 .. m -> 1 .. N]
    BY <1>1, <1>7
  <2> QED
    BY <2>2, <2>3
<1>10. Acumula(Trajeto(e, s), e, s, n) /\ Acumula(Trajeto(e, z), e, z, m)
  <2>1. n \in Nat \ {0} /\ m \in Nat \ {0}
    BY <1>2
  <2>2. Acumula(Trajeto(e, s), e, s, n)
    BY <1>9, <2>1, TrajetoPassos
  <2>3. Acumula(Trajeto(e, z), e, z, m)
    BY <1>9, <2>1, TrajetoPassos
  <2> QED
    BY <2>2, <2>3
<1>11. Trajeto(e, s)[n] = Trajeto(e, z)[n]
  <2>1. n \in 1 .. n /\ n <= m /\ n \in Nat \ {0} /\ m \in Nat
    BY <1>2
  <2>2. \A k \in 1 .. n : s[k] = z[k]
    BY <1>5
  <2>3. \A k \in 1 .. n : Trajeto(e, s)[k] = Trajeto(e, z)[k]
    BY <1>10, <2>1, <2>2, AcumulaUnica
  <2> QED
    BY <2>1, <2>3
<1>12. Trajeto(e, z)[m] = Trajeto(e, z)[n] + e.entre[d][x[2]]
  <2>1. m \in 2 .. m /\ m - 1 = n /\ n \in 1 .. n
    BY <1>2
  <2>2. z[n] = d
    BY <1>3, <1>5, <2>1
  <2> QED
    BY <1>6, <1>10, <2>1, <2>2 DEF Acumula
<1>13. Trajeto(e, z)[m] = dp[x]
  BY <1>3, <1>11, <1>12
<1>14. Chega(z, e, dp, x)
  BY <1>6, <1>7, <1>8, <1>13 DEF Chega, m
<1> QED
  BY <1>14 DEF z

\* The destino the table has before x[2].
Pai(e, dp, x) == Primeiro(Antes(x), Candidatos(e, dp, Antes(x), x[2]))

LEMMA PaiEscolhe ==
    ASSUME NEW e, NEW N, Entrada(e, N), NEW dp \in [Estados(e) -> Nat], NEW x \in Estados(e),
           Antes(x) # {}
    PROVE  /\ Pai(e, dp, x) \in Antes(x)
           /\ ValorDe(e, dp, x) = dp[<<Antes(x), Pai(e, dp, x)>>] + e.entre[Pai(e, dp, x)][x[2]]
           /\ \A d \in Antes(x) : ValorDe(e, dp, x) <= dp[<<Antes(x), d>>] + e.entre[d][x[2]]
<1> DEFINE c == Candidatos(e, dp, Antes(x), x[2])
<1>1. /\ c \in [Antes(x) -> Nat] /\ Antes(x) \in SUBSET Nat
      /\ \A d \in Antes(x) : c[d] = dp[<<Antes(x), d>>] + e.entre[d][x[2]]
  BY CandidatosNaturais, EstadosDaEntrada
<1>2. Pai(e, dp, x) = Primeiro(Antes(x), c) /\ ValorDe(e, dp, x) = c[Primeiro(Antes(x), c)]
  BY DEF Pai, ValorDe
<1> HIDE DEF c
<1>3. Pai(e, dp, x) \in Antes(x) /\ \A d \in Antes(x) : c[Pai(e, dp, x)] <= c[d]
  BY <1>1, <1>2, PrimeiroEscolhe
<1> QED
  BY <1>1, <1>2, <1>3

LEMMA CaminhoPassos ==
    ASSUME NEW e, NEW N, Entrada(e, N), NEW dp \in [Estados(e) -> Nat]
    PROVE  \A x \in Estados(e) :
              Caminho(e, dp)[x] = IF Antes(x) = {} THEN <<x[2]>>
                                  ELSE Append(Caminho(e, dp)[<<Antes(x), Pai(e, dp, x)>>], x[2])
<1> DEFINE S == Estados(e)
           W == Seq(1 .. N)
           V == [x \in S |-> W]
           corpo(f, x) == IF Antes(x) = {} THEN <<x[2]>>
                          ELSE Append(f[<<Antes(x), Pai(e, dp, x)>>], x[2])
           G == [x \in S |-> [f \in Tipadas(S, V) |-> corpo(f, x)]]
           Passo(f) == f = [x \in S |-> corpo(f, x)]
           F == Caminho(e, dp)
<1>1. F = CHOOSE f : Passo(f)
  BY DEF Caminho, Antes, Pai
<1>2. \A f \in Tipadas(S, V) : f = [x \in S |-> f[x]] /\ \A x \in S : f[x] \in W
  BY DEF Tipadas
<1>3. ASSUME NEW x \in S, NEW f \in Tipadas(S, V) PROVE corpo(f, x) \in W
  <2>1. x[2] \in 1 .. N
    BY EstadosDaEntrada
  <2>2. CASE Antes(x) = {}
    BY <2>1, <2>2
  <2>3. CASE Antes(x) # {}
    <3>1. Pai(e, dp, x) \in Antes(x)
      BY <2>3, PaiEscolhe
    <3>2. <<Antes(x), Pai(e, dp, x)>> \in S
      BY <3>1, EstadosDaEntrada
    <3>3. f[<<Antes(x), Pai(e, dp, x)>>] \in W
      BY <1>2, <3>2
    <3>4. \A t \in Seq(1 .. N), v \in 1 .. N : Append(t, v) \in Seq(1 .. N)
      OBVIOUS
    <3>5. Append(f[<<Antes(x), Pai(e, dp, x)>>], x[2]) \in W
      BY <2>1, <3>3, <3>4
    <3> QED
      BY <2>3, <3>5
  <2> QED
    BY <2>2, <2>3
<1>4. ASSUME NEW x \in S, NEW f \in Tipadas(S, V), NEW g \in Tipadas(S, V),
             \A y \in S : Posto(e)[y] < Posto(e)[x] => f[y] = g[y]
      PROVE  corpo(f, x) = corpo(g, x)
  <2>1. CASE Antes(x) # {}
    <3>1. Pai(e, dp, x) \in Antes(x)
      BY <2>1, PaiEscolhe
    <3>2. f[<<Antes(x), Pai(e, dp, x)>>] = g[<<Antes(x), Pai(e, dp, x)>>]
      BY <1>4, <3>1, PostoTipado, EstadosDaEntrada
    <3> QED
      BY <3>2
  <2> QED
    BY <2>1
<1> HIDE DEF corpo, W
<1>5. \A x \in S, f \in Tipadas(S, V) : G[x][f] = corpo(f, x) /\ G[x][f] \in V[x]
  BY <1>3
<1>6. G \in [S -> [Tipadas(S, V) -> UNION {V[x] : x \in S}]]
  <2>1. \A x \in S, f \in Tipadas(S, V) : corpo(f, x) \in UNION {V[y] : y \in S}
    BY <1>3
  <2> QED
    BY <2>1
<1>7. \A x \in S : V[x] # {}
  <2>1. <<>> \in W
    BY DEF W
  <2> QED
    BY <2>1
<1>8. Gera(S, V, Posto(e), G)
  <2>1. \A x \in S, f, g \in Tipadas(S, V) :
           (\A y \in S : Posto(e)[y] < Posto(e)[x] => f[y] = g[y]) => G[x][f] = G[x][g]
    <3> HIDE DEF G, V, S
    <3> QED
      BY <1>4, <1>5
  <2>2. Posto(e) \in [S -> Nat]
    BY PostoTipado
  <2> HIDE DEF G, V, S
  <2> QED
    BY <1>5, <1>6, <1>7, <2>1, <2>2 DEF Gera
<1>9. PICK f \in Tipadas(S, V) : \A x \in S : f[x] = G[x][f]
  <2> HIDE DEF G, V, S
  <2> QED
    BY <1>8, RecursaoPorPosto
<1>10. Passo(f)
  <2>1. f = [x \in S |-> f[x]]
    BY <1>2
  <2> HIDE DEF G
  <2>2. \A x \in S : f[x] = corpo(f, x)
    BY <1>5, <1>9
  <2> QED
    BY <2>1, <2>2
<1>11. Passo(F)
  <2> HIDE DEF Passo, F
  <2> QED
    BY <1>1, <1>10
<1> HIDE DEF F
<1>12. \A x \in S : F[x] = corpo(F, x)
  BY <1>11
<1> QED
  BY <1>12 DEF F, corpo

\* Every path visits its destinos and costs what the table says.
LEMMA CaminhoChega ==
    ASSUME NEW e, NEW N, Entrada(e, N), NEW x \in Estados(e)
    PROVE  Chega(Caminho(e, Tabela(e))[x], e, Tabela(e), x)
<1> DEFINE dp == Tabela(e)
           S == Estados(e)
           F == Caminho(e, dp)
           P == {y \in S : Chega(F[y], e, dp, y)}
<1>1. dp \in [S -> Nat] /\ \A y \in S : dp[y] = ValorDe(e, dp, y)
  BY TabelaPassos
<1>2. ASSUME NEW y \in S, \A z \in S : Posto(e)[z] < Posto(e)[y] => z \in P
      PROVE  y \in P
  <2> HIDE DEF dp
  <2>1. CASE Antes(y) = {}
    <3>1. F[y] = <<y[2]>>
      BY <1>1, <2>1, CaminhoPassos
    <3>2. Chega(<<y[2]>>, e, dp, y)
      BY <1>1, <2>1, ChegaPrimeiro
    <3> QED
      BY <3>1, <3>2
  <2>2. CASE Antes(y) # {}
    <3> DEFINE d == Pai(e, dp, y)
               z == <<Antes(y), d>>
    <3>1. d \in Antes(y) /\ dp[y] = dp[z] + e.entre[d][y[2]]
      BY <1>1, <2>2, PaiEscolhe
    <3>2. z \in S /\ Posto(e)[z] < Posto(e)[y]
      BY <3>1, EstadosDaEntrada, PostoTipado
    <3>3. Chega(F[z], e, dp, z)
      BY <1>2, <3>2
    <3>4. F[y] = Append(F[z], y[2])
      BY <1>1, <2>2, CaminhoPassos
    <3> HIDE DEF F, d, S
    <3>5. Chega(Append(F[z], y[2]), e, dp, y)
      BY <3>1, <3>3, ChegaDepois DEF S
    <3> QED
      BY <3>4, <3>5
  <2> QED
    BY <2>1, <2>2
<1>3. P = S
  <2>1. P \in SUBSET S
    OBVIOUS
  <2> HIDE DEF P, S
  <2> QED
    BY <1>2, <2>1, PostoTipado, InducaoPorPosto DEF S
<1> QED
  BY <1>3

-----------------------------------------------------------------------------
(* No order costs less than the table says *)

LEMMA PermutacaoTipada ==
    ASSUME NEW e, NEW N, Entrada(e, N), NEW p
    PROVE  /\ p \in Permutacoes(e) <=> p \in [1 .. N -> 1 .. N] /\ Range(p) = 1 .. N
           /\ p \in Permutacoes(e) => Len(p) = N
<1>1. Indices(e) = 1 .. N
  BY IndicesDaEntrada
<1>2. N \in Nat
  BY DEF Entrada
<1> QED
  BY <1>1, <1>2 DEF Permutacoes

LEMMA PermutacaoInjetiva ==
    ASSUME NEW e, NEW N, Entrada(e, N), NEW p \in Permutacoes(e),
           NEW i \in 1 .. N, NEW j \in 1 .. N, p[i] = p[j]
    PROVE  i = j
<1>1. p \in [1 .. N -> 1 .. N] /\ Range(p) = 1 .. N
  BY PermutacaoTipada
<1>2. p \in Surjection(1 .. N, 1 .. N)
  BY <1>1 DEF Surjection, Range
<1>3. IsFiniteSet(1 .. N)
  BY IndicesDaEntrada
<1>4. p \in Injection(1 .. N, 1 .. N)
  BY <1>2, <1>3, FS_SurjSameCardinalityImpliesInj
<1> QED
  BY <1>4 DEF Injection, IsInjective

\* The first k destinos of an order.
Primeiros(p, k) == {p[i] : i \in 1 .. k}

LEMMA PrimeirosDaOrdem ==
    ASSUME NEW e, NEW N, Entrada(e, N), NEW p \in Permutacoes(e), NEW k \in 1 .. N
    PROVE  /\ <<Primeiros(p, k), p[k]>> \in Estados(e)
           /\ Antes(<<Primeiros(p, k), p[k]>>) = IF k = 1 THEN {} ELSE Primeiros(p, k - 1)
           /\ k # 1 => k - 1 \in 1 .. N /\ p[k - 1] \in Primeiros(p, k - 1)
<1>1. p \in [1 .. N -> 1 .. N] /\ k \in 1 .. k /\ N \in Nat /\ Indices(e) = 1 .. N
  <2>1. N \in Nat /\ k \in 1 .. k
    BY DEF Entrada
  <2> QED
    BY <2>1, PermutacaoTipada, IndicesDaEntrada
<1>2. \A i \in 1 .. k : i \in 1 .. N
  BY <1>1
<1>3. Primeiros(p, k) \in SUBSET (1 .. N) /\ p[k] \in Primeiros(p, k)
  BY <1>1, <1>2 DEF Primeiros
<1>4. <<Primeiros(p, k), p[k]>> \in Estados(e)
  BY <1>1, <1>3 DEF Estados
<1>5. Antes(<<Primeiros(p, k), p[k]>>) = {p[i] : i \in 1 .. k - 1}
  <2>1. \A i \in 1 .. k - 1 : i \in 1 .. k /\ i \in 1 .. N /\ i # k
    BY <1>1
  <2>2. \A i \in 1 .. k - 1 : p[i] # p[k]
    BY <2>1, PermutacaoInjetiva
  <2>3. \A i \in 1 .. k : i # k => i \in 1 .. k - 1
    BY <1>1
  <2> QED
    BY <2>1, <2>2, <2>3 DEF Antes, Primeiros
<1>6. k # 1 => k - 1 \in 1 .. N /\ k - 1 \in 1 .. k - 1
  BY <1>1
<1>7. k = 1 => 1 .. k - 1 = {}
  OBVIOUS
<1> QED
  BY <1>4, <1>5, <1>6, <1>7 DEF Primeiros

LEMMA TabelaMenor ==
    ASSUME NEW e, NEW N, Entrada(e, N), NEW p \in Permutacoes(e)
    PROVE  \A k \in 1 .. N : Tabela(e)[<<Primeiros(p, k), p[k]>>] <= Trajeto(e, p)[k]
<1> DEFINE dp == Tabela(e)
           t == Trajeto(e, p)
           x(k) == <<Primeiros(p, k), p[k]>>
           T == {k \in Nat : k + 1 <= N => dp[x(k + 1)] <= t[k + 1]}
<1>1. p \in [1 .. N -> 1 .. N] /\ N \in Nat \ {0}
  BY PermutacaoTipada DEF Entrada
<1>2. Acumula(t, e, p, N)
  BY <1>1, TrajetoPassos
<1>3. dp \in [Estados(e) -> Nat] /\ \A y \in Estados(e) : dp[y] = ValorDe(e, dp, y)
  BY TabelaPassos
<1> HIDE DEF dp, t
<1>4. 0 \in T
  <2>1. 1 \in 1 .. N
    BY <1>1
  <2>2. x(1) \in Estados(e) /\ Antes(x(1)) = {} /\ x(1)[2] = p[1]
    BY <2>1, PrimeirosDaOrdem
  <2>3. dp[x(1)] = e.origem[p[1]]
    BY <1>3, <2>2 DEF ValorDe
  <2>4. t[1] = e.origem[p[1]] /\ t[1] \in Nat
    BY <1>2, <2>1 DEF Acumula
  <2> QED
    BY <2>3, <2>4
<1>5. ASSUME NEW k \in T PROVE k + 1 \in T
  <2> SUFFICES ASSUME k + 2 <= N PROVE dp[x(k + 2)] <= t[k + 2]
    OBVIOUS
  <2> DEFINE d == p[k + 1]
             u == p[k + 2]
  <2>1. /\ k + 2 \in 1 .. N /\ k + 2 \in 2 .. N /\ k + 2 # 1 /\ (k + 2) - 1 = k + 1
        /\ k + 1 \in 1 .. N /\ d \in 1 .. N /\ u \in 1 .. N
    BY <1>1
  <2>2. /\ x(k + 2) \in Estados(e) /\ Antes(x(k + 2)) = Primeiros(p, k + 1)
        /\ d \in Primeiros(p, k + 1) /\ x(k + 2)[2] = u
    BY <2>1, PrimeirosDaOrdem
  <2>3. dp[x(k + 2)] <= dp[x(k + 1)] + e.entre[d][u]
    <3>1. Antes(x(k + 2)) # {} /\ d \in Antes(x(k + 2))
      BY <2>2
    <3> HIDE DEF d, u
    <3>2. ValorDe(e, dp, x(k + 2)) <= dp[<<Antes(x(k + 2)), d>>] + e.entre[d][x(k + 2)[2]]
      BY <1>3, <2>2, <3>1, PaiEscolhe
    <3> QED
      BY <1>3, <2>2, <3>2 DEF d
  <2>4. dp[x(k + 1)] <= t[k + 1]
    BY <2>1
  <2>5. t[k + 2] = t[k + 1] + e.entre[d][u]
    BY <1>2, <2>1 DEF Acumula
  <2>6. dp[x(k + 2)] \in Nat /\ dp[x(k + 1)] \in Nat /\ t[k + 1] \in Nat /\ e.entre[d][u] \in Nat
    <3>1. x(k + 1) \in Estados(e)
      BY <2>1, PrimeirosDaOrdem
    <3>2. e.entre[d][u] \in Nat
      BY <2>1 DEF Entrada
    <3>3. t[k + 1] \in Nat
      BY <1>2, <2>1 DEF Acumula
    <3> QED
      BY <1>3, <2>2, <3>1, <3>2, <3>3
  <2> HIDE DEF x, d, u
  <2> QED
    BY <2>3, <2>4, <2>5, <2>6
<1>6. T = Nat
  <2>1. T \in SUBSET Nat
    OBVIOUS
  <2> HIDE DEF T
  <2> QED
    BY <1>4, <1>5, <2>1, InducaoNatural
<1>7. ASSUME NEW k \in 1 .. N PROVE dp[x(k)] <= t[k]
  <2>1. k - 1 \in Nat /\ (k - 1) + 1 = k /\ k <= N
    BY <1>1
  <2>2. k - 1 \in T
    BY <1>6, <2>1
  <2> HIDE DEF x
  <2> QED
    BY <2>1, <2>2
<1> QED
  BY <1>7 DEF dp, t

\* ordenarHeldKarp, for any number of destinos and any durations, even with other
\* ones in the other direction: every destino once, and no order of them takes less
\* time from the origin through all of them to the end.
THEOREM HeldKarpOtimo ==
    ASSUME NEW e, NEW N, Entrada(e, N)
    PROVE  /\ HeldKarp(e) \in Permutacoes(e)
           /\ \A p \in Permutacoes(e) : Custo(e, HeldKarp(e)) <= Custo(e, p)
<1> DEFINE todos == 1 .. N
           dp == Tabela(e)
           c == [d \in todos |-> dp[<<todos, d>>] + e.final[d]]
           fim == Primeiro(todos, c)
           h == Caminho(e, dp)[<<todos, fim>>]
<1>1. /\ Indices(e) = todos /\ Cardinality(todos) = N /\ IsFiniteSet(todos)
      /\ N \in Nat \ {0} /\ todos \in SUBSET Nat /\ N \in todos
  <2>1. N \in Nat \ {0}
    BY DEF Entrada
  <2>2. todos \in SUBSET Nat /\ N \in todos
    BY <2>1
  <2> QED
    BY <2>1, <2>2, IndicesDaEntrada
<1>2. HeldKarp(e) = h
  BY <1>1 DEF HeldKarp
<1>3. dp \in [Estados(e) -> Nat]
  BY TabelaPassos
<1>4. \A d \in todos : <<todos, d>> \in Estados(e) /\ <<todos, d>>[1] = todos /\ <<todos, d>>[2] = d
  BY <1>1 DEF Estados
<1>5. c \in [todos -> Nat]
  <2>1. \A d \in todos : dp[<<todos, d>>] \in Nat /\ e.final[d] \in Nat
    BY <1>3, <1>4 DEF Entrada
  <2> QED
    BY <2>1
<1>6. \A d \in todos : c[d] = dp[<<todos, d>>] + e.final[d]
  OBVIOUS
<1> HIDE DEF c
<1>7. fim \in todos /\ \A d \in todos : c[fim] <= c[d]
  <2>1. todos # {}
    BY <1>1
  <2> QED
    BY <1>1, <1>5, <2>1, PrimeiroEscolhe
<1>8. Chega(h, e, dp, <<todos, fim>>)
  <2>1. <<todos, fim>> \in Estados(e)
    BY <1>4, <1>7
  <2> HIDE DEF fim
  <2> QED
    BY <2>1, CaminhoChega
<1> HIDE DEF h, fim, dp
<1>9. /\ h \in [1 .. N -> todos] /\ Range(h) = todos
      /\ h[N] = fim /\ Trajeto(e, h)[N] = dp[<<todos, fim>>]
  BY <1>1, <1>4, <1>7, <1>8 DEF Chega
<1>10. h \in Permutacoes(e)
  BY <1>9, PermutacaoTipada
<1>11. Custo(e, h) = c[fim]
  BY <1>1, <1>6, <1>7, <1>9, CustoNatural
<1>12. ASSUME NEW p \in Permutacoes(e) PROVE Custo(e, h) <= Custo(e, p)
  <2>1. p \in [1 .. N -> 1 .. N] /\ Range(p) = todos /\ p[N] \in todos
    BY <1>1, PermutacaoTipada
  <2>2. Primeiros(p, N) = todos
    BY <2>1 DEF Primeiros, Range
  <2>3. dp[<<todos, p[N]>>] <= Trajeto(e, p)[N]
    BY <1>1, <2>2, TabelaMenor DEF dp
  <2>4. Custo(e, p) = Trajeto(e, p)[N] + e.final[p[N]]
    BY <1>1, <2>1, CustoNatural
  <2>5. c[fim] <= c[p[N]] /\ c[p[N]] = dp[<<todos, p[N]>>] + e.final[p[N]]
    BY <1>6, <1>7, <2>1
  <2>6. dp[<<todos, p[N]>>] \in Nat /\ e.final[p[N]] \in Nat /\ Trajeto(e, p)[N] \in Nat
        /\ c[fim] \in Nat
    <3>1. Acumula(Trajeto(e, p), e, p, N)
      BY <1>1, <2>1, TrajetoPassos
    <3>2. Trajeto(e, p)[N] \in Nat
      BY <1>1, <3>1 DEF Acumula
    <3>3. e.final[p[N]] \in Nat
      BY <2>1 DEF Entrada
    <3> QED
      BY <1>3, <1>4, <1>5, <1>7, <2>1, <3>2, <3>3
  <2> QED
    BY <1>11, <2>3, <2>4, <2>5, <2>6
<1> QED
  BY <1>2, <1>10, <1>12 DEF h

-----------------------------------------------------------------------------
(* The nearest neighbours *)

\* The first k of an order in which nobody comes twice.
SemRepetir(N, k) == {s \in [1 .. k -> 1 .. N] : IsInjective(s)}

\* As long as some are missing the loop finds one.
LEMMA FaltaUm ==
    ASSUME NEW e, NEW N, Entrada(e, N), NEW k \in Nat, k < N, NEW s \in SemRepetir(N, k)
    PROVE  (1 .. N) \ Range(s) # {}
<1>1. SUFFICES ASSUME Range(s) = 1 .. N PROVE FALSE
  <2>1. Range(s) \in SUBSET (1 .. N)
    BY DEF SemRepetir, Range
  <2> QED
    BY <2>1
<1>2. N \in Nat
  BY DEF Entrada
<1>3. IsFiniteSet(1 .. k) /\ Cardinality(1 .. k) = k
  <2>1. IsFiniteSet(1 .. k) /\ Cardinality(1 .. k) = IF 1 > k THEN 0 ELSE k - 1 + 1
    BY FS_Interval
  <2> QED
    BY <2>1
<1>4. s \in Surjection(1 .. k, 1 .. N)
  BY <1>1 DEF Surjection, SemRepetir, Range
<1>5. Cardinality(1 .. N) <= k
  BY <1>3, <1>4, FS_Surjection
<1>6. N <= k
  BY <1>5, IndicesDaEntrada
<1> QED
  BY <1>2, <1>6

\* ordenarVizinhoMaisProximoMatriz appends the nearest that is missing.
Seguinte(e, s, k) == Append(s, Primeiro(Indices(e) \ Range(s), e.entre[s[k]]))

LEMMA SeguinteTipado ==
    ASSUME NEW e, NEW N, Entrada(e, N), NEW k \in Nat \ {0}, k < N, NEW s \in SemRepetir(N, k)
    PROVE  Seguinte(e, s, k) \in SemRepetir(N, k + 1)
<1> DEFINE S == (1 .. N) \ Range(s)
           prox == Primeiro(S, e.entre[s[k]])
           z == Append(s, prox)
<1>1. Seguinte(e, s, k) = z
  BY IndicesDaEntrada DEF Seguinte
<1>2. s \in [1 .. k -> 1 .. N] /\ IsInjective(s) /\ k \in 1 .. k
  BY DEF SemRepetir
<1>3. S \in SUBSET Nat /\ S # {}
  BY FaltaUm
<1>4. \A o \in S : e.entre[s[k]][o] \in Nat
  <2>1. s[k] \in 1 .. N
    BY <1>2
  <2> QED
    BY <2>1 DEF Entrada
<1>5. prox \in S
  <2> HIDE DEF S
  <2> QED
    BY <1>3, <1>4, PrimeiroEscolhe
<1>6. prox \in 1 .. N /\ \A i \in 1 .. k : s[i] # prox
  BY <1>2, <1>5 DEF Range
<1> HIDE DEF prox, S
<1>7. z \in [1 .. k + 1 -> 1 .. N] /\ z[k + 1] = prox /\ \A i \in 1 .. k : z[i] = s[i]
  <2> DEFINE D == 1 .. N
  <2>1. k \in Nat /\ s \in [1 .. k -> D] /\ prox \in D
    BY <1>2, <1>6
  <2>2. z \in [1 .. k + 1 -> D] /\ z[k + 1] = prox /\ \A i \in 1 .. k : z[i] = s[i]
    <3> HIDE DEF D
    <3> QED
      BY <2>1, Estendida
  <2> QED
    BY <2>2
<1> HIDE DEF z
<1>8. \A i \in 1 .. k + 1 : i # k + 1 => i \in 1 .. k
  OBVIOUS
<1>9. IsInjective(z)
  <2>1. ASSUME NEW i \in 1 .. k + 1, NEW j \in 1 .. k + 1, z[i] = z[j] PROVE i = j
    <3>1. \A m \in 1 .. k : z[m] = s[m] /\ z[m] # prox
      BY <1>6, <1>7
    <3>2. z[k + 1] = prox
      BY <1>7
    <3>3. CASE i = k + 1 \/ j = k + 1
      BY <1>8, <2>1, <3>1, <3>2, <3>3
    <3>4. CASE i # k + 1 /\ j # k + 1
      BY <1>2, <1>8, <2>1, <3>1, <3>4 DEF IsInjective
    <3> QED
      BY <3>3, <3>4
  <2> QED
    BY <1>7, <2>1 DEF IsInjective
<1> QED
  BY <1>1, <1>7, <1>9 DEF SemRepetir, z

LEMMA VizinhosPassos ==
    ASSUME NEW e, NEW N, Entrada(e, N), NEW inicio \in 1 .. N
    PROVE  \A k \in 1 .. N : Vizinhos(e, inicio)[k] \in SemRepetir(N, k)
<1> DEFINE S == 1 .. N
           r == [k \in S |-> k]
           V == [k \in S |-> SemRepetir(N, k)]
           corpo(f, k) == IF k = 1 THEN <<inicio>> ELSE Seguinte(e, f[k - 1], k - 1)
           G == [k \in S |-> [f \in Tipadas(S, V) |-> corpo(f, k)]]
           Passo(f) == f = [k \in S |-> corpo(f, k)]
           F == Vizinhos(e, inicio)
<1>1. F = CHOOSE f : Passo(f)
  <2>1. Indices(e) = S
    BY IndicesDaEntrada
  <2>2. F = CHOOSE f : f = [k \in Indices(e) |-> corpo(f, k)]
    BY DEF Vizinhos, Seguinte
  <2> QED
    BY <2>1, <2>2
<1>2. N \in Nat \ {0}
  BY DEF Entrada
<1>3. \A f \in Tipadas(S, V) : f = [k \in S |-> f[k]] /\ \A k \in S : f[k] \in SemRepetir(N, k)
  BY DEF Tipadas
<1>4. <<inicio>> \in SemRepetir(N, 1)
  BY DEF SemRepetir, IsInjective
<1>5. ASSUME NEW k \in S, NEW f, k = 1 \/ f[k - 1] \in SemRepetir(N, k - 1)
      PROVE  corpo(f, k) \in SemRepetir(N, k)
  <2>1. CASE k = 1
    BY <1>4, <2>1
  <2>2. CASE k # 1
    <3>1. k - 1 \in Nat \ {0} /\ k - 1 < N /\ (k - 1) + 1 = k
      BY <1>2, <2>2
    <3>2. Seguinte(e, f[k - 1], k - 1) \in SemRepetir(N, (k - 1) + 1)
      BY <1>5, <2>2, <3>1, SeguinteTipado
    <3> QED
      BY <2>2, <3>1, <3>2
  <2> QED
    BY <2>1, <2>2
<1>6. ASSUME NEW k \in S, NEW f \in Tipadas(S, V) PROVE corpo(f, k) \in SemRepetir(N, k)
  <2>1. k = 1 \/ k - 1 \in S
    BY <1>2
  <2> HIDE DEF corpo
  <2> QED
    BY <1>3, <1>5, <2>1
<1>7. ASSUME NEW k \in S, NEW f \in Tipadas(S, V), NEW g \in Tipadas(S, V),
             \A y \in S : r[y] < r[k] => f[y] = g[y]
      PROVE  corpo(f, k) = corpo(g, k)
  <2>1. k # 1 => k - 1 \in S /\ r[k - 1] < r[k]
    BY <1>2
  <2> QED
    BY <1>7, <2>1
<1> HIDE DEF corpo
<1>8. \A k \in S, f \in Tipadas(S, V) : G[k][f] = corpo(f, k) /\ G[k][f] \in V[k]
  BY <1>6
<1>9. G \in [S -> [Tipadas(S, V) -> UNION {V[k] : k \in S}]]
  <2>1. \A k \in S, f \in Tipadas(S, V) : corpo(f, k) \in UNION {V[y] : y \in S}
    BY <1>6
  <2> QED
    BY <2>1
<1>10. \A k \in S : V[k] # {}
  <2>1. ASSUME NEW k \in S PROVE [i \in 1 .. k |-> i] \in SemRepetir(N, k)
    BY <1>2 DEF SemRepetir, IsInjective
  <2> QED
    BY <2>1
<1>11. Gera(S, V, r, G)
  <2>1. \A k \in S, f, g \in Tipadas(S, V) :
           (\A y \in S : r[y] < r[k] => f[y] = g[y]) => G[k][f] = G[k][g]
    <3> HIDE DEF G, V, S, r
    <3> QED
      BY <1>7, <1>8
  <2>2. r \in [S -> Nat]
    OBVIOUS
  <2> HIDE DEF G, V, S, r
  <2> QED
    BY <1>8, <1>9, <1>10, <2>1, <2>2 DEF Gera
<1>12. PICK f \in Tipadas(S, V) : \A k \in S : f[k] = G[k][f]
  <2> HIDE DEF G, V, S, r
  <2> QED
    BY <1>11, RecursaoPorPosto
<1>13. Passo(f)
  <2>1. f = [k \in S |-> f[k]]
    BY <1>3
  <2> HIDE DEF G
  <2>2. \A k \in S : f[k] = corpo(f, k)
    BY <1>8, <1>12
  <2> QED
    BY <2>1, <2>2
<1>14. Passo(F)
  <2> HIDE DEF Passo, F
  <2> QED
    BY <1>1, <1>13
<1> HIDE DEF F
<1>15. \A k \in S : F[k] = corpo(F, k)
  BY <1>14
<1> DEFINE P == {k \in S : F[k] \in SemRepetir(N, k)}
<1>16. ASSUME NEW k \in S, \A y \in S : r[y] < r[k] => y \in P PROVE k \in P
  <2>1. k # 1 => k - 1 \in S /\ r[k - 1] < r[k]
    BY <1>2
  <2>2. corpo(F, k) \in SemRepetir(N, k)
    BY <1>5, <1>16, <2>1
  <2> QED
    BY <1>15, <2>2
<1>17. P = S
  <2>1. P \in SUBSET S /\ r \in [S -> Nat]
    OBVIOUS
  <2> HIDE DEF P, S, r
  <2> QED
    BY <1>16, <2>1, InducaoPorPosto
<1> QED
  BY <1>17 DEF F

\* A nearest neighbour order has every destino once.
LEMMA VizinhoPermuta ==
    ASSUME NEW e, NEW N, Entrada(e, N), NEW inicio \in 1 .. N
    PROVE  VizinhoMaisProximo(e, inicio) \in Permutacoes(e)
<1> DEFINE s == VizinhoMaisProximo(e, inicio)
<1>1. N \in 1 .. N /\ s = Vizinhos(e, inicio)[N]
  <2>1. N \in 1 .. N
    BY DEF Entrada
  <2> QED
    BY <2>1, IndicesDaEntrada DEF VizinhoMaisProximo
<1>2. s \in SemRepetir(N, N)
  BY <1>1, VizinhosPassos
<1>3. s \in [1 .. N -> 1 .. N] /\ IsInjective(s)
  BY <1>2 DEF SemRepetir
<1> HIDE DEF s
<1>4. s \in Injection(1 .. N, 1 .. N)
  BY <1>3 DEF Injection, IsInjective
<1>5. IsFiniteSet(1 .. N)
  BY IndicesDaEntrada
<1>6. s \in Surjection(1 .. N, 1 .. N)
  BY <1>4, <1>5, FS_Injection
<1>7. Range(s) = 1 .. N
  BY <1>6 DEF Surjection, Range
<1>8. s \in Permutacoes(e)
  BY <1>3, <1>7, PermutacaoTipada
<1> QED
  BY <1>8 DEF s

-----------------------------------------------------------------------------
(* 2-opt *)

LEMMA InverterPermuta ==
    ASSUME NEW e, NEW N, Entrada(e, N), NEW p \in Permutacoes(e), NEW i \in 1 .. N, NEW j \in 1 .. N
    PROVE  Inverter(p, i, j) \in Permutacoes(e)
<1> DEFINE q == Inverter(p, i, j)
           espelho(k) == IF i <= k /\ k <= j THEN i + j - k ELSE k
<1>1. p \in [1 .. N -> 1 .. N] /\ Range(p) = 1 .. N
  BY PermutacaoTipada
<1>2. \A k \in 1 .. N : espelho(k) \in 1 .. N /\ espelho(espelho(k)) = k
  <2> TAKE k \in 1 .. N
  <2>1. N \in Nat /\ k \in Int /\ i \in Int /\ j \in Int /\ 1 <= k /\ k <= N /\ 1 <= i /\ j <= N
    BY DEF Entrada
  <2>2. CASE i <= k /\ k <= j
    <3>1. espelho(k) = i + j - k /\ i <= i + j - k /\ i + j - k <= j
      BY <2>1, <2>2
    <3>2. espelho(i + j - k) = i + j - (i + j - k)
      BY <3>1
    <3> QED
      BY <2>1, <3>1, <3>2
  <2>3. CASE ~(i <= k /\ k <= j)
    <3>1. espelho(k) = k
      BY <2>3
    <3> QED
      BY <3>1
  <2> QED
    BY <2>2, <2>3
<1>3. q = [k \in 1 .. N |-> p[espelho(k)]]
  BY <1>1 DEF Inverter
<1> HIDE DEF espelho, q
<1>4. q \in [1 .. N -> 1 .. N]
  BY <1>1, <1>2, <1>3
<1>5. \A v \in 1 .. N : \E k \in 1 .. N : q[k] = v
  <2> TAKE v \in 1 .. N
  <2>1. PICK k \in 1 .. N : p[k] = v
    BY <1>1 DEF Range
  <2>2. q[espelho(k)] = v /\ espelho(k) \in 1 .. N
    BY <1>2, <1>3, <2>1
  <2> QED
    BY <2>2
<1>6. Range(q) = 1 .. N
  BY <1>4, <1>5 DEF Range
<1>7. q \in Permutacoes(e)
  BY <1>4, <1>6, PermutacaoTipada
<1> QED
  BY <1>7 DEF q

LEMMA CustoDePermutacao ==
    ASSUME NEW e, NEW N, Entrada(e, N), NEW p \in Permutacoes(e)
    PROVE  Custo(e, p) \in Nat
<1>1. N \in Nat \ {0}
  BY DEF Entrada
<1>2. p \in [1 .. N -> 1 .. N]
  BY PermutacaoTipada
<1> QED
  BY <1>1, <1>2, CustoNatural

\* The reversal is kept only if it is better.
LEMMA Troca ==
    ASSUME NEW e, NEW N, Entrada(e, N), NEW p \in Permutacoes(e), NEW i \in 1 .. N, NEW j \in 1 .. N
    PROVE  /\ Trocar(e, p, i, j) \in Permutacoes(e)
           /\ \/ Trocar(e, p, i, j) = p /\ Custo(e, p) <= Custo(e, Inverter(p, i, j))
              \/ Custo(e, Trocar(e, p, i, j)) < Custo(e, p)
<1>1. Inverter(p, i, j) \in Permutacoes(e)
  BY InverterPermuta
<1>2. Custo(e, p) \in Nat /\ Custo(e, Inverter(p, i, j)) \in Nat
  BY <1>1, CustoDePermutacao
<1> QED
  BY <1>1, <1>2 DEF Trocar

LEMMA LinhaPassos ==
    ASSUME NEW e, NEW N, Entrada(e, N), NEW p \in Permutacoes(e), NEW i \in 1 .. N
    PROVE  /\ Linha(e, p, i) \in [0 .. N -> Permutacoes(e)]
           /\ Linha(e, p, i)[0] = p
           /\ \A j \in 1 .. N : Linha(e, p, i)[j] = IF j <= i THEN p
                                                    ELSE Trocar(e, Linha(e, p, i)[j - 1], i, j)
<1> DEFINE V == Permutacoes(e)
           G == [j \in 1 .. N |-> [q \in V |-> IF j <= i THEN p ELSE Trocar(e, q, i, j)]]
           Passo(f) == f = [j \in 0 .. N |-> IF j <= i THEN p ELSE Trocar(e, f[j - 1], i, j)]
           F == Linha(e, p, i)
<1>1. N \in Nat /\ Len(p) = N
  BY PermutacaoTipada DEF Entrada
<1>2. F = CHOOSE f : Passo(f)
  BY <1>1 DEF Linha
<1>3. \A j \in 1 .. N, q \in V : (IF j <= i THEN p ELSE Trocar(e, q, i, j)) \in V
  BY Troca
<1>4. G \in [1 .. N -> [V -> V]] /\ p \in V
  BY <1>3
<1>5. PICK g : Recorre(g, N, V, p, G)
  <2> HIDE DEF G, V
  <2> QED
    BY <1>1, <1>4, RecursaoFinita
<1>6. g \in [0 .. N -> V] /\ g[0] = p /\ \A j \in 1 .. N : g[j] = G[j][g[j - 1]]
  <2> HIDE DEF G, V
  <2> QED
    BY <1>5 DEF Recorre
<1>7. \A j \in 1 .. N : g[j] = IF j <= i THEN p ELSE Trocar(e, g[j - 1], i, j)
  <2> TAKE j \in 1 .. N
  <2>1. j - 1 \in 0 .. N
    BY <1>1
  <2>2. g[j - 1] \in V
    BY <1>6, <2>1
  <2> HIDE DEF V
  <2> QED
    BY <1>6, <2>2
<1>8. Passo(g)
  <2>1. \A j \in 0 .. N : j = 0 \/ j \in 1 .. N
    BY <1>1
  <2>2. 0 <= i
    OBVIOUS
  <2> HIDE DEF G
  <2>3. \A j \in 0 .. N : g[j] = IF j <= i THEN p ELSE Trocar(e, g[j - 1], i, j)
    BY <1>6, <1>7, <2>1, <2>2
  <2>4. g = [j \in 0 .. N |-> g[j]]
    BY <1>6
  <2> QED
    BY <2>3, <2>4
<1>9. Passo(F)
  <2> HIDE DEF Passo, F
  <2> QED
    BY <1>2, <1>8
<1> HIDE DEF F, G
<1>10. \A j \in 0 .. N : F[j] = IF j <= i THEN p ELSE Trocar(e, F[j - 1], i, j)
  BY <1>9
<1>11. 0 \in 0 .. N /\ 0 <= i /\ \A j \in 1 .. N : j \in 0 .. N
  BY <1>1
<1>12. F[0] = p /\ \A j \in 1 .. N : F[j] = IF j <= i THEN p ELSE Trocar(e, F[j - 1], i, j)
  BY <1>10, <1>11
<1> DEFINE T == {j \in Nat : j <= N => F[j] \in V}
<1>13. T = Nat
  <2>1. 0 \in T
    BY <1>12
  <2>2. ASSUME NEW j \in T PROVE j + 1 \in T
    <3> SUFFICES ASSUME j + 1 <= N PROVE F[j + 1] \in V
      OBVIOUS
    <3>1. j + 1 \in 1 .. N /\ (j + 1) - 1 = j /\ j <= N
      BY <1>1
    <3>2. F[j] \in V
      BY <3>1
    <3>3. F[j + 1] = IF j + 1 <= i THEN p ELSE Trocar(e, F[j], i, j + 1)
      BY <1>12, <3>1
    <3> QED
      BY <1>3, <3>1, <3>2, <3>3
  <2>3. T \in SUBSET Nat
    OBVIOUS
  <2> HIDE DEF T
  <2> QED
    BY <2>1, <2>2, <2>3, InducaoNatural
<1>14. \A j \in 0 .. N : F[j] \in V
  BY <1>1, <1>13
<1>15. F = [j \in 0 .. N |-> F[j]]
  BY <1>9
<1> QED
  BY <1>12, <1>14, <1>15 DEF F

\* Nothing from i on makes q shorter.
SemGanho(e, q, i, k) == \A j \in i + 1 .. k : Custo(e, q) <= Custo(e, Inverter(q, i, j))

\* The inner loop ends where it began, when no segment from i was worth a
\* reversal, or with something shorter.
LEMMA LinhaMelhora ==
    ASSUME NEW e, NEW N, Entrada(e, N), NEW p \in Permutacoes(e), NEW i \in 1 .. N
    PROVE  /\ Linha(e, p, i)[N] \in Permutacoes(e)
           /\ \/ Linha(e, p, i)[N] = p /\ SemGanho(e, p, i, N)
              \/ Custo(e, Linha(e, p, i)[N]) < Custo(e, p)
<1> DEFINE L == Linha(e, p, i)
           Bom(j) == (L[j] = p /\ SemGanho(e, p, i, j)) \/ Custo(e, L[j]) < Custo(e, p)
           T == {j \in Nat : j <= N => Bom(j)}
<1>1. /\ L \in [0 .. N -> Permutacoes(e)] /\ L[0] = p
      /\ \A j \in 1 .. N : L[j] = IF j <= i THEN p ELSE Trocar(e, L[j - 1], i, j)
  BY LinhaPassos
<1>2. N \in Nat
  BY DEF Entrada
<1> HIDE DEF L
<1>3. 0 \in T
  BY <1>1 DEF SemGanho
<1>4. ASSUME NEW j \in T PROVE j + 1 \in T
  <2> SUFFICES ASSUME j + 1 <= N PROVE Bom(j + 1)
    OBVIOUS
  <2>1. j \in Nat /\ j + 1 \in 1 .. N /\ (j + 1) - 1 = j /\ j \in 0 .. N /\ j + 1 \in 0 .. N
    BY <1>2
  <2>2. Bom(j) /\ L[j] \in Permutacoes(e)
    BY <1>1, <1>2, <2>1
  <2>3. CASE j + 1 <= i
    <3>1. L[j + 1] = p
      BY <1>1, <2>1, <2>3
    <3>2. SemGanho(e, p, i, j + 1)
      BY <2>1, <2>3 DEF SemGanho
    <3> QED
      BY <3>1, <3>2
  <2>4. CASE ~(j + 1 <= i)
    <3>1. L[j + 1] = Trocar(e, L[j], i, j + 1)
      BY <1>1, <2>1, <2>4
    <3>2. /\ L[j + 1] \in Permutacoes(e)
          /\ \/ L[j + 1] = L[j] /\ Custo(e, L[j]) <= Custo(e, Inverter(L[j], i, j + 1))
             \/ Custo(e, L[j + 1]) < Custo(e, L[j])
      BY <2>1, <2>2, <3>1, Troca
    <3>3. Custo(e, p) \in Nat /\ Custo(e, L[j]) \in Nat /\ Custo(e, L[j + 1]) \in Nat
      BY <2>2, <3>2, CustoDePermutacao
    <3>4. CASE Custo(e, L[j]) < Custo(e, p)
      BY <3>2, <3>3, <3>4
    <3>5. CASE L[j] = p /\ SemGanho(e, p, i, j)
      <4>1. CASE Custo(e, L[j + 1]) < Custo(e, L[j])
        BY <3>5, <4>1
      <4>2. CASE L[j + 1] = L[j] /\ Custo(e, L[j]) <= Custo(e, Inverter(L[j], i, j + 1))
        <5>1. \A m \in i + 1 .. j + 1 : m = j + 1 \/ m \in i + 1 .. j
          BY <2>1
        <5>2. SemGanho(e, p, i, j + 1)
          BY <3>5, <4>2, <5>1 DEF SemGanho
        <5> QED
          BY <3>5, <4>2, <5>2
      <4> QED
        BY <3>2, <4>1, <4>2
    <3> QED
      BY <2>2, <3>4, <3>5
  <2> QED
    BY <2>3, <2>4
<1>5. T = Nat
  <2>1. T \in SUBSET Nat
    OBVIOUS
  <2> HIDE DEF T
  <2> QED
    BY <1>3, <1>4, <2>1, InducaoNatural
<1>6. Bom(N)
  <2>1. N \in T /\ N <= N
    BY <1>2, <1>5
  <2> HIDE DEF Bom
  <2> QED
    BY <2>1
<1>7. L[N] \in Permutacoes(e)
  BY <1>1, <1>2
<1> QED
  BY <1>6, <1>7 DEF L

LEMMA RodadaPassos ==
    ASSUME NEW e, NEW N, Entrada(e, N), NEW p \in Permutacoes(e)
    PROVE  /\ Rodada(e, p) \in [0 .. N - 1 -> Permutacoes(e)]
           /\ Rodada(e, p)[0] = p
           /\ \A i \in 1 .. N - 1 : Rodada(e, p)[i] = Linha(e, Rodada(e, p)[i - 1], i)[N]
<1> DEFINE V == Permutacoes(e)
           M == N - 1
           G == [i \in 1 .. M |-> [q \in V |-> Linha(e, q, i)[N]]]
           Passo(f) == f = [i \in 0 .. M |-> IF i = 0 THEN p ELSE Linha(e, f[i - 1], i)[N]]
           F == Rodada(e, p)
<1>1. N \in Nat /\ Len(p) = N /\ M \in Nat
  <2>1. N \in Nat \ {0}
    BY DEF Entrada
  <2> QED
    BY <2>1, PermutacaoTipada
<1>2. F = CHOOSE f : Passo(f)
  BY <1>1 DEF Rodada
<1>3. \A i \in 1 .. M, q \in V : Linha(e, q, i)[N] \in V
  <2>1. \A i \in 1 .. M : i \in 1 .. N
    BY <1>1
  <2> QED
    BY <2>1, LinhaMelhora
<1>4. G \in [1 .. M -> [V -> V]] /\ p \in V
  BY <1>3
<1>5. PICK g : Recorre(g, M, V, p, G)
  <2> HIDE DEF G, V, M
  <2> QED
    BY <1>1, <1>4, RecursaoFinita
<1>6. g \in [0 .. M -> V] /\ g[0] = p /\ \A i \in 1 .. M : g[i] = G[i][g[i - 1]]
  <2> HIDE DEF G, V, M
  <2> QED
    BY <1>5 DEF Recorre
<1>7. \A i \in 1 .. M : g[i] = Linha(e, g[i - 1], i)[N]
  <2> TAKE i \in 1 .. M
  <2>1. i - 1 \in 0 .. M
    BY <1>1
  <2>2. g[i - 1] \in V
    BY <1>6, <2>1
  <2> HIDE DEF V, M
  <2> QED
    BY <1>6, <2>2
<1>8. Passo(g)
  <2>1. \A i \in 0 .. M : i = 0 \/ i \in 1 .. M
    BY <1>1
  <2> HIDE DEF G, M
  <2>2. \A i \in 0 .. M : g[i] = IF i = 0 THEN p ELSE Linha(e, g[i - 1], i)[N]
    BY <1>6, <1>7, <2>1
  <2>3. g = [i \in 0 .. M |-> g[i]]
    BY <1>6
  <2> QED
    BY <2>2, <2>3
<1>9. Passo(F)
  <2> HIDE DEF Passo, F
  <2> QED
    BY <1>2, <1>8
<1> HIDE DEF F, G
<1>10. \A i \in 0 .. M : F[i] = IF i = 0 THEN p ELSE Linha(e, F[i - 1], i)[N]
  BY <1>9
<1>11. 0 \in 0 .. M /\ \A i \in 1 .. M : i \in 0 .. M /\ i # 0
  BY <1>1
<1>12. F[0] = p /\ \A i \in 1 .. M : F[i] = Linha(e, F[i - 1], i)[N]
  BY <1>10, <1>11
<1> DEFINE T == {i \in Nat : i <= M => F[i] \in V}
<1>13. T = Nat
  <2>1. 0 \in T
    BY <1>12
  <2>2. ASSUME NEW i \in T PROVE i + 1 \in T
    <3> SUFFICES ASSUME i + 1 <= M PROVE F[i + 1] \in V
      OBVIOUS
    <3>1. i + 1 \in 1 .. M /\ (i + 1) - 1 = i /\ i <= M
      BY <1>1
    <3>2. F[i] \in V
      BY <3>1
    <3>3. F[i + 1] = Linha(e, F[i], i + 1)[N]
      BY <1>12, <3>1
    <3> QED
      BY <1>3, <3>1, <3>2, <3>3
  <2>3. T \in SUBSET Nat
    OBVIOUS
  <2> HIDE DEF T
  <2> QED
    BY <2>1, <2>2, <2>3, InducaoNatural
<1>14. \A i \in 0 .. M : F[i] \in V
  BY <1>1, <1>13
<1>15. F = [i \in 0 .. M |-> F[i]]
  BY <1>9
<1> QED
  BY <1>12, <1>14, <1>15 DEF F

\* A round ends where it began, when no segment was worth a reversal, or with
\* something shorter.
LEMMA RodadaMelhora ==
    ASSUME NEW e, NEW N, Entrada(e, N), NEW p \in Permutacoes(e)
    PROVE  /\ Rodada(e, p)[Len(p) - 1] \in Permutacoes(e)
           /\ \/ /\ Rodada(e, p)[Len(p) - 1] = p
                 /\ \A i \in 1 .. N - 1 : SemGanho(e, p, i, N)
              \/ Custo(e, Rodada(e, p)[Len(p) - 1]) < Custo(e, p)
<1> DEFINE R == Rodada(e, p)
           Bom(k) == \/ R[k] = p /\ \A i \in 1 .. k : SemGanho(e, p, i, N)
                     \/ Custo(e, R[k]) < Custo(e, p)
           T == {k \in Nat : k <= N - 1 => Bom(k)}
<1>1. /\ R \in [0 .. N - 1 -> Permutacoes(e)] /\ R[0] = p
      /\ \A i \in 1 .. N - 1 : R[i] = Linha(e, R[i - 1], i)[N]
  BY RodadaPassos
<1>2. N \in Nat \ {0} /\ Len(p) = N
  BY PermutacaoTipada DEF Entrada
<1> HIDE DEF R
<1>3. 0 \in T
  BY <1>1
<1>4. ASSUME NEW k \in T PROVE k + 1 \in T
  <2> SUFFICES ASSUME k + 1 <= N - 1 PROVE Bom(k + 1)
    OBVIOUS
  <2>1. /\ k \in Nat /\ k + 1 \in 1 .. N - 1 /\ (k + 1) - 1 = k /\ k \in 0 .. N - 1
        /\ k + 1 \in 1 .. N
    BY <1>2
  <2>2. Bom(k) /\ R[k] \in Permutacoes(e)
    BY <1>1, <1>2, <2>1
  <2>3. R[k + 1] = Linha(e, R[k], k + 1)[N]
    BY <1>1, <2>1
  <2>4. /\ R[k + 1] \in Permutacoes(e)
        /\ \/ R[k + 1] = R[k] /\ SemGanho(e, R[k], k + 1, N)
           \/ Custo(e, R[k + 1]) < Custo(e, R[k])
    BY <2>1, <2>2, <2>3, LinhaMelhora
  <2>5. Custo(e, p) \in Nat /\ Custo(e, R[k]) \in Nat /\ Custo(e, R[k + 1]) \in Nat
    BY <2>2, <2>4, CustoDePermutacao
  <2>6. CASE Custo(e, R[k]) < Custo(e, p)
    BY <2>4, <2>5, <2>6
  <2>7. CASE R[k] = p /\ \A i \in 1 .. k : SemGanho(e, p, i, N)
    <3>1. \A i \in 1 .. k + 1 : i = k + 1 \/ i \in 1 .. k
      BY <2>1
    <3> QED
      BY <2>4, <2>7, <3>1
  <2> QED
    BY <2>2, <2>6, <2>7
<1>5. T = Nat
  <2>1. T \in SUBSET Nat
    OBVIOUS
  <2> HIDE DEF T
  <2> QED
    BY <1>3, <1>4, <2>1, InducaoNatural
<1>6. Bom(N - 1)
  <2>1. N - 1 \in T /\ N - 1 <= N - 1
    BY <1>2, <1>5
  <2> HIDE DEF Bom
  <2> QED
    BY <2>1
<1>7. R[N - 1] \in Permutacoes(e)
  <2>1. N - 1 \in 0 .. N - 1
    BY <1>2
  <2> QED
    BY <1>1, <2>1
<1> QED
  BY <1>2, <1>6, <1>7 DEF R

\* Rounds become shorter, so that they end.
CustoDe(e) == [p \in Permutacoes(e) |-> Custo(e, p)]

\* What 2-opt makes of p.
Melhorada(e, N, p, q) ==
    /\ q \in Permutacoes(e)
    /\ Custo(e, q) <= Custo(e, p)
    /\ \A i \in 1 .. N - 1 : SemGanho(e, q, i, N)

LEMMA DoisOptPassos ==
    ASSUME NEW e, NEW N, Entrada(e, N)
    PROVE  \A p \in Permutacoes(e) : Melhorada(e, N, p, DoisOpt(e)[p])
<1> DEFINE S == Permutacoes(e)
           V == [p \in S |-> S]
           outra(p) == Rodada(e, p)[Len(p) - 1]
           corpo(f, p) == IF outra(p) = p THEN p ELSE f[outra(p)]
           G == [p \in S |-> [f \in Tipadas(S, V) |-> corpo(f, p)]]
           Passo(f) == f = [p \in S |-> corpo(f, p)]
           F == DoisOpt(e)
           r == CustoDe(e)
<1>1. F = CHOOSE f : Passo(f)
  BY DEF DoisOpt
<1>2. r \in [S -> Nat] /\ \A p \in S : r[p] = Custo(e, p)
  BY CustoDePermutacao DEF CustoDe
<1>3. \A p \in S : /\ outra(p) \in S
                   /\ outra(p) # p => r[outra(p)] < r[p]
                   /\ outra(p) = p => \A i \in 1 .. N - 1 : SemGanho(e, p, i, N)
  <2> TAKE p \in S
  <2>1. outra(p) \in S /\ \/ outra(p) = p /\ \A i \in 1 .. N - 1 : SemGanho(e, p, i, N)
                          \/ Custo(e, outra(p)) < Custo(e, p)
    BY RodadaMelhora
  <2>2. Custo(e, p) \in Nat
    BY CustoDePermutacao
  <2> HIDE DEF r, outra
  <2> QED
    BY <1>2, <2>1, <2>2
<1>4. \A f \in Tipadas(S, V) : f = [p \in S |-> f[p]] /\ \A p \in S : f[p] \in S
  BY DEF Tipadas
<1> HIDE DEF outra, r
<1>5. ASSUME NEW p \in S, NEW f \in Tipadas(S, V) PROVE corpo(f, p) \in S
  BY <1>3, <1>4
<1>6. ASSUME NEW p \in S, NEW f \in Tipadas(S, V), NEW g \in Tipadas(S, V),
             \A y \in S : r[y] < r[p] => f[y] = g[y]
      PROVE  corpo(f, p) = corpo(g, p)
  BY <1>3, <1>6
<1> HIDE DEF corpo
<1>7. \A p \in S, f \in Tipadas(S, V) : G[p][f] = corpo(f, p) /\ G[p][f] \in V[p]
  BY <1>5
<1>8. G \in [S -> [Tipadas(S, V) -> UNION {V[p] : p \in S}]]
  <2>1. \A p \in S, f \in Tipadas(S, V) : corpo(f, p) \in UNION {V[y] : y \in S}
    BY <1>5
  <2> QED
    BY <2>1
<1>9. \A p \in S : V[p] # {}
  OBVIOUS
<1>10. Gera(S, V, r, G)
  <2>1. \A p \in S, f, g \in Tipadas(S, V) :
           (\A y \in S : r[y] < r[p] => f[y] = g[y]) => G[p][f] = G[p][g]
    <3> HIDE DEF G, V, S
    <3> QED
      BY <1>6, <1>7
  <2> HIDE DEF G, V, S
  <2> QED
    BY <1>2, <1>7, <1>8, <1>9, <2>1 DEF Gera
<1>11. PICK f \in Tipadas(S, V) : \A p \in S : f[p] = G[p][f]
  <2> HIDE DEF G, V, S
  <2> QED
    BY <1>10, RecursaoPorPosto
<1>12. Passo(f)
  <2>1. f = [p \in S |-> f[p]]
    BY <1>4
  <2> HIDE DEF G
  <2>2. \A p \in S : f[p] = corpo(f, p)
    BY <1>7, <1>11
  <2> QED
    BY <2>1, <2>2
<1>13. Passo(F)
  <2> HIDE DEF Passo, F
  <2> QED
    BY <1>1, <1>12
<1> HIDE DEF F
<1>14. \A p \in S : F[p] = IF outra(p) = p THEN p ELSE F[outra(p)]
  BY <1>13 DEF corpo
<1> DEFINE P == {p \in S : Melhorada(e, N, p, F[p])}
<1>15. ASSUME NEW p \in S, \A y \in S : r[y] < r[p] => y \in P PROVE p \in P
  <2>1. CASE outra(p) = p
    <3>1. F[p] = p /\ Custo(e, p) \in Nat
      BY <1>14, <2>1, CustoDePermutacao
    <3>2. Melhorada(e, N, p, p)
      BY <1>3, <2>1, <3>1 DEF Melhorada
    <3> QED
      BY <3>1, <3>2
  <2>2. CASE outra(p) # p
    <3>1. F[p] = F[outra(p)] /\ outra(p) \in S /\ r[outra(p)] < r[p]
      BY <1>3, <1>14, <2>2
    <3>2. Melhorada(e, N, outra(p), F[p])
      BY <1>15, <3>1
    <3>3. Custo(e, outra(p)) \in Nat /\ Custo(e, p) \in Nat /\ Custo(e, outra(p)) < Custo(e, p)
      BY <1>2, <3>1
    <3>4. F[p] \in S /\ Custo(e, F[p]) \in Nat
      BY <3>2, CustoDePermutacao DEF Melhorada
    <3>5. Melhorada(e, N, p, F[p])
      BY <3>2, <3>3, <3>4 DEF Melhorada
    <3> QED
      BY <3>5
  <2> QED
    BY <2>1, <2>2
<1>16. P = S
  <2>1. P \in SUBSET S
    OBVIOUS
  <2> HIDE DEF P, S
  <2> QED
    BY <1>2, <1>15, <2>1, InducaoPorPosto
<1> QED
  BY <1>16 DEF F

\* ordenarHeuristicaMatriz, for any number of destinos: every destino once, no
\* reversal of a segment makes the order shorter, and it is no longer than that of
\* the nearest neighbours from any destino.
THEOREM HeuristicaBoa ==
    ASSUME NEW e, NEW N, Entrada(e, N)
    PROVE  /\ Heuristica(e) \in Permutacoes(e)
           /\ \A i, j \in 1 .. N :
                 i < j => Custo(e, Heuristica(e)) <= Custo(e, Inverter(Heuristica(e), i, j))
           /\ \A d \in 1 .. N : Custo(e, Heuristica(e)) <= Custo(e, VizinhoMaisProximo(e, d))
<1> DEFINE S == 1 .. N
           de == [d \in S |-> DoisOpt(e)[VizinhoMaisProximo(e, d)]]
           c == [d \in S |-> Custo(e, de[d])]
           m == Primeiro(S, c)
<1>1. Indices(e) = S /\ N \in Nat
  BY IndicesDaEntrada DEF Entrada
<1>2. Heuristica(e) = de[m]
  BY <1>1 DEF Heuristica
<1>3. \A d \in S : Melhorada(e, N, VizinhoMaisProximo(e, d), de[d])
  BY VizinhoPermuta, DoisOptPassos
<1> HIDE DEF de
<1>4. \A d \in S : de[d] \in Permutacoes(e) /\ Custo(e, de[d]) \in Nat /\ c[d] = Custo(e, de[d])
  BY <1>3, CustoDePermutacao DEF Melhorada
<1> HIDE DEF c
<1>5. m \in S /\ \A d \in S : c[m] <= c[d]
  <2>1. S \in SUBSET Nat /\ S # {}
    <3>1. N \in Nat \ {0} /\ 1 \in 1 .. N
      BY DEF Entrada
    <3> QED
      BY <3>1
  <2>2. \A d \in S : c[d] \in Nat
    BY <1>4
  <2> HIDE DEF S
  <2> QED
    BY <2>1, <2>2, PrimeiroEscolhe
<1> HIDE DEF m
<1>6. ASSUME NEW i \in S, NEW j \in S, i < j
      PROVE  Custo(e, de[m]) <= Custo(e, Inverter(de[m], i, j))
  <2>1. i \in 1 .. N - 1 /\ j \in i + 1 .. N
    BY <1>1, <1>6
  <2> QED
    BY <1>3, <1>5, <2>1 DEF Melhorada, SemGanho
<1>7. ASSUME NEW d \in S PROVE Custo(e, de[m]) <= Custo(e, VizinhoMaisProximo(e, d))
  <2>1. Custo(e, de[d]) <= Custo(e, VizinhoMaisProximo(e, d))
    BY <1>3 DEF Melhorada
  <2>2. Custo(e, de[m]) <= Custo(e, de[d])
    BY <1>4, <1>5
  <2>3. Custo(e, VizinhoMaisProximo(e, d)) \in Nat
    BY VizinhoPermuta, CustoDePermutacao
  <2> QED
    BY <1>4, <1>5, <2>1, <2>2, <2>3
<1> QED
  BY <1>2, <1>4, <1>5, <1>6, <1>7

\* OrdenarDestinosPorMatriz, whatever the limit of the exact order: a route stops
\* at every destino once.
THEOREM TodosUmaVez ==
    ASSUME NEW e, NEW N, Entrada(e, N), NEW limite
    PROVE  Ordenada(e, limite) \in Permutacoes(e)
  BY HeldKarpOtimo, HeuristicaBoa DEF Ordenada

-----------------------------------------------------------------------------
(* From the matrix to the order *)

\* A matrix of OSRM for a stop and N destinos, all with a way.
Matriz(t, N) == N \in Nat \ {0} /\ t \in [1 .. N + 1 -> [1 .. N + 1 -> Nat]]

\* What the optimiser is given for the way out ...
LEMMA EntradaDaIda ==
    ASSUME NEW t, NEW N, Matriz(t, N)
    PROVE  /\ Entrada(EntradaIda(t), N)
           /\ \A i \in 1 .. N :
                 /\ EntradaIda(t).origem[i] = t[1][i + 1] /\ EntradaIda(t).final[i] = 0
                 /\ \A j \in 1 .. N : EntradaIda(t).entre[i][j] = t[i + 1][j + 1]
<1>1. N \in Nat \ {0} /\ Len(t) = N + 1
  BY DEF Matriz
<1>2. \A i \in 1 .. N : i + 1 \in 1 .. N + 1 /\ 1 + i \in 1 .. N + 1 /\ 1 + i = i + 1
  BY <1>1
<1>3. 1 \in 1 .. N + 1 /\ (N + 1) - 1 = N
  BY <1>1
<1>4. \A i, j \in 1 .. N : t[i + 1][j + 1] \in Nat /\ t[1][i + 1] \in Nat
  BY <1>2, <1>3 DEF Matriz
<1> DEFINE e == [entre |-> Recortar(t, 1, N), origem |-> [i \in 1 .. N |-> t[1][i + 1]],
                 final |-> Zeros(N)]
<1>5. EntradaIda(t) = e
  BY <1>1, <1>3 DEF EntradaIda
<1>6. e.entre = [i \in 1 .. N |-> [j \in 1 .. N |-> t[i + 1][j + 1]]]
  BY <1>2 DEF Recortar
<1>7. e.origem = [i \in 1 .. N |-> t[1][i + 1]] /\ e.final = [i \in 1 .. N |-> 0]
  BY DEF Zeros
<1> HIDE DEF e
<1>8. /\ e.entre \in [1 .. N -> [1 .. N -> Nat]] /\ e.origem \in [1 .. N -> Nat]
      /\ e.final \in [1 .. N -> Nat]
  BY <1>4, <1>6, <1>7
<1>9. \A i \in 1 .. N : /\ e.origem[i] = t[1][i + 1] /\ e.final[i] = 0
                        /\ \A j \in 1 .. N : e.entre[i][j] = t[i + 1][j + 1]
  BY <1>6, <1>7
<1> QED
  BY <1>1, <1>5, <1>8, <1>9 DEF Entrada

\* ... and for the way back.
LEMMA EntradaDaVolta ==
    ASSUME NEW t, NEW N, Matriz(t, N)
    PROVE  /\ Entrada(EntradaVolta(t), N)
           /\ \A i \in 1 .. N :
                 /\ EntradaVolta(t).origem[i] = 0 /\ EntradaVolta(t).final[i] = t[i][N + 1]
                 /\ \A j \in 1 .. N : EntradaVolta(t).entre[i][j] = t[i][j]
<1>1. N \in Nat \ {0} /\ Len(t) = N + 1
  BY DEF Matriz
<1>2. \A i \in 1 .. N : i \in 1 .. N + 1 /\ 0 + i = i
  BY <1>1
<1>3. N + 1 \in 1 .. N + 1 /\ (N + 1) - 1 = N
  BY <1>1
<1>4. \A i, j \in 1 .. N : t[i][j] \in Nat /\ t[i][N + 1] \in Nat
  BY <1>2, <1>3 DEF Matriz
<1> DEFINE e == [entre |-> Recortar(t, 0, N), origem |-> Zeros(N),
                 final |-> [i \in 1 .. N |-> t[i][N + 1]]]
<1>5. EntradaVolta(t) = e
  BY <1>1, <1>3 DEF EntradaVolta
<1>6. e.entre = [i \in 1 .. N |-> [j \in 1 .. N |-> t[i][j]]]
  BY <1>2 DEF Recortar
<1>7. e.final = [i \in 1 .. N |-> t[i][N + 1]] /\ e.origem = [i \in 1 .. N |-> 0]
  BY DEF Zeros
<1> HIDE DEF e
<1>8. /\ e.entre \in [1 .. N -> [1 .. N -> Nat]] /\ e.origem \in [1 .. N -> Nat]
      /\ e.final \in [1 .. N -> Nat]
  BY <1>4, <1>6, <1>7
<1>9. \A i \in 1 .. N : /\ e.origem[i] = 0 /\ e.final[i] = t[i][N + 1]
                        /\ \A j \in 1 .. N : e.entre[i][j] = t[i][j]
  BY <1>6, <1>7
<1> QED
  BY <1>1, <1>5, <1>8, <1>9 DEF Entrada

LEMMA CustoDeTres ==
    ASSUME NEW e, Entrada(e, 3), NEW o \in [1 .. 3 -> 1 .. 3]
    PROVE  Custo(e, o) = e.origem[o[1]] + e.entre[o[1]][o[2]] + e.entre[o[2]][o[3]] + e.final[o[3]]
<1>1. 3 \in Nat \ {0} /\ 2 \in 2 .. 3 /\ 3 \in 2 .. 3 /\ 2 - 1 = 1 /\ 3 - 1 = 2
  OBVIOUS
<1>2. Acumula(Trajeto(e, o), e, o, 3)
  BY <1>1, TrajetoPassos
<1>3. Trajeto(e, o)[2] = Trajeto(e, o)[1] + e.entre[o[1]][o[2]]
      /\ Trajeto(e, o)[3] = Trajeto(e, o)[2] + e.entre[o[2]][o[3]]
      /\ Trajeto(e, o)[1] = e.origem[o[1]]
  BY <1>1, <1>2 DEF Acumula
<1>4. Custo(e, o) = Trajeto(e, o)[3] + e.final[o[3]]
  BY <1>1, CustoNatural
<1> QED
  BY <1>3, <1>4

LEMMA OrdensSaoPermutacoes ==
    ASSUME NEW e, Entrada(e, 3)
    PROVE  Ordens = Permutacoes(e)
<1>1. Indices(e) = 1 .. 3
  BY IndicesDaEntrada
<1> QED
  BY <1>1 DEF Ordens, Permutacoes

LEMMA MatrizDaTabela ==
    ASSUME NEW m \in Entre, NEW s \in Parada, NEW x \in {1, 4}
    PROVE  Matriz(TabelaCom(m, s, x), 3)
<1> DEFINE d(i) == IF i < x THEN i ELSE i - 1
           lado(i) == IF x = 1 THEN s[d(i)] ELSE s[4 - d(i)] + 1
           outro(i) == IF x = 1 THEN s[4 - d(i)] + 1 ELSE s[d(i)]
           v(i, j) == IF i = j THEN 0
                      ELSE IF i = x THEN lado(j)
                      ELSE IF j = x THEN outro(i)
                      ELSE m[<<d(i), d(j)>>]
<1>1. TabelaCom(m, s, x) = [i \in 1 .. 4 |-> [j \in 1 .. 4 |-> v(i, j)]]
  BY DEF TabelaCom
<1>2. \A i \in 1 .. 4 : i # x => d(i) \in 1 .. 3 /\ 4 - d(i) \in 1 .. 3
  OBVIOUS
<1>3. \A i, j \in 1 .. 4 : i # x /\ j # x /\ i # j => d(i) # d(j)
  OBVIOUS
<1> HIDE DEF d
<1>4. \A k \in 1 .. 3 : s[k] \in Nat
  BY DuracoesAssumption DEF Parada
<1>5. \A a, b \in 1 .. 3 : a # b => m[<<a, b>>] \in Nat
  <2> TAKE a \in 1 .. 3, b \in 1 .. 3
  <2> SUFFICES ASSUME a # b PROVE m[<<a, b>>] \in Nat
    OBVIOUS
  <2>1. <<a, b>> \in {q \in (1 .. 3) \X (1 .. 3) : q[1] # q[2]}
    OBVIOUS
  <2>2. m[<<a, b>>] \in Duracoes
    BY <2>1 DEF Entre
  <2> QED
    BY <2>2, DuracoesAssumption
<1>6. ASSUME NEW i \in 1 .. 4, NEW j \in 1 .. 4 PROVE v(i, j) \in Nat
  <2>1. CASE i = j
    BY <2>1
  <2>2. CASE i # j /\ i = x
    <3>1. d(j) \in 1 .. 3 /\ 4 - d(j) \in 1 .. 3
      BY <1>2, <2>2
    <3>2. s[d(j)] \in Nat /\ s[4 - d(j)] \in Nat
      BY <1>4, <3>1
    <3> QED
      BY <2>2, <3>2
  <2>3. CASE i # j /\ i # x /\ j = x
    <3>1. d(i) \in 1 .. 3 /\ 4 - d(i) \in 1 .. 3
      BY <1>2, <2>3
    <3>2. s[d(i)] \in Nat /\ s[4 - d(i)] \in Nat
      BY <1>4, <3>1
    <3> QED
      BY <2>3, <3>2
  <2>4. CASE i # j /\ i # x /\ j # x
    <3>1. m[<<d(i), d(j)>>] \in Nat
      BY <1>2, <1>3, <1>5, <2>4
    <3> QED
      BY <2>4, <3>1
  <2> QED
    BY <2>1, <2>2, <2>3, <2>4
<1> HIDE DEF v
<1>7. TabelaCom(m, s, x) \in [1 .. 4 -> [1 .. 4 -> Nat]]
  BY <1>1, <1>6
<1>8. 3 \in Nat \ {0} /\ 3 + 1 = 4
  OBVIOUS
<1> QED
  BY <1>7, <1>8 DEF Matriz

LEMMA ExataOtima == OrdemOtima
<1> SUFFICES ASSUME NEW m \in Entre, NEW s \in Parada
    PROVE  LET ti    == TabelaCom(m, s, 1)
               tv    == TabelaCom(m, s, 4)
               ida   == HeldKarp(EntradaIda(ti))
               volta == HeldKarp(EntradaVolta(tv))
               dIda(o)   == ti[1][o[1] + 1] + ti[o[1] + 1][o[2] + 1] + ti[o[2] + 1][o[3] + 1]
               dVolta(o) == tv[o[1]][o[2]] + tv[o[2]][o[3]] + tv[o[3]][4]
           IN  /\ Range(ida) = 1 .. 3 /\ Range(volta) = 1 .. 3
               /\ \A p \in Ordens : dIda(ida) <= dIda(p) /\ dVolta(volta) <= dVolta(p)
  BY DEF OrdemOtima
<1> DEFINE ti    == TabelaCom(m, s, 1)
           tv    == TabelaCom(m, s, 4)
           ei    == EntradaIda(ti)
           ev    == EntradaVolta(tv)
           ida   == HeldKarp(ei)
           volta == HeldKarp(ev)
           dIda(o)   == ti[1][o[1] + 1] + ti[o[1] + 1][o[2] + 1] + ti[o[2] + 1][o[3] + 1]
           dVolta(o) == tv[o[1]][o[2]] + tv[o[2]][o[3]] + tv[o[3]][4]
<1>1. Matriz(ti, 3) /\ Matriz(tv, 3)
  BY MatrizDaTabela
<1> HIDE DEF ti, tv
<1>2. /\ Entrada(ei, 3)
      /\ \A i \in 1 .. 3 : /\ ei.origem[i] = ti[1][i + 1] /\ ei.final[i] = 0
                           /\ \A j \in 1 .. 3 : ei.entre[i][j] = ti[i + 1][j + 1]
  BY <1>1, EntradaDaIda
<1>3. /\ Entrada(ev, 3)
      /\ \A i \in 1 .. 3 : /\ ev.origem[i] = 0 /\ ev.final[i] = tv[i][4]
                           /\ \A j \in 1 .. 3 : ev.entre[i][j] = tv[i][j]
  <2>1. 3 + 1 = 4
    OBVIOUS
  <2> QED
    BY <1>1, <2>1, EntradaDaVolta
<1> HIDE DEF ei, ev
<1>4. /\ ida \in Ordens /\ \A p \in Ordens : Custo(ei, ida) <= Custo(ei, p)
      /\ volta \in Ordens /\ \A p \in Ordens : Custo(ev, volta) <= Custo(ev, p)
  BY <1>2, <1>3, HeldKarpOtimo, OrdensSaoPermutacoes
<1> HIDE DEF ida, volta
<1>5. ASSUME NEW o \in Ordens PROVE Custo(ei, o) = dIda(o) /\ Custo(ev, o) = dVolta(o)
  <2>1. o \in [1 .. 3 -> 1 .. 3] /\ o[1] \in 1 .. 3 /\ o[2] \in 1 .. 3 /\ o[3] \in 1 .. 3
    BY DEF Ordens
  <2>2. Custo(ei, o) = ti[1][o[1] + 1] + ti[o[1] + 1][o[2] + 1] + ti[o[2] + 1][o[3] + 1] + 0
    BY <1>2, <2>1, CustoDeTres
  <2>3. Custo(ev, o) = 0 + tv[o[1]][o[2]] + tv[o[2]][o[3]] + tv[o[3]][4]
    BY <1>3, <2>1, CustoDeTres
  <2>4. Custo(ei, o) \in Nat /\ Custo(ev, o) \in Nat
    BY <1>2, <1>3, CustoDePermutacao, OrdensSaoPermutacoes
  <2>5. /\ ti[1][o[1] + 1] \in Nat /\ ti[o[1] + 1][o[2] + 1] \in Nat
        /\ ti[o[2] + 1][o[3] + 1] \in Nat
    BY <1>2, <2>1 DEF Entrada
  <2>6. tv[o[1]][o[2]] \in Nat /\ tv[o[2]][o[3]] \in Nat /\ tv[o[3]][4] \in Nat
    BY <1>3, <2>1 DEF Entrada
  <2> QED
    BY <2>2, <2>3, <2>5, <2>6
<1>6. \A p \in Ordens : dIda(ida) <= dIda(p) /\ dVolta(volta) <= dVolta(p)
  <2> HIDE DEF dIda, dVolta
  <2> QED
    BY <1>4, <1>5
<1>7. Range(ida) = 1 .. 3 /\ Range(volta) = 1 .. 3
  BY <1>4 DEF Ordens
<1> QED
  BY <1>6, <1>7 DEF ida, volta, ei, ev, ti, tv

LEMMA HeuristicaDeTres == OrdemBoa
<1> SUFFICES ASSUME NEW m \in Entre, NEW s \in Parada
    PROVE  LET e == EntradaIda(TabelaCom(m, s, 1))
               h == Heuristica(e)
           IN  /\ Range(h) = 1 .. 3
               /\ \A i, j \in 1 .. 3 : i < j => Custo(e, h) <= Custo(e, Inverter(h, i, j))
               /\ \A d \in 1 .. 3 : Custo(e, h) <= Custo(e, VizinhoMaisProximo(e, d))
  BY DEF OrdemBoa
<1> DEFINE e == EntradaIda(TabelaCom(m, s, 1))
<1>1. Entrada(e, 3)
  BY MatrizDaTabela, EntradaDaIda
<1> HIDE DEF e
<1>2. Heuristica(e) \in Ordens
  BY <1>1, HeuristicaBoa, OrdensSaoPermutacoes
<1>3. Range(Heuristica(e)) = 1 .. 3
  BY <1>2 DEF Ordens
<1>4. /\ \A i, j \in 1 .. 3 :
            i < j => Custo(e, Heuristica(e)) <= Custo(e, Inverter(Heuristica(e), i, j))
      /\ \A d \in 1 .. 3 : Custo(e, Heuristica(e)) <= Custo(e, VizinhoMaisProximo(e, d))
  BY <1>1, HeuristicaBoa
<1> QED
  BY <1>3, <1>4 DEF e

\* The orders that the runs compare with all others are those that HeldKarpOtimo and
\* HeuristicaBoa are about, so the state of the component does not matter to them.
THEOREM OrdemSempreOtima == Spec => []OrdemDosDestinos
<1>1. OrdemDosDestinos
  BY ExataOtima, HeuristicaDeTres DEF OrdemDosDestinos, RotaOtimizada
<1> QED
  BY <1>1, PTL

=============================================================================
