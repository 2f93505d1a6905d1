--------------------- MODULE ReservaPlanejamento_proofs ---------------------
(* Theorems about ReservaPlanejamento, for every value of its constants: any *)
(* number of requests, reservas, keys and connections, PUTs that move a      *)
(* reserva and destinos that move to another municipio included.             *)
EXTENDS ReservaInscricao, FiniteSetTheorems, TLAPS

\* What a request writes, and the key it locks.
DePedido == [tipo : {"nenhum", "criar", "editar", "cancelar", "excluir"},
             reserva : Reserva \cup {Nenhuma}, vaga : Vaga,
             status : {"confirmada", "cancelada"}, chave : Chave \cup {Nenhuma}]

DeReserva == [vaga : Vaga, status : {"ausente", "confirmada", "cancelada", "excluida"}]

\* The types, apart from the count of the connections.
Tipos ==
    /\ municipio \in [Destino -> Municipio]
    /\ reserva \in [Reserva -> DeReserva]
    /\ alocada \in [Reserva -> Chave \cup {Nenhuma}]
    /\ execucao \in [Chave -> Status]
    /\ planejador \in [Chave -> {"ocioso", "candidato", "travar", "iniciar", "ler",
                                 "planejar", "gravar", "finalizar"}]
    /\ lidas \in [Chave -> SUBSET Reserva]
    /\ resultado \in [Chave -> Terminal \cup {"falhou"}]
    /\ pc \in [Pedido -> {"ocioso", "abrir", "selecionar", "validar", "travar", "verificar", "gravar"}]
    /\ pedido \in [Pedido -> DePedido]
    /\ \A p \in Pedido : pc[p] # "ocioso" => pedido[p].reserva \in Reserva
    /\ \A p \in Pedido : pc[p] \in {"verificar", "gravar"} => pedido[p].chave \in Chave

LEMMA VagaInicial == QualquerVaga \in Vaga
  BY AmbienteAssumption DEF QualquerVaga

\* Where the municipio of a destino leads, a request has a key to lock.
LEMMA ChaveDoDestino ==
    ASSUME Tipos, NEW r \in Reserva, NEW v \in Vaga
    PROVE  <<v, municipio[destinoDe[r]]>> \in Chave
  BY AmbienteAssumption DEF Tipos, Chave

\* The fields a request sets keep it well typed.
LEMMA CamposDePedido ==
    ASSUME NEW q \in DePedido
    PROVE  /\ \A t \in {"editar", "cancelar", "excluir"}, r \in Reserva :
                 [q EXCEPT !.tipo = t, !.reserva = r] \in DePedido
           /\ \A v \in Vaga, s \in {"confirmada", "cancelada"} :
                 [q EXCEPT !.vaga = v, !.status = s] \in DePedido
  <1>1. \A t \in {"editar", "cancelar", "excluir"} : [q EXCEPT !.tipo = t] \in DePedido
    BY DEF DePedido
  <1>2. \A v \in Vaga : [q EXCEPT !.vaga = v] \in DePedido
    BY DEF DePedido
  <1>3. \A d \in DePedido, r \in Reserva : [d EXCEPT !.reserva = r] \in DePedido
    BY DEF DePedido
  <1>4. \A d \in DePedido, s \in {"confirmada", "cancelada"} : [d EXCEPT !.status = s] \in DePedido
    BY DEF DePedido
  <1>5. ASSUME NEW t \in {"editar", "cancelar", "excluir"}, NEW r \in Reserva
        PROVE  [q EXCEPT !.tipo = t, !.reserva = r] \in DePedido
    <2>1. [[q EXCEPT !.tipo = t] EXCEPT !.reserva = r] \in DePedido
      BY <1>1, <1>3
    <2> QED
      BY <2>1
  <1>6. ASSUME NEW v \in Vaga, NEW s \in {"confirmada", "cancelada"}
        PROVE  [q EXCEPT !.vaga = v, !.status = s] \in DePedido
    <2>1. [[q EXCEPT !.vaga = v] EXCEPT !.status = s] \in DePedido
      BY <1>2, <1>4
    <2> QED
      BY <2>1
  <1> QED
    BY <1>5, <1>6

LEMMA TiposInit == Init => Tipos
  BY AmbienteAssumption, VagaInicial
  DEF Init, Tipos, SemPedido, DePedido, DeReserva, Status, Terminal

\* An answered request leaves the types of the requests as they were.
LEMMA ResponderTipos ==
    ASSUME Tipos, NEW p \in Pedido, Responder(p),
           municipio' = municipio, reserva' = reserva \/ reserva' = Gravada(p),
           pc[p] # "ocioso",
           UNCHANGED <<alocada, execucao, doPlano>>
    PROVE  Tipos'
  <1>1. SemPedido \in DePedido
    BY VagaInicial DEF SemPedido, DePedido
  <1>2. reserva' \in [Reserva -> DeReserva]
    BY DEF Tipos, Gravada, DePedido, DeReserva
  <1> QED
    BY <1>1, <1>2 DEF Tipos, Responder, doPlano

LEMMA TiposPedido ==
    ASSUME Tipos, NEW p \in Pedido, NovoPedido(p) \/ PassoPedido(p) \/ Desistir(p)
    PROVE  Tipos'
  <1> USE DEF banco, doPlano, doPedido
  <1>1. ASSUME NEW r \in Reserva, NEW v \in Vaga, Criar(p, r, v) PROVE Tipos'
    BY <1>1 DEF Criar, Tipos, DePedido
  <1>2. ASSUME NEW r \in Reserva, NEW tipo \in {"editar", "cancelar", "excluir"},
               Editar(p, r, tipo)
        PROVE  Tipos'
    <2>0. pedido[p] \in DePedido
      BY DEF Tipos
    <2>1. [pedido[p] EXCEPT !.tipo = tipo, !.reserva = r] \in DePedido
      BY <2>0, CamposDePedido
    <2>2. pedido' = [pedido EXCEPT ![p] = [pedido[p] EXCEPT !.tipo = tipo, !.reserva = r]]
      BY <1>2 DEF Editar, Tipos
    <2>3. pedido' \in [Pedido -> DePedido] /\ pedido'[p].reserva = r
      BY <2>1, <2>2 DEF Tipos, DePedido
    <2> QED
      BY <1>2, <2>2, <2>3 DEF Editar, Tipos
  <1>3. CASE Abrir(p)
    BY <1>3 DEF Abrir, Tipos
  <1>4. CASE Selecionar(p)
    <2>1. CASE Responder(p)
      BY <1>4, <2>1, ResponderTipos DEF Selecionar
    <2>2. ASSUME NEW v \in Vaga, NEW s \in {"confirmada", "cancelada"},
                 pedido' = [pedido EXCEPT ![p].vaga = v, ![p].status = s],
                 pc' = [pc EXCEPT ![p] = "validar"], pc[p] = "selecionar",
                 UNCHANGED <<banco, doPlano>>
          PROVE  Tipos'
      <3>0. pedido[p] \in DePedido
        BY DEF Tipos
      <3>1. [pedido[p] EXCEPT !.vaga = v, !.status = s] \in DePedido
        BY <3>0, CamposDePedido
      <3>2. pedido' = [pedido EXCEPT ![p] = [pedido[p] EXCEPT !.vaga = v, !.status = s]]
        BY <2>2 DEF Tipos
      <3>3. /\ pedido' \in [Pedido -> DePedido]
            /\ \A q \in Pedido : pedido'[q].reserva = pedido[q].reserva
        BY <3>1, <3>2 DEF Tipos, DePedido
      <3>4. \A q \in Pedido : pc'[q] \in {"verificar", "gravar"} =>
                pc[q] \in {"verificar", "gravar"} /\ pedido'[q] = pedido[q]
        BY <2>2, <3>2 DEF Tipos
      <3> QED
        BY <2>2, <3>3, <3>4 DEF Tipos
    <2> QED
      BY <1>4, <2>1, <2>2 DEF Selecionar
  <1>5. CASE Validar(p)
    <2>1. CASE Responder(p)
      BY <1>5, <2>1, ResponderTipos DEF Validar
    <2>2. CASE pc' = [pc EXCEPT ![p] = "travar"] /\ UNCHANGED <<pedido, reserva>>
      BY <1>5, <2>2 DEF Validar, Tipos
    <2> QED
      BY <1>5, <2>1, <2>2 DEF Validar
  <1>6. CASE Travar(p)
    <2> DEFINE k == <<pedido[p].vaga, municipio[destinoDe[pedido[p].reserva]]>>
    <2>1. pedido[p].reserva \in Reserva /\ pedido[p].vaga \in Vaga
      BY <1>6 DEF Travar, Tipos, DePedido
    <2>2. k \in Chave
      BY <2>1, ChaveDoDestino
    <2>3. /\ pedido' = [pedido EXCEPT ![p] = [pedido[p] EXCEPT !.chave = k]]
          /\ pc' = [pc EXCEPT ![p] = "verificar"] /\ pc[p] = "travar"
          /\ UNCHANGED <<banco, doPlano>>
      BY <1>6 DEF Travar, Tipos
    <2> HIDE DEF k
    <2>4. /\ [pedido[p] EXCEPT !.chave = k] \in DePedido
          /\ [pedido[p] EXCEPT !.chave = k].chave = k
          /\ [pedido[p] EXCEPT !.chave = k].reserva = pedido[p].reserva
      BY <2>2 DEF Tipos, DePedido
    <2> QED
      BY <2>2, <2>3, <2>4 DEF Tipos
  <1>7. CASE Verificar(p)
    <2>1. CASE Responder(p)
      BY <1>7, <2>1, ResponderTipos DEF Verificar
    <2>2. CASE pc' = [pc EXCEPT ![p] = "gravar"] /\ UNCHANGED pedido
      BY <1>7, <2>2 DEF Verificar, Tipos
    <2> QED
      BY <1>7, <2>1, <2>2 DEF Verificar
  <1>8. CASE Gravar(p)
    BY <1>8, ResponderTipos DEF Gravar
  <1>9. CASE Cancelar(p) \/ Excluir(p)
    <2>1. pedido[p].reserva \in Reserva
      BY <1>9 DEF Cancelar, Excluir, Tipos
    <2>2. reserva' \in [Reserva -> DeReserva]
      BY <1>9, <2>1 DEF Cancelar, Excluir, Tipos, DeReserva
    <2>3. SemPedido \in DePedido
      BY VagaInicial DEF SemPedido, DePedido
    <2>4. Responder(p) /\ UNCHANGED <<municipio, alocada, execucao, doPlano>>
      BY <1>9 DEF Cancelar, Excluir
    <2> QED
      BY <2>2, <2>3, <2>4 DEF Tipos, Responder
  <1>10. CASE Desistir(p)
    BY <1>10, ResponderTipos DEF Desistir
  <1> QED
    BY <1>1, <1>2, <1>3, <1>4, <1>5, <1>6, <1>7, <1>8, <1>9, <1>10
    DEF NovoPedido, PassoPedido

LEMMA TiposPlanejador ==
    ASSUME Tipos, NEW k \in Chave, Candidatar(k) \/ PassoPlanejador(k) \/ Interromper(k)
    PROVE  Tipos'
  <1> USE DEF banco, doPlano, doPedido, Avancar, Status, Terminal
  <1>1. CASE Candidatar(k) \/ AbrirExecucao(k) \/ TravarExecucao(k) \/ AbrirPlano(k)
    BY <1>1 DEF Candidatar, AbrirExecucao, TravarExecucao, AbrirPlano, Tipos
  <1>2. CASE Iniciar(k) \/ Finalizar(k)
    BY <1>2 DEF Iniciar, Finalizar, Tipos
  <1>3. CASE Ler(k)
    BY <1>3 DEF Ler, Confirmadas, Tipos
  <1>4. CASE GravarPlano(k)
    BY <1>4 DEF GravarPlano, Encaminhar, Tipos
  <1>5. CASE GravarJaExiste(k) \/ GravarErro(k)
    BY <1>5 DEF GravarJaExiste, GravarErro, Encaminhar, Tipos
  <1>6. CASE Interromper(k)
    BY <1>6 DEF Interromper, Tipos
  <1> QED
    BY <1>1, <1>2, <1>3, <1>4, <1>5, <1>6 DEF PassoPlanejador

LEMMA TiposNext == Tipos /\ [Next]_vars => Tipos'
  <1> SUFFICES ASSUME Tipos, [Next]_vars PROVE Tipos'
    OBVIOUS
  <1>1. CASE Ambiente
    BY <1>1 DEF Ambiente, MudarMunicipio, Tipos, doPlano, doPedido
  <1>2. CASE UNCHANGED vars
    BY <1>2 DEF vars, banco, doPlano, doPedido, Tipos
  <1> QED
    BY <1>1, <1>2, TiposPedido, TiposPlanejador DEF Next

-----------------------------------------------------------------------------
(* The advisory lock of a key *)

ComTrava(p) == pc[p] \in {"verificar", "gravar"}

\* The key a request has locked is the one its reserva would enter.
ChaveTravada ==
    \A p \in Pedido : ComTrava(p) =>
        pedido[p].chave = <<pedido[p].vaga, municipio[destinoDe[pedido[p].reserva]]>>

\* Between the lock and the commit of a request its key gets no execution, and
\* a planner that is past TentarIniciar has one.
SemExecucaoSobTrava ==
    /\ \A p \in Pedido : pc[p] = "gravar" => execucao[pedido[p].chave] = "ausente"
    /\ \A k \in Chave : planejador[k] = "iniciar" =>
          \A p \in Pedido : ComTrava(p) => pedido[p].chave # k
    /\ \A k \in Chave : planejador[k] \in {"ler", "planejar", "gravar", "finalizar"} =>
          execucao[k] # "ausente"

TravaInv == Tipos /\ ChaveTravada /\ SemExecucaoSobTrava

LEMMA TravaInit == Init => TravaInv
  BY TiposInit DEF Init, TravaInv, ChaveTravada, SemExecucaoSobTrava, ComTrava

\* A request that only gives up what it has, or moves without the lock.
LEMMA PedidoSemTrava ==
    ASSUME TravaInv, municipio' = municipio, execucao' = execucao, planejador' = planejador,
           \A q \in Pedido : ComTrava(q)' =>
               pc'[q] = pc[q] /\ pedido'[q] = pedido[q]
    PROVE  ChaveTravada' /\ SemExecucaoSobTrava'
  <1>1. \A q \in Pedido : ComTrava(q)' => ComTrava(q) /\ pedido'[q] = pedido[q]
    BY DEF ComTrava
  <1>2. ChaveTravada'
    BY <1>1 DEF TravaInv, ChaveTravada
  <1>3. \A q \in Pedido : pc'[q] = "gravar" => pc[q] = "gravar" /\ pedido'[q] = pedido[q]
    BY DEF ComTrava
  <1>4. SemExecucaoSobTrava'
    BY <1>1, <1>3 DEF TravaInv, SemExecucaoSobTrava
  <1> QED
    BY <1>2, <1>4

LEMMA TravaPedido ==
    ASSUME TravaInv, NEW p \in Pedido, NovoPedido(p) \/ PassoPedido(p) \/ Desistir(p)
    PROVE  ChaveTravada' /\ SemExecucaoSobTrava'
  <1> USE DEF banco, doPlano, doPedido
  <1>0. Tipos
    BY DEF TravaInv
  <1>1. ASSUME Responder(p), municipio' = municipio, execucao' = execucao,
               planejador' = planejador
        PROVE  ChaveTravada' /\ SemExecucaoSobTrava'
    BY <1>0, <1>1, PedidoSemTrava DEF Responder, Tipos, ComTrava
  <1>2. ASSUME NEW r \in Reserva, NEW v \in Vaga, Criar(p, r, v)
        PROVE  ChaveTravada' /\ SemExecucaoSobTrava'
    BY <1>0, <1>2, PedidoSemTrava DEF Criar, Tipos, ComTrava
  <1>3. ASSUME NEW r \in Reserva, NEW tipo \in {"editar", "cancelar", "excluir"},
               Editar(p, r, tipo)
        PROVE  ChaveTravada' /\ SemExecucaoSobTrava'
    BY <1>0, <1>3, PedidoSemTrava DEF Editar, Tipos, ComTrava
  <1>4. CASE Abrir(p)
    BY <1>0, <1>4, PedidoSemTrava DEF Abrir, Tipos, ComTrava
  <1>5. ASSUME pc' = [pc EXCEPT ![p] = "validar"], UNCHANGED <<municipio, execucao, planejador>>,
               \A q \in Pedido \ {p} : pedido'[q] = pedido[q]
        PROVE  ChaveTravada' /\ SemExecucaoSobTrava'
    BY <1>0, <1>5, PedidoSemTrava DEF Tipos, ComTrava
  <1>6. CASE Selecionar(p)
    BY <1>0, <1>1, <1>5, <1>6 DEF Selecionar, Tipos
  <1>7. CASE Validar(p)
    <2>1. CASE pc' = [pc EXCEPT ![p] = "travar"] /\ UNCHANGED pedido
      BY <1>0, <1>7, <2>1, PedidoSemTrava DEF Validar, Tipos, ComTrava
    <2> QED
      BY <1>1, <1>7, <2>1 DEF Validar
  <1>8. CASE Travar(p)
    <2> DEFINE k == <<pedido[p].vaga, municipio[destinoDe[pedido[p].reserva]]>>
    <2>1. /\ ~Travada(k) /\ pc' = [pc EXCEPT ![p] = "verificar"]
          /\ pedido'[p].chave = k
          /\ pedido'[p].vaga = pedido[p].vaga /\ pedido'[p].reserva = pedido[p].reserva
          /\ \A q \in Pedido \ {p} : pedido'[q] = pedido[q] /\ pc'[q] = pc[q]
          /\ UNCHANGED <<municipio, execucao, planejador>>
      BY <1>0, <1>8 DEF Travar, Tipos, DePedido
    <2>2. planejador[k] # "iniciar"
      BY <2>1 DEF Travada
    <2>3. pc'[p] = "verificar"
      BY <1>0, <2>1 DEF Tipos
    <2>4. ChaveTravada'
      BY <2>1, <2>3 DEF TravaInv, ChaveTravada, ComTrava
    <2> HIDE DEF k
    <2>5. SemExecucaoSobTrava'
      BY <2>1, <2>2, <2>3 DEF TravaInv, SemExecucaoSobTrava, ComTrava
    <2> QED
      BY <2>4, <2>5
  <1>9. CASE Verificar(p)
    <2>1. CASE Responder(p)
      BY <1>1, <1>9, <2>1 DEF Verificar
    <2>2. CASE ~Responder(p)
      <3>1. /\ pc[p] = "verificar" /\ execucao[pedido[p].chave] = "ausente"
            /\ pc' = [pc EXCEPT ![p] = "gravar"]
            /\ UNCHANGED <<pedido, municipio, execucao, planejador>>
        BY <1>9, <2>2 DEF Verificar
      <3> QED
        BY <1>0, <3>1 DEF TravaInv, ChaveTravada, SemExecucaoSobTrava, ComTrava, Tipos
    <2> QED
      BY <2>1, <2>2
  <1>10. CASE Gravar(p) \/ Cancelar(p) \/ Excluir(p) \/ Desistir(p)
    BY <1>1, <1>10 DEF Gravar, Cancelar, Excluir, Desistir
  <1> QED
    BY <1>2, <1>3, <1>4, <1>6, <1>7, <1>8, <1>9, <1>10 DEF NovoPedido, PassoPedido

LEMMA TravaPlanejador ==
    ASSUME TravaInv, NEW k \in Chave, Candidatar(k) \/ PassoPlanejador(k) \/ Interromper(k)
    PROVE  ChaveTravada' /\ SemExecucaoSobTrava'
  <1> USE DEF banco, doPlano, doPedido, Avancar
  <1>0. Tipos
    BY DEF TravaInv
  <1>1. ChaveTravada'
    <2>1. UNCHANGED <<municipio, pc, pedido>>
      BY DEF Candidatar, PassoPlanejador, AbrirExecucao, TravarExecucao, Iniciar, Ler, AbrirPlano,
             GravarPlano, GravarJaExiste, GravarErro, Finalizar, Interromper
    <2> QED
      BY <2>1 DEF TravaInv, ChaveTravada, ComTrava
  <1>2. SemExecucaoSobTrava'
    <2> USE <1>0 DEF TravaInv, SemExecucaoSobTrava, ComTrava, Tipos
    <2>1. CASE Candidatar(k) \/ AbrirExecucao(k) \/ Interromper(k)
      BY <2>1 DEF Candidatar, AbrirExecucao, Interromper
    <2>2. CASE TravarExecucao(k)
      BY <2>2 DEF TravarExecucao, Travada
    <2>3. CASE Iniciar(k)
      BY <2>3 DEF Iniciar
    <2>4. CASE Ler(k) \/ AbrirPlano(k)
      BY <2>4 DEF Ler, AbrirPlano
    <2>5. CASE GravarPlano(k) \/ GravarJaExiste(k) \/ GravarErro(k)
      BY <2>5 DEF GravarPlano, GravarJaExiste, GravarErro, Encaminhar
    <2>6. CASE Finalizar(k)
      BY <2>6 DEF Finalizar, Terminal
    <2> QED
      BY <2>1, <2>2, <2>3, <2>4, <2>5, <2>6 DEF PassoPlanejador
  <1> QED
    BY <1>1, <1>2

LEMMA TravaNext ==
    ASSUME TravaInv, [Next]_vars
    PROVE  TravaInv'
  <1>1. Tipos'
    BY TiposNext DEF TravaInv
  <1>2. ASSUME NEW d \in Destino, NEW m \in Municipio, MudarMunicipio(d, m)
        PROVE  ChaveTravada' /\ SemExecucaoSobTrava'
    <2>1. UNCHANGED <<execucao, planejador, pc, pedido>>
      BY <1>2 DEF MudarMunicipio, doPlano, doPedido
    <2>2. ASSUME NEW p \in Pedido, ComTrava(p)
          PROVE  municipio'[destinoDe[pedido[p].reserva]] = municipio[destinoDe[pedido[p].reserva]]
      <3>1. destinoDe[pedido[p].reserva] # d
        BY <1>2, <2>2 DEF MudarMunicipio, DestinoPreso, ComTrava
      <3>2. destinoDe[pedido[p].reserva] \in Destino
        BY <2>2, AmbienteAssumption DEF TravaInv, Tipos, ComTrava
      <3> QED
        BY <1>2, <3>1, <3>2 DEF MudarMunicipio, TravaInv, Tipos
    <2>3. ChaveTravada'
      BY <2>1, <2>2 DEF TravaInv, ChaveTravada, ComTrava
    <2>4. SemExecucaoSobTrava'
      BY <2>1 DEF TravaInv, SemExecucaoSobTrava, ComTrava
    <2> QED
      BY <2>3, <2>4
  <1>3. ASSUME UNCHANGED vars PROVE ChaveTravada' /\ SemExecucaoSobTrava'
    BY <1>3 DEF vars, banco, doPlano, doPedido, TravaInv, ChaveTravada, SemExecucaoSobTrava,
                ComTrava
  <1> QED
    BY <1>1, <1>2, <1>3, TravaPedido, TravaPlanejador DEF Next, Ambiente, TravaInv

LEMMA TravaSempre == Spec => []TravaInv
  <1>1. TravaInv /\ [Next]_vars => TravaInv'
    BY TravaNext
  <1> QED
    BY <1>1, TravaInit, PTL DEF Spec

-----------------------------------------------------------------------------
(* Nobody enters a key that has an execution *)

\* Reservas that do not change keep their keys while no destino moves.
LEMMA ReservasParadas ==
    ASSUME reserva' = reserva, municipio' = municipio
    PROVE  SemAcrescimo
  BY DEF SemAcrescimo, Confirmadas, ChaveDe

LEMMA NaoEntraPedido ==
    ASSUME TravaInv, NEW p \in Pedido, NovoPedido(p) \/ PassoPedido(p) \/ Desistir(p)
    PROVE  SemAcrescimo
  <1> USE DEF banco, doPlano, doPedido
  <1>0. Tipos
    BY DEF TravaInv
  <1>1. ASSUME reserva' = reserva, municipio' = municipio PROVE SemAcrescimo
    BY <1>1, ReservasParadas
  <1>2. CASE Gravar(p)
    <2> DEFINE r == pedido[p].reserva
    <2>1. /\ r \in Reserva /\ pedido[p].chave \in Chave
          /\ execucao[pedido[p].chave] = "ausente"
          /\ pedido[p].chave = <<pedido[p].vaga, municipio[destinoDe[r]]>>
          /\ municipio' = municipio
          /\ reserva' = [reserva EXCEPT ![r] = [vaga |-> pedido[p].vaga,
                                                status |-> pedido[p].status]]
      BY <1>0, <1>2 DEF Gravar, Gravada, TravaInv, Tipos, ChaveTravada, SemExecucaoSobTrava,
                        ComTrava
    <2> HIDE DEF r
    <2>2. \A s \in Reserva \ {r} : reserva'[s] = reserva[s]
      BY <1>0, <2>1 DEF Tipos
    <2>3. reserva'[r].vaga = pedido[p].vaga
      BY <1>0, <2>1 DEF Tipos
    <2> SUFFICES ASSUME NEW k \in Chave, execucao[k] # "ausente",
                        NEW s \in Reserva, reserva'[s].status = "confirmada",
                        <<reserva'[s].vaga, municipio'[destinoDe[s]]>> = k
                 PROVE  /\ reserva[s].status = "confirmada"
                        /\ <<reserva[s].vaga, municipio[destinoDe[s]]>> = k
      BY DEF SemAcrescimo, Confirmadas, ChaveDe
    <2>4. s # r
      BY <2>1, <2>3
    <2> QED
      BY <2>1, <2>2, <2>4
  <1>3. ASSUME NEW r \in Reserva, municipio' = municipio, NEW linha,
               linha.status # "confirmada", reserva' = [reserva EXCEPT ![r] = linha]
        PROVE  SemAcrescimo
    BY <1>0, <1>3 DEF SemAcrescimo, Confirmadas, ChaveDe, Tipos
  <1>4. CASE Validar(p)
    <2>1. CASE pedido[p].status = "cancelada"
      <3> DEFINE linha == [vaga |-> pedido[p].vaga, status |-> pedido[p].status]
      <3>1. /\ pedido[p].reserva \in Reserva /\ municipio' = municipio
            /\ reserva' = [reserva EXCEPT ![pedido[p].reserva] = linha]
            /\ linha.status # "confirmada"
        BY <1>0, <1>4, <2>1 DEF Validar, Gravada, Tipos
      <3> HIDE DEF linha
      <3> QED
        BY <1>3, <3>1
    <2>2. CASE pedido[p].status # "cancelada"
      BY <1>1, <1>4, <2>2 DEF Validar
    <2> QED
      BY <2>1, <2>2
  <1>5. CASE Cancelar(p) \/ Excluir(p)
    <2>1. municipio' = municipio /\ pedido[p].reserva \in Reserva
      BY <1>0, <1>5 DEF Cancelar, Excluir, Tipos
    <2>2. \/ reserva' = reserva
          \/ \E s \in {"cancelada", "excluida"} :
                reserva' = [reserva EXCEPT ![pedido[p].reserva].status = s]
      BY <1>5 DEF Cancelar, Excluir
    <2>3. ASSUME NEW s \in {"cancelada", "excluida"},
                 reserva' = [reserva EXCEPT ![pedido[p].reserva].status = s]
          PROVE  SemAcrescimo
      <3> DEFINE linha == [reserva[pedido[p].reserva] EXCEPT !.status = s]
      <3>1. reserva' = [reserva EXCEPT ![pedido[p].reserva] = linha]
        BY <2>3
      <3>2. linha.status # "confirmada"
        BY <1>0, <2>1 DEF Tipos, DeReserva
      <3> HIDE DEF linha
      <3> QED
        BY <1>3, <2>1, <3>1, <3>2
    <2> QED
      BY <1>1, <2>1, <2>2, <2>3
  <1>6. CASE NovoPedido(p) \/ Abrir(p) \/ Selecionar(p) \/ Travar(p) \/ Verificar(p) \/ Desistir(p)
    BY <1>1, <1>6 DEF NovoPedido, Criar, Editar, Abrir, Selecionar, Travar, Verificar, Desistir
  <1> QED
    BY <1>2, <1>4, <1>5, <1>6 DEF PassoPedido

LEMMA NaoEntraNext ==
    ASSUME TravaInv, [Next]_vars, municipio' = municipio
    PROVE  SemAcrescimo
  <1>1. ASSUME NEW k \in Chave, Candidatar(k) \/ PassoPlanejador(k) \/ Interromper(k)
        PROVE  reserva' = reserva
    BY <1>1 DEF Candidatar, PassoPlanejador, AbrirExecucao, TravarExecucao, Iniciar, Ler, AbrirPlano,
                GravarPlano, GravarJaExiste, GravarErro, Finalizar, Interromper, banco
  <1>2. CASE Ambiente \/ UNCHANGED vars
    BY <1>2, ReservasParadas DEF Ambiente, MudarMunicipio, vars, banco
  <1> QED
    BY <1>1, <1>2, ReservasParadas, NaoEntraPedido DEF Next

\* No request makes a reserva one of the confirmed ones of a key that has an
\* execution (bloquearSePlanejamentoIniciado), whatever the requests, the PUTs
\* that move a reserva, the destinos that move and the planners that run.
THEOREM NinguemEntra == Spec => PedidoNaoEntra
  <1>1. TravaInv /\ [Next]_vars => [municipio' = municipio => SemAcrescimo]_vars
    BY NaoEntraNext
  <1> QED
    BY <1>1, TravaSempre, PTL DEF Spec, PedidoNaoEntra

-----------------------------------------------------------------------------
(* A key without demand *)

\* The planner found no demand: nobody has come since.
SemDemandaDecidida ==
    \A k \in Chave : planejador[k] = "finalizar" /\ resultado[k] = "sem_demanda" =>
        Confirmadas(k) = {}

SemDemandaInv == TravaInv /\ municipio = municipioInicial /\ SemDemandaDecidida /\ SemDemandaVazia

LEMMA SemDemandaNext ==
    ASSUME ~MudaMunicipio, SemDemandaInv, [Next]_vars
    PROVE  SemDemandaInv'
  <1>1. TravaInv' /\ Tipos
    BY TravaNext DEF SemDemandaInv, TravaInv
  <1>2. municipio' = municipio
    BY DEF Next, Ambiente, MudarMunicipio, NovoPedido, Criar, Editar, PassoPedido, Abrir, Selecionar,
           Validar, Travar, Verificar, Gravar, Cancelar, Excluir, Desistir, Candidatar,
           PassoPlanejador, AbrirExecucao, TravarExecucao, Iniciar, Ler, AbrirPlano, GravarPlano,
           GravarJaExiste, GravarErro, Finalizar, Interromper, vars, banco
  <1>3. \A k \in Chave : execucao[k] # "ausente" => Confirmadas(k)' \subseteq Confirmadas(k)
    BY <1>2, NaoEntraNext DEF SemDemandaInv, SemAcrescimo
  <1>4. ASSUME execucao' = execucao, planejador' = planejador, resultado' = resultado
        PROVE  SemDemandaDecidida' /\ SemDemandaVazia'
    BY <1>3, <1>4 DEF SemDemandaInv, TravaInv, SemExecucaoSobTrava, SemDemandaDecidida, SemDemandaVazia
  <1>5. ASSUME NEW p \in Pedido, NovoPedido(p) \/ PassoPedido(p) \/ Desistir(p)
        PROVE  execucao' = execucao /\ planejador' = planejador /\ resultado' = resultado
    BY <1>5 DEF NovoPedido, Criar, Editar, PassoPedido, Abrir, Selecionar, Validar, Travar, Verificar,
                Gravar, Cancelar, Excluir, Desistir, banco, doPlano
  <1>6. ASSUME NEW k \in Chave, Candidatar(k) \/ PassoPlanejador(k) \/ Interromper(k)
        PROVE  SemDemandaDecidida' /\ SemDemandaVazia'
    <2> USE <1>1 DEF Tipos, Avancar, banco, doPlano, doPedido
    <2>0. \A j \in Chave : Confirmadas(j)' = Confirmadas(j)
      BY <1>2, <1>6 DEF Confirmadas, ChaveDe, Candidatar, PassoPlanejador, AbrirExecucao,
         TravarExecucao, Iniciar, Ler, AbrirPlano, GravarPlano, GravarJaExiste, GravarErro,
         Finalizar, Interromper
    <2> USE <2>0 DEF SemDemandaInv, SemDemandaDecidida, SemDemandaVazia
    <2>1. CASE Candidatar(k) \/ AbrirExecucao(k) \/ TravarExecucao(k) \/ AbrirPlano(k) \/ Interromper(k)
      BY <2>1 DEF Candidatar, AbrirExecucao, TravarExecucao, AbrirPlano, Interromper
    <2>2. CASE Iniciar(k)
      BY <2>2 DEF Iniciar
    <2>3. CASE Ler(k)
      BY <2>3 DEF Ler
    <2>4. CASE GravarPlano(k) \/ GravarJaExiste(k) \/ GravarErro(k)
      BY <2>4 DEF GravarPlano, GravarJaExiste, GravarErro, Encaminhar
    <2>5. CASE Finalizar(k)
      BY <2>5 DEF Finalizar
    <2> QED
      BY <1>6, <2>1, <2>2, <2>3, <2>4, <2>5 DEF PassoPlanejador
  <1>7. ASSUME Ambiente \/ UNCHANGED vars PROVE SemDemandaDecidida' /\ SemDemandaVazia'
    BY <1>4, <1>7 DEF Ambiente, MudarMunicipio, vars, banco, doPlano
  <1>8. SemDemandaDecidida' /\ SemDemandaVazia'
    BY <1>4, <1>5, <1>6, <1>7 DEF Next
  <1> QED
    BY <1>1, <1>2, <1>8 DEF SemDemandaInv

\* While no destino moves to another municipio, a key that ended without demand
\* has no confirmed reserva, then or later.
THEOREM SemDemandaSempreVazia ==
    ASSUME ~MudaMunicipio
    PROVE  Spec => []SemDemandaVazia
  <1>1. Init => SemDemandaInv
    BY TravaInit DEF Init, SemDemandaInv, SemDemandaDecidida, SemDemandaVazia
  <1>2. SemDemandaInv /\ [Next]_vars => SemDemandaInv'
    BY SemDemandaNext
  <1>3. SemDemandaInv => SemDemandaVazia
    BY DEF SemDemandaInv
  <1> QED
    BY <1>1, <1>2, <1>3, PTL DEF Spec

-----------------------------------------------------------------------------
(* The connection pool *)

\* Planners that hold a connection.
EmPlano == {k \in Chave : planejador[k] \in {"travar", "iniciar", "gravar"}}

LEMMA LivresDefinicao == Livres = Conexoes - Cardinality(EmTransacao) - Cardinality(EmPlano)
  BY DEF Livres, EmPlano

LEMMA ContagemFinita ==
    /\ IsFiniteSet(EmTransacao) /\ IsFiniteSet(EmPlano)
    /\ Cardinality(EmTransacao) \in Nat /\ Cardinality(EmPlano) \in Nat
    /\ Conexoes \in Nat
  <1>1. IsFiniteSet(Pedido) /\ IsFiniteSet(Chave)
    BY FinitosAssumption, FS_Product DEF Chave
  <1>2. EmTransacao \subseteq Pedido /\ EmPlano \subseteq Chave
    BY DEF EmTransacao, EmPlano
  <1> QED
    BY <1>1, <1>2, FS_Subset, FS_CardinalityType, AmbienteAssumption

\* One more member is at most one more.
LEMMA UmAMais ==
    ASSUME NEW A, NEW B, NEW x, IsFiniteSet(A), B \subseteq A \cup {x}
    PROVE  IsFiniteSet(B) /\ Cardinality(B) <= Cardinality(A) + 1
  <1>1. IsFiniteSet(A \cup {x}) /\ Cardinality(A \cup {x}) <= Cardinality(A) + 1
    <2>1. Cardinality(A) \in Nat
      BY FS_CardinalityType
    <2>2. /\ IsFiniteSet(A \cup {x})
          /\ Cardinality(A \cup {x}) = IF x \in A THEN Cardinality(A) ELSE Cardinality(A) + 1
      BY FS_AddElement
    <2> QED
      BY <2>1, <2>2
  <1>2. IsFiniteSet(B) /\ Cardinality(B) <= Cardinality(A \cup {x})
    BY <1>1, FS_Subset
  <1> QED
    BY <1>1, <1>2, FS_CardinalityType

\* Nobody takes a connection.
LEMMA SemConexao ==
    ASSUME Livres >= 0, EmTransacao' \subseteq EmTransacao, EmPlano' \subseteq EmPlano
    PROVE  Livres' >= 0
  <1>1. /\ Cardinality(EmTransacao') <= Cardinality(EmTransacao)
        /\ Cardinality(EmPlano') <= Cardinality(EmPlano)
        /\ Cardinality(EmTransacao') \in Nat /\ Cardinality(EmPlano') \in Nat
    BY ContagemFinita, FS_Subset, FS_CardinalityType
  <1>2. Livres' = Conexoes - Cardinality(EmTransacao') - Cardinality(EmPlano')
    BY DEF Livres, EmPlano
  <1> QED
    BY <1>1, <1>2, LivresDefinicao, ContagemFinita

\* One takes a connection, and there was one.
LEMMA UmaConexao ==
    ASSUME Livres > 0,
           \/ \E p : EmTransacao' \subseteq EmTransacao \cup {p} /\ EmPlano' = EmPlano
           \/ \E k : EmPlano' \subseteq EmPlano \cup {k} /\ EmTransacao' = EmTransacao
    PROVE  Livres' >= 0
  <1>1. /\ Cardinality(EmTransacao') + Cardinality(EmPlano')
             <= Cardinality(EmTransacao) + Cardinality(EmPlano) + 1
        /\ Cardinality(EmTransacao') \in Nat /\ Cardinality(EmPlano') \in Nat
    <2>1. CASE \E p : EmTransacao' \subseteq EmTransacao \cup {p} /\ EmPlano' = EmPlano
      <3>1. PICK p : EmTransacao' \subseteq EmTransacao \cup {p} /\ EmPlano' = EmPlano
        BY <2>1
      <3>2. IsFiniteSet(EmTransacao') /\ Cardinality(EmTransacao') <= Cardinality(EmTransacao) + 1
        BY <3>1, UmAMais, ContagemFinita
      <3> QED
        BY <3>1, <3>2, ContagemFinita, FS_CardinalityType
    <2>2. CASE \E k : EmPlano' \subseteq EmPlano \cup {k} /\ EmTransacao' = EmTransacao
      <3>1. PICK k : EmPlano' \subseteq EmPlano \cup {k} /\ EmTransacao' = EmTransacao
        BY <2>2
      <3>2. IsFiniteSet(EmPlano') /\ Cardinality(EmPlano') <= Cardinality(EmPlano) + 1
        BY <3>1, UmAMais, ContagemFinita
      <3> QED
        BY <3>1, <3>2, ContagemFinita, FS_CardinalityType
    <2> QED
      BY <2>1, <2>2
  <1>2. Livres' = Conexoes - Cardinality(EmTransacao') - Cardinality(EmPlano')
    BY DEF Livres, EmPlano
  <1> QED
    BY <1>1, <1>2, LivresDefinicao, ContagemFinita

LEMMA LivresPedido ==
    ASSUME Tipos, Livres >= 0, NEW p \in Pedido, NovoPedido(p) \/ PassoPedido(p) \/ Desistir(p)
    PROVE  Livres' >= 0
  <1>0. EmPlano' = EmPlano
    BY DEF NovoPedido, Criar, Editar, PassoPedido, Abrir, Selecionar, Validar, Travar, Verificar,
           Gravar, Cancelar, Excluir, Desistir, banco, doPlano, EmPlano
  <1>1. ASSUME Livres > 0, \A q \in Pedido \ {p} : pc'[q] = pc[q]
        PROVE  Livres' >= 0
    <2>1. EmTransacao' \subseteq EmTransacao \cup {p}
      BY <1>1 DEF EmTransacao
    <2> QED
      BY <1>0, <1>1, <2>1, UmaConexao
  <1>2. ASSUME \A q \in Pedido \ {p} : pc'[q] = pc[q], p \in EmTransacao' => p \in EmTransacao
        PROVE  Livres' >= 0
    <2>1. EmTransacao' \subseteq EmTransacao
      BY <1>2 DEF EmTransacao
    <2> QED
      BY <1>0, <2>1, SemConexao
  <1>3. \A q \in Pedido \ {p} : pc'[q] = pc[q]
    BY DEF Tipos, NovoPedido, Criar, Editar, PassoPedido, Abrir, Selecionar, Validar, Travar,
           Verificar, Gravar, Cancelar, Excluir, Desistir, Responder, banco, doPlano, doPedido
  <1>4. CASE Abrir(p) \/ \E r \in Reserva, tipo \in {"editar", "cancelar", "excluir"} : Editar(p, r, tipo)
    BY <1>1, <1>3, <1>4 DEF Abrir, Editar
  <1>5. CASE \/ \E r \in Reserva, v \in Vaga : Criar(p, r, v)
             \/ Selecionar(p) \/ Validar(p) \/ Travar(p) \/ Verificar(p) \/ Gravar(p)
             \/ Cancelar(p) \/ Excluir(p) \/ Desistir(p)
    <2>1. p \in EmTransacao' => p \in EmTransacao
      BY <1>5 DEF Tipos, Criar, Selecionar, Validar, Travar, Verificar, Gravar, Cancelar, Excluir,
                  Desistir, Responder, EmTransacao
    <2> QED
      BY <1>2, <1>3, <2>1
  <1> QED
    BY <1>4, <1>5 DEF NovoPedido, PassoPedido

LEMMA LivresPlanejador ==
    ASSUME Tipos, Livres >= 0, NEW k \in Chave,
           Candidatar(k) \/ PassoPlanejador(k) \/ Interromper(k)
    PROVE  Livres' >= 0
  <1> USE DEF Avancar, banco, doPlano, doPedido
  <1>0. EmTransacao' = EmTransacao
    BY DEF Candidatar, PassoPlanejador, AbrirExecucao, TravarExecucao, Iniciar, Ler, AbrirPlano,
           GravarPlano, GravarJaExiste, GravarErro, Finalizar, Interromper, EmTransacao
  <1>1. CASE AbrirExecucao(k) \/ AbrirPlano(k)
    <2>1. EmPlano' \subseteq EmPlano \cup {k} /\ Livres > 0
      BY <1>1 DEF AbrirExecucao, AbrirPlano, EmPlano, Tipos
    <2> QED
      BY <1>0, <2>1, UmaConexao
  <1>2. CASE ~AbrirExecucao(k) /\ ~AbrirPlano(k)
    <2>1. EmPlano' \subseteq EmPlano
      <3> USE DEF EmPlano, Tipos
      <3>1. CASE Candidatar(k) \/ TravarExecucao(k) \/ Iniciar(k) \/ Ler(k)
        BY <3>1 DEF Candidatar, TravarExecucao, Iniciar, Ler
      <3>2. CASE GravarPlano(k) \/ GravarJaExiste(k) \/ GravarErro(k)
        BY <3>2 DEF GravarPlano, GravarJaExiste, GravarErro, Encaminhar
      <3>3. CASE Finalizar(k) \/ Interromper(k)
        BY <3>3 DEF Finalizar, Interromper
      <3> QED
        BY <1>2, <3>1, <3>2, <3>3 DEF PassoPlanejador
    <2> QED
      BY <1>0, <2>1, SemConexao
  <1> QED
    BY <1>1, <1>2

LEMMA TipoPorPartes == TypeOK <=> Tipos /\ Livres >= 0
  BY DEF TypeOK, Tipos, DePedido, DeReserva

\* Type correctness for any number of requests, keys and connections, and no
\* more connections out than the pool has.
THEOREM TipoCorreto == Spec => []TypeOK
  <1>1. Init => TypeOK
    <2> SUFFICES ASSUME Init PROVE Livres >= 0
      BY TiposInit, TipoPorPartes
    <2>1. EmTransacao = {} /\ EmPlano = {}
      BY DEF Init, EmTransacao, EmPlano
    <2> QED
      BY <2>1, LivresDefinicao, FS_EmptySet, AmbienteAssumption
  <1>2. TypeOK /\ [Next]_vars => TypeOK'
    <2> SUFFICES ASSUME Tipos, Livres >= 0, [Next]_vars PROVE Livres' >= 0
      BY TiposNext, TipoPorPartes DEF TypeOK, Tipos, DePedido, DeReserva
    <2>1. CASE Ambiente \/ UNCHANGED vars
      BY <2>1, SemConexao DEF Ambiente, MudarMunicipio, vars, doPlano, doPedido, EmTransacao, EmPlano
    <2> QED
      BY <2>1, LivresPedido, LivresPlanejador DEF Next
  <1> QED
    BY <1>1, <1>2, PTL DEF Spec

-----------------------------------------------------------------------------
(* A concluded key has everybody in a trip *)

\* A reserva that exists keeps its date and shift: a POST writes a new row, and
\* a PUT that moves nothing writes back the vaga it selected.
VagaFixa ==
    \A p \in Pedido : pc[p] # "ocioso" =>
        IF pedido[p].tipo = "criar"
        THEN /\ reserva[pedido[p].reserva].status = "ausente"
             /\ \A q \in Pedido \ {p} : pc[q] # "ocioso" => pedido[q].reserva # pedido[p].reserva
        ELSE /\ reserva[pedido[p].reserva].status # "ausente"
             /\ pc[p] # "selecionar" => pedido[p].vaga = reserva[pedido[p].reserva].vaga

\* What no step does to a reserva that exists.
Permanece ==
    \A r \in Reserva : reserva[r].status # "ausente" =>
        reserva'[r].status # "ausente" /\ reserva'[r].vaga = reserva[r].vaga

LEMMA PermanecePedido ==
    ASSUME Tipos, VagaFixa, NEW p \in Pedido, NovoPedido(p) \/ PassoPedido(p) \/ Desistir(p)
    PROVE  /\ Permanece
           /\ \A r \in Reserva : reserva'[r] # reserva[r] => pc[p] # "ocioso" /\ r = pedido[p].reserva
  <1> USE DEF banco
  <1>1. CASE \/ Gravar(p)
             \/ Validar(p) /\ pedido[p].status = "cancelada"
    <2> DEFINE r == pedido[p].reserva
    <2>1. /\ r \in Reserva /\ pc[p] # "ocioso" /\ pc[p] # "selecionar"
          /\ reserva' = [reserva EXCEPT ![r] = [vaga |-> pedido[p].vaga,
                                                status |-> pedido[p].status]]
      BY <1>1 DEF Gravar, Validar, Gravada, Tipos
    <2>2. reserva[r].status # "ausente" => pedido[p].vaga = reserva[r].vaga
      BY <2>1 DEF VagaFixa
    <2>3. pedido[p].status # "ausente"
      BY DEF Tipos, DePedido
    <2>4. /\ \A s \in Reserva \ {r} : reserva'[s] = reserva[s]
          /\ reserva'[r].vaga = pedido[p].vaga /\ reserva'[r].status = pedido[p].status
      BY <2>1 DEF Tipos
    <2> HIDE DEF r
    <2>5. Permanece
      BY <2>2, <2>3, <2>4 DEF Permanece
    <2> QED
      BY <2>1, <2>4, <2>5 DEF r
  <1>2. CASE Cancelar(p) \/ Excluir(p)
    <2>1. pc[p] # "ocioso" /\ pedido[p].reserva \in Reserva
      BY <1>2 DEF Cancelar, Excluir, Tipos
    <2>2. \/ reserva' = reserva
          \/ \E s \in {"cancelada", "excluida"} :
                reserva' = [reserva EXCEPT ![pedido[p].reserva].status = s]
      BY <1>2 DEF Cancelar, Excluir
    <2>3. ASSUME NEW s \in {"cancelada", "excluida"}, NEW r \in Reserva,
                 reserva' = [reserva EXCEPT ![r].status = s]
          PROVE  /\ \A q \in Reserva \ {r} : reserva'[q] = reserva[q]
                 /\ reserva'[r].vaga = reserva[r].vaga /\ reserva'[r].status = s
      <3>1. reserva[r] \in DeReserva
        BY DEF Tipos
      <3>2. reserva'[r] = [reserva[r] EXCEPT !.status = s]
        BY <2>3 DEF Tipos
      <3> QED
        BY <2>3, <3>1, <3>2 DEF Tipos, DeReserva
    <2>4. CASE reserva' = reserva
      BY <2>1, <2>4 DEF Permanece
    <2>5. ASSUME NEW s \in {"cancelada", "excluida"},
                 reserva' = [reserva EXCEPT ![pedido[p].reserva].status = s]
          PROVE  /\ Permanece
                 /\ \A r \in Reserva : reserva'[r] # reserva[r] => r = pedido[p].reserva
      BY <2>1, <2>3, <2>5 DEF Permanece
    <2> QED
      BY <2>1, <2>2, <2>4, <2>5
  <1>3. CASE \/ NovoPedido(p) \/ Abrir(p) \/ Selecionar(p) \/ Travar(p) \/ Verificar(p) \/ Desistir(p)
             \/ Validar(p) /\ pedido[p].status # "cancelada"
    <2>1. reserva' = reserva
      BY <1>3 DEF NovoPedido, Criar, Editar, Abrir, Selecionar, Validar, Travar, Verificar, Desistir
    <2> QED
      BY <2>1 DEF Permanece
  <1> QED
    BY <1>1, <1>2, <1>3 DEF PassoPedido

\* A request answers, or goes on with the reserva, the type and the vaga it has.
LEMMA ProsseguePedido ==
    ASSUME Tipos, NEW p \in Pedido, PassoPedido(p) \/ Desistir(p), ~Remarca
    PROVE  /\ \A q \in Pedido \ {p} : pc'[q] = pc[q] /\ pedido'[q] = pedido[q]
           /\ \/ pc'[p] = "ocioso"
              \/ /\ pc[p] # "ocioso" /\ pc'[p] # "ocioso" /\ pc[p] # "selecionar"
                 /\ reserva' = reserva
                 /\ pedido'[p].reserva = pedido[p].reserva
                 /\ pedido'[p].tipo = pedido[p].tipo
                 /\ pedido'[p].vaga = pedido[p].vaga
              \/ /\ pc[p] = "selecionar" /\ pedido[p].tipo = "editar" /\ reserva' = reserva
                 /\ pedido'[p].reserva = pedido[p].reserva
                 /\ pedido'[p].tipo = pedido[p].tipo
                 /\ pedido'[p].vaga = reserva[pedido[p].reserva].vaga
  <1> USE DEF Tipos, banco, doPlano
  <1>1. CASE Responder(p)
    BY <1>1 DEF Responder
  <1>2. CASE ~Responder(p)
    <2>1. CASE Abrir(p)
      BY <2>1 DEF Abrir
    <2>2. CASE Selecionar(p)
      <3>1. PICK v \in Vaga, s \in {"confirmada", "cancelada"} :
               /\ v # reserva[pedido[p].reserva].vaga => Remarca
               /\ pedido' = [pedido EXCEPT ![p].vaga = v, ![p].status = s]
        BY <1>2, <2>2 DEF Selecionar
      <3>2. /\ pc[p] = "selecionar" /\ pedido[p].tipo = "editar"
            /\ pc' = [pc EXCEPT ![p] = "validar"] /\ reserva' = reserva
        BY <1>2, <2>2 DEF Selecionar
      <3>3. /\ \A q \in Pedido \ {p} : pedido'[q] = pedido[q]
            /\ pedido'[p].reserva = pedido[p].reserva /\ pedido'[p].tipo = pedido[p].tipo
            /\ pedido'[p].vaga = v
        BY <3>1 DEF DePedido
      <3> QED
        BY <3>1, <3>2, <3>3
    <2>3. CASE Validar(p)
      BY <1>2, <2>3 DEF Validar
    <2>4. CASE Travar(p)
      <3>1. /\ \A q \in Pedido \ {p} : pedido'[q] = pedido[q] /\ pc'[q] = pc[q]
            /\ pedido'[p].reserva = pedido[p].reserva /\ pedido'[p].tipo = pedido[p].tipo
            /\ pedido'[p].vaga = pedido[p].vaga
            /\ pc[p] = "travar" /\ pc'[p] = "verificar" /\ reserva' = reserva
        BY <2>4 DEF Travar, DePedido
      <3> QED
        BY <3>1
    <2>5. CASE Verificar(p)
      BY <1>2, <2>5 DEF Verificar
    <2> QED
      BY <1>2, <2>1, <2>2, <2>3, <2>4, <2>5
      DEF PassoPedido, Gravar, Cancelar, Excluir, Desistir
  <1> QED
    BY <1>1, <1>2

LEMMA VagaFixaNext ==
    ASSUME ~Remarca, Tipos, VagaFixa, [Next]_vars
    PROVE  VagaFixa' /\ Permanece
  <1>1. CASE UNCHANGED <<reserva, pc, pedido>>
    BY <1>1 DEF VagaFixa, Permanece
  <1>2. ASSUME NEW p \in Pedido, NovoPedido(p) PROVE VagaFixa' /\ Permanece
    <2> USE DEF banco, doPlano
    <2>1. ASSUME NEW r \in Reserva, NEW v \in Vaga, Criar(p, r, v) PROVE VagaFixa' /\ Permanece
      <3>1. /\ \A q \in Pedido \ {p} : pc'[q] = pc[q] /\ pedido'[q] = pedido[q]
            /\ pedido'[p].reserva = r /\ pedido'[p].tipo = "criar" /\ reserva' = reserva
            /\ reserva[r].status = "ausente" /\ pc[p] = "ocioso"
            /\ \A q \in Pedido : pc[q] # "ocioso" => pedido[q].reserva # r
        BY <2>1 DEF Criar, Tipos
      <3> QED
        BY <3>1 DEF VagaFixa, Permanece
    <2>2. ASSUME NEW r \in Reserva, NEW tipo \in {"editar", "cancelar", "excluir"},
                 Editar(p, r, tipo)
          PROVE  VagaFixa' /\ Permanece
      <3>1. /\ \A q \in Pedido \ {p} : pc'[q] = pc[q] /\ pedido'[q] = pedido[q]
            /\ pc'[p] = "selecionar" /\ reserva' = reserva /\ reserva[r].status # "ausente"
            /\ pc[p] = "ocioso"
        BY <2>2 DEF Editar, Tipos
      <3>2. pedido[p] \in DePedido
        BY DEF Tipos
      <3>3. pedido'[p] = [pedido[p] EXCEPT !.tipo = tipo, !.reserva = r]
        BY <2>2 DEF Editar, Tipos
      <3>4. pedido'[p].tipo = tipo /\ pedido'[p].reserva = r
        BY <3>2, <3>3 DEF DePedido
      <3> QED
        BY <3>1, <3>4 DEF VagaFixa, Permanece
    <2> QED
      BY <1>2, <2>1, <2>2 DEF NovoPedido
  <1>3. ASSUME NEW p \in Pedido, PassoPedido(p) \/ Desistir(p) PROVE VagaFixa' /\ Permanece
    <2>1. Permanece /\ \A r \in Reserva : reserva'[r] # reserva[r] =>
                           pc[p] # "ocioso" /\ r = pedido[p].reserva
      BY <1>3, PermanecePedido
    <2>2. /\ \A q \in Pedido \ {p} : pc'[q] = pc[q] /\ pedido'[q] = pedido[q]
          /\ \/ pc'[p] = "ocioso"
             \/ /\ pc[p] # "ocioso" /\ pc'[p] # "ocioso" /\ pc[p] # "selecionar"
                /\ reserva' = reserva
                /\ pedido'[p].reserva = pedido[p].reserva
                /\ pedido'[p].tipo = pedido[p].tipo
                /\ pedido'[p].vaga = pedido[p].vaga
             \/ /\ pc[p] = "selecionar" /\ pedido[p].tipo = "editar" /\ reserva' = reserva
                /\ pedido'[p].reserva = pedido[p].reserva
                /\ pedido'[p].tipo = pedido[p].tipo
                /\ pedido'[p].vaga = reserva[pedido[p].reserva].vaga
      BY <1>3, ProsseguePedido
    <2> SUFFICES ASSUME NEW q \in Pedido, pc'[q] # "ocioso"
                 PROVE  IF pedido'[q].tipo = "criar"
                        THEN /\ reserva'[pedido'[q].reserva].status = "ausente"
                             /\ \A o \in Pedido \ {q} :
                                   pc'[o] # "ocioso" => pedido'[o].reserva # pedido'[q].reserva
                        ELSE /\ reserva'[pedido'[q].reserva].status # "ausente"
                             /\ pc'[q] # "selecionar" =>
                                   pedido'[q].vaga = reserva'[pedido'[q].reserva].vaga
      BY <2>1 DEF VagaFixa
    <2>3. /\ pc[q] # "ocioso" /\ pedido[q].reserva \in Reserva
          /\ pedido'[q].reserva = pedido[q].reserva /\ pedido'[q].tipo = pedido[q].tipo
      BY <2>2 DEF Tipos
    <2>4. \A o \in Pedido : pc'[o] # "ocioso" =>
              pc[o] # "ocioso" /\ pedido'[o].reserva = pedido[o].reserva
      BY <2>2
    <2>5. CASE pedido[q].tipo = "criar"
      <3>1. /\ reserva[pedido[q].reserva].status = "ausente"
            /\ \A o \in Pedido \ {q} : pc[o] # "ocioso" => pedido[o].reserva # pedido[q].reserva
        BY <2>3, <2>5 DEF VagaFixa
      <3>2. reserva'[pedido[q].reserva] = reserva[pedido[q].reserva]
        BY <2>1, <2>2, <2>3, <3>1
      <3> QED
        BY <2>3, <2>4, <2>5, <3>1, <3>2
    <2>6. CASE pedido[q].tipo # "criar"
      <3>1. /\ reserva[pedido[q].reserva].status # "ausente"
            /\ pc[q] # "selecionar" => pedido[q].vaga = reserva[pedido[q].reserva].vaga
        BY <2>3, <2>6 DEF VagaFixa
      <3>2. /\ reserva'[pedido[q].reserva].status # "ausente"
            /\ reserva'[pedido[q].reserva].vaga = reserva[pedido[q].reserva].vaga
        BY <2>1, <2>3, <3>1 DEF Permanece
      <3> QED
        BY <2>2, <2>3, <2>6, <3>1, <3>2
    <2> QED
      BY <2>5, <2>6
  <1>4. ASSUME NEW k \in Chave, Candidatar(k) \/ PassoPlanejador(k) \/ Interromper(k)
        PROVE  UNCHANGED <<reserva, pc, pedido>>
    BY <1>4 DEF Candidatar, PassoPlanejador, AbrirExecucao, TravarExecucao, Iniciar, Ler, AbrirPlano,
                GravarPlano, GravarJaExiste, GravarErro, Finalizar, Interromper, banco, doPedido
  <1>5. CASE Ambiente \/ UNCHANGED vars
    BY <1>1, <1>5 DEF Ambiente, MudarMunicipio, vars, banco, doPedido
  <1> QED
    BY <1>1, <1>2, <1>3, <1>4, <1>5 DEF Next

\* Every confirmed reserva of k is in a trip of k.
TodosEmViagem(k) == \A r \in Confirmadas(k) : alocada[r] = k

\* What the planner of a key has read and written of the reservas of that key.
PlanoFiel ==
    /\ \A k \in Chave : \A r \in lidas[k] : reserva[r].status # "ausente" /\ ChaveDe(r) = k
    /\ \A r \in Reserva : alocada[r] # Nenhuma =>
          /\ reserva[r].status # "ausente" /\ ChaveDe(r) = alocada[r]
          /\ execucao[alocada[r]] # "ausente"
    /\ \A k \in Chave : planejador[k] \in {"planejar", "gravar"} => Confirmadas(k) \subseteq lidas[k]
    /\ \A k \in Chave : (\E r \in Reserva : alocada[r] = k) => TodosEmViagem(k)
    /\ \A k \in Chave : planejador[k] = "finalizar" /\ resultado[k] = "concluido" =>
          TodosEmViagem(k)
    /\ \A k \in Chave : execucao[k] = "concluido" => TodosEmViagem(k)

PlanoInv == TravaInv /\ VagaFixa /\ PlanoFiel

\* Steps of the requests: keys stay, and a key with an execution gains nobody.
LEMMA PlanoPedido ==
    ASSUME PlanoInv, Permanece, \A k \in Chave : execucao[k] # "ausente" =>
                                    Confirmadas(k)' \subseteq Confirmadas(k),
           UNCHANGED <<municipio, alocada, execucao, doPlano>>
    PROVE  PlanoFiel'
  <1> USE DEF PlanoInv, doPlano
  <1>1. \A r \in Reserva : reserva[r].status # "ausente" =>
            reserva'[r].status # "ausente" /\ ChaveDe(r)' = ChaveDe(r)
    BY DEF Permanece, ChaveDe
  <1>2. \A k \in Chave : execucao[k] # "ausente" /\ TodosEmViagem(k) => TodosEmViagem(k)'
    BY DEF TodosEmViagem
  <1>3. \A k \in Chave : \A r \in lidas[k] : r \in Reserva
    BY DEF TravaInv, Tipos
  <1>4. \A k \in Chave : planejador[k] \in {"ler", "planejar", "gravar", "finalizar"} =>
            execucao[k] # "ausente"
    BY DEF TravaInv, SemExecucaoSobTrava
  <1>5. Nenhuma \notin Chave
    BY DEF Nenhuma, Chave
  <1>6. \A k \in Chave, r \in Reserva : alocada[r] = k => execucao[k] # "ausente"
    BY <1>5 DEF PlanoFiel
  <1>a. (\A k \in Chave : \A r \in lidas[k] : reserva[r].status # "ausente" /\ ChaveDe(r) = k)'
    BY <1>1, <1>3 DEF PlanoFiel
  <1>b. (\A r \in Reserva : alocada[r] # Nenhuma =>
            /\ reserva[r].status # "ausente" /\ ChaveDe(r) = alocada[r]
            /\ execucao[alocada[r]] # "ausente")'
    BY <1>1 DEF PlanoFiel
  <1>c. (\A k \in Chave : planejador[k] \in {"planejar", "gravar"} =>
            Confirmadas(k) \subseteq lidas[k])'
    BY <1>4 DEF PlanoFiel
  <1>d. (\A k \in Chave : (\E r \in Reserva : alocada[r] = k) => TodosEmViagem(k))'
    BY <1>2, <1>6 DEF PlanoFiel
  <1>e. (\A k \in Chave : planejador[k] = "finalizar" /\ resultado[k] = "concluido" =>
            TodosEmViagem(k))'
    BY <1>2, <1>4 DEF PlanoFiel
  <1>f. (\A k \in Chave : execucao[k] = "concluido" => TodosEmViagem(k))'
    BY <1>2 DEF PlanoFiel
  <1> QED
    BY <1>a, <1>b, <1>c, <1>d, <1>e, <1>f DEF PlanoFiel

LEMMA PlanoPlanejador ==
    ASSUME PlanoInv, NEW k \in Chave, Candidatar(k) \/ PassoPlanejador(k) \/ Interromper(k)
    PROVE  PlanoFiel'
  <1> USE DEF banco, doPlano, doPedido, Avancar
  <1>0. Tipos /\ Nenhuma \notin Chave
    BY DEF PlanoInv, TravaInv, Nenhuma, Chave
  <1>1. reserva' = reserva /\ municipio' = municipio
    BY DEF Candidatar, PassoPlanejador, AbrirExecucao, TravarExecucao, Iniciar, Ler, AbrirPlano,
           GravarPlano, GravarJaExiste, GravarErro, Finalizar, Interromper
  <1>2. /\ \A r \in Reserva : ChaveDe(r)' = ChaveDe(r)
        /\ \A j \in Chave : Confirmadas(j)' = Confirmadas(j)
    BY <1>1 DEF ChaveDe, Confirmadas
  <1>3. ASSUME alocada' = alocada PROVE \A j \in Chave : TodosEmViagem(j)' = TodosEmViagem(j)
    BY <1>2, <1>3 DEF TodosEmViagem
  <1>4. CASE Candidatar(k) \/ AbrirExecucao(k) \/ TravarExecucao(k) \/ AbrirPlano(k) \/ Interromper(k)
    <2>1. alocada' = alocada /\ execucao' = execucao /\ resultado' = resultado
      BY <1>4 DEF Candidatar, AbrirExecucao, TravarExecucao, AbrirPlano, Interromper
    <2>2. \A j \in Chave :
             /\ lidas'[j] \subseteq lidas[j]
             /\ planejador'[j] \in {"planejar", "gravar"} =>
                   planejador[j] \in {"planejar", "gravar"} /\ lidas'[j] = lidas[j]
             /\ planejador'[j] = "finalizar" => planejador[j] = "finalizar"
      BY <1>0, <1>4 DEF Candidatar, AbrirExecucao, TravarExecucao, AbrirPlano, Interromper, Tipos
    <2>a. (\A j \in Chave : \A r \in lidas[j] : reserva[r].status # "ausente" /\ ChaveDe(r) = j)'
      BY <1>0, <1>1, <1>2, <2>2 DEF PlanoInv, PlanoFiel, Tipos
    <2>b. (\A j \in Chave : planejador[j] \in {"planejar", "gravar"} =>
              Confirmadas(j) \subseteq lidas[j])'
      BY <1>2, <2>2 DEF PlanoInv, PlanoFiel
    <2>c. (\A j \in Chave : planejador[j] = "finalizar" /\ resultado[j] = "concluido" =>
              TodosEmViagem(j))'
      BY <1>3, <2>1, <2>2 DEF PlanoInv, PlanoFiel
    <2> QED
      BY <1>1, <1>2, <1>3, <2>1, <2>a, <2>b, <2>c DEF PlanoInv, PlanoFiel
  <1>5. CASE Iniciar(k)
    <2>1. /\ alocada' = alocada /\ resultado' = resultado /\ lidas' = lidas
          /\ execucao' = [execucao EXCEPT ![k] = "processando"]
          /\ planejador' = [planejador EXCEPT ![k] = "ler"]
      BY <1>5 DEF Iniciar
    <2> QED
      BY <1>0, <1>1, <1>2, <1>3, <2>1 DEF PlanoInv, PlanoFiel, Tipos
  <1>6. CASE Ler(k)
    <2>1. /\ alocada' = alocada /\ execucao' = execucao
          /\ lidas' = [lidas EXCEPT ![k] = Confirmadas(k)]
          /\ \A j \in Chave \ {k} : planejador'[j] = planejador[j] /\ resultado'[j] = resultado[j]
          /\ planejador'[k] = "finalizar" => resultado'[k] = "sem_demanda"
      BY <1>0, <1>6 DEF Ler, Tipos
    <2>2. \A r \in Confirmadas(k) : r \in Reserva /\ reserva[r].status # "ausente" /\ ChaveDe(r) = k
      BY DEF Confirmadas
    <2>a. (\A j \in Chave : \A r \in lidas[j] : reserva[r].status # "ausente" /\ ChaveDe(r) = j)'
      BY <1>0, <1>1, <1>2, <2>1, <2>2 DEF PlanoInv, PlanoFiel, Tipos
    <2>b. (\A j \in Chave : planejador[j] \in {"planejar", "gravar"} =>
              Confirmadas(j) \subseteq lidas[j])'
      BY <1>0, <1>2, <2>1 DEF PlanoInv, PlanoFiel, Tipos
    <2>c. (\A j \in Chave : planejador[j] = "finalizar" /\ resultado[j] = "concluido" =>
              TodosEmViagem(j))'
      BY <1>3, <2>1 DEF PlanoInv, PlanoFiel
    <2> QED
      BY <1>1, <1>2, <1>3, <2>1, <2>a, <2>b, <2>c DEF PlanoInv, PlanoFiel
  <1>7. CASE GravarJaExiste(k)
    <2>1. /\ alocada' = alocada /\ execucao' = execucao /\ lidas' = lidas
          /\ planejador' = [planejador EXCEPT ![k] = "finalizar"]
          /\ resultado' = [resultado EXCEPT ![k] = "concluido"]
      BY <1>7 DEF GravarJaExiste, Encaminhar
    <2>2. PICK r \in lidas[k] : alocada[r] # Nenhuma
      BY <1>7 DEF GravarJaExiste
    <2>3. r \in Reserva /\ alocada[r] = k
      BY <1>0, <2>2 DEF PlanoInv, PlanoFiel, Tipos
    <2>4. TodosEmViagem(k)
      BY <2>3 DEF PlanoInv, PlanoFiel
    <2> QED
      BY <1>0, <1>1, <1>2, <1>3, <2>1, <2>4 DEF PlanoInv, PlanoFiel, Tipos
  <1>8. CASE GravarErro(k)
    <2>1. /\ alocada' = alocada /\ execucao' = execucao /\ lidas' = lidas
          /\ planejador' = [planejador EXCEPT ![k] = "finalizar"]
          /\ resultado' = [resultado EXCEPT ![k] = "falhou"]
      BY <1>8 DEF GravarErro, Encaminhar
    <2> QED
      BY <1>0, <1>1, <1>2, <1>3, <2>1 DEF PlanoInv, PlanoFiel, Tipos
  <1>9. CASE GravarPlano(k)
    <2>1. /\ execucao' = execucao /\ lidas' = lidas
          /\ planejador[k] = "gravar"
          /\ planejador' = [planejador EXCEPT ![k] = "finalizar"]
          /\ resultado' = [resultado EXCEPT ![k] = "concluido"]
          /\ \A r \in lidas[k] : alocada[r] = Nenhuma
          /\ alocada' = [r \in Reserva |-> IF r \in lidas[k] THEN k ELSE alocada[r]]
      BY <1>9 DEF GravarPlano, Encaminhar
    <2>2. execucao[k] # "ausente"
      BY <2>1 DEF PlanoInv, TravaInv, SemExecucaoSobTrava
    <2>3. TodosEmViagem(k)'
      <3>1. Confirmadas(k) \subseteq lidas[k]
        BY <2>1 DEF PlanoInv, PlanoFiel
      <3> QED
        BY <1>2, <2>1, <3>1 DEF TodosEmViagem, Confirmadas
    <2>4. \A j \in Chave \ {k} : TodosEmViagem(j) => TodosEmViagem(j)'
      BY <1>0, <1>2, <2>1 DEF TodosEmViagem, Confirmadas
    <2>5. \A j \in Chave \ {k}, r \in Reserva : alocada'[r] = j => alocada[r] = j
      BY <2>1
    <2>a. (\A r \in Reserva : alocada[r] # Nenhuma =>
              /\ reserva[r].status # "ausente" /\ ChaveDe(r) = alocada[r]
              /\ execucao[alocada[r]] # "ausente")'
      BY <1>1, <1>2, <2>1, <2>2 DEF PlanoInv, PlanoFiel
    <2>b. (\A j \in Chave : planejador[j] \in {"planejar", "gravar"} =>
              Confirmadas(j) \subseteq lidas[j])'
      BY <1>0, <1>2, <2>1 DEF PlanoInv, PlanoFiel, Tipos
    <2>c. (\A j \in Chave : (\E r \in Reserva : alocada[r] = j) => TodosEmViagem(j))'
      BY <2>3, <2>4, <2>5 DEF PlanoInv, PlanoFiel
    <2>d. (\A j \in Chave : planejador[j] = "finalizar" /\ resultado[j] = "concluido" =>
              TodosEmViagem(j))'
      BY <1>0, <2>1, <2>3, <2>4 DEF PlanoInv, PlanoFiel, Tipos
    <2>e. (\A j \in Chave : execucao[j] = "concluido" => TodosEmViagem(j))'
      BY <2>1, <2>3, <2>4 DEF PlanoInv, PlanoFiel
    <2>f. (\A j \in Chave : \A r \in lidas[j] : reserva[r].status # "ausente" /\ ChaveDe(r) = j)'
      BY <1>0, <1>1, <1>2, <2>1 DEF PlanoInv, PlanoFiel, Tipos
    <2> QED
      BY <2>a, <2>b, <2>c, <2>d, <2>e, <2>f DEF PlanoFiel
  <1>10. CASE Finalizar(k)
    <2>1. /\ alocada' = alocada /\ resultado' = resultado
          /\ planejador[k] = "finalizar"
          /\ execucao' = [execucao EXCEPT ![k] = resultado[k]]
          /\ planejador' = [planejador EXCEPT ![k] = "ocioso"]
          /\ lidas' = [lidas EXCEPT ![k] = {}]
      BY <1>10 DEF Finalizar
    <2>2. resultado[k] # "ausente"
      BY <1>0 DEF Tipos, Terminal
    <2> QED
      BY <1>0, <1>1, <1>2, <1>3, <2>1, <2>2 DEF PlanoInv, PlanoFiel, Tipos
  <1> QED
    BY <1>4, <1>5, <1>6, <1>7, <1>8, <1>9, <1>10 DEF PassoPlanejador

LEMMA PlanoNext ==
    ASSUME ~MudaMunicipio, ~Remarca, PlanoInv, [Next]_vars
    PROVE  PlanoInv'
  <1>1. TravaInv' /\ VagaFixa' /\ Permanece
    BY TravaNext, VagaFixaNext DEF PlanoInv, TravaInv
  <1>2. ASSUME municipio' = municipio, UNCHANGED <<alocada, execucao, doPlano>>
        PROVE  PlanoFiel'
    <2>1. SemAcrescimo
      BY <1>2, NaoEntraNext DEF PlanoInv
    <2> QED
      BY <1>1, <1>2, <2>1, PlanoPedido DEF SemAcrescimo
  <1>3. ASSUME NEW p \in Pedido, NovoPedido(p) \/ PassoPedido(p) \/ Desistir(p)
        PROVE  UNCHANGED <<municipio, alocada, execucao, doPlano>>
    BY <1>3 DEF NovoPedido, Criar, Editar, PassoPedido, Abrir, Selecionar, Validar, Travar, Verificar,
                Gravar, Cancelar, Excluir, Desistir, banco
  <1>4. ASSUME Ambiente \/ UNCHANGED vars
        PROVE  UNCHANGED <<municipio, alocada, execucao, doPlano>>
    BY <1>4 DEF Ambiente, MudarMunicipio, vars, banco
  <1>5. PlanoFiel'
    BY <1>2, <1>3, <1>4, PlanoPlanejador DEF Next
  <1> QED
    BY <1>1, <1>5 DEF PlanoInv

\* While no PUT moves a reserva to another date or shift and no destino moves
\* to another municipio, a key that is concluded has everybody in a trip of the
\* key: also when the transaction was refused as "already planned".
THEOREM TodosPlanejados ==
    ASSUME ~MudaMunicipio, ~Remarca
    PROVE  Spec => []TodaConfirmadaPlanejada
  <1>1. Init => PlanoInv
    BY TravaInit DEF Init, PlanoInv, VagaFixa, PlanoFiel, TodosEmViagem, Nenhuma, Chave
  <1>2. PlanoInv /\ [Next]_vars => PlanoInv'
    BY PlanoNext
  <1>3. PlanoInv => TodaConfirmadaPlanejada
    BY DEF PlanoInv, PlanoFiel, TodosEmViagem, TodaConfirmadaPlanejada
  <1> QED
    BY <1>1, <1>2, <1>3, PTL DEF Spec

-----------------------------------------------------------------------------
(* The promise to those who book (Inscricao) *)

\* A planner works on a key that has not ended, and what it will write as the
\* key's end is decided; the trips of a key have all that a planner has listed.
PlanejadorFiel ==
    /\ \A k \in Chave : planejador[k] # "ocioso" => execucao[k] \notin Terminal
    /\ \A k \in Chave : planejador[k] \in {"planejar", "gravar"} => lidas[k] # {}
    /\ \A k \in Chave : planejador[k] \notin {"planejar", "gravar", "finalizar"} => lidas[k] = {}
    /\ \A k \in Chave : Embarcadas(k) # {} => lidas[k] \subseteq Embarcadas(k)
    /\ \A k \in Chave : planejador[k] = "finalizar" /\ resultado[k] = "concluido" =>
          Embarcadas(k) # {}

\* From the closing of a key on, whoever is confirmed or listed was confirmed then.
ChamadaFiel ==
    /\ fechamento \in [Chave -> SUBSET Reserva]
    /\ \A k \in Chave : execucao[k] # "ausente" => Confirmadas(k) \subseteq fechamento[k]
    /\ \A k \in Chave : lidas[k] \subseteq fechamento[k]

InscricaoInv == PlanoInv /\ SemDemandaInv /\ PlanejadorFiel /\ ChamadaFiel

LEMMA MunicipioFixo ==
    ASSUME ~MudaMunicipio, [Next]_vars
    PROVE  municipio' = municipio
  BY DEF Next, Ambiente, MudarMunicipio, NovoPedido, Criar, Editar, PassoPedido, Abrir, Selecionar,
         Validar, Travar, Verificar, Gravar, Cancelar, Excluir, Desistir, Candidatar,
         PassoPlanejador, AbrirExecucao, TravarExecucao, Iniciar, Ler, AbrirPlano, GravarPlano,
         GravarJaExiste, GravarErro, Finalizar, Interromper, vars, banco

\* Requests leave the planners, the executions and the trips alone.
LEMMA PedidoConserva ==
    ASSUME NEW p \in Pedido, NovoPedido(p) \/ PassoPedido(p) \/ Desistir(p)
    PROVE  UNCHANGED <<municipio, alocada, execucao, doPlano>>
  BY DEF NovoPedido, Criar, Editar, PassoPedido, Abrir, Selecionar, Validar, Travar, Verificar,
         Gravar, Cancelar, Excluir, Desistir, banco

\* Planners leave the reservas alone.
LEMMA PlanejadorConserva ==
    ASSUME NEW k \in Chave, Candidatar(k) \/ PassoPlanejador(k) \/ Interromper(k)
    PROVE  /\ UNCHANGED <<municipio, reserva, pc, pedido>>
           /\ \A j \in Chave : Confirmadas(j)' = Confirmadas(j)
  <1>1. UNCHANGED <<municipio, reserva, pc, pedido>>
    BY DEF Candidatar, PassoPlanejador, AbrirExecucao, TravarExecucao, Iniciar, Ler, AbrirPlano,
           GravarPlano, GravarJaExiste, GravarErro, Finalizar, Interromper, banco, doPedido
  <1> QED
    BY <1>1 DEF Confirmadas, ChaveDe

LEMMA PlanejadorFielPasso ==
    ASSUME PlanoInv, PlanejadorFiel, NEW k \in Chave,
           Candidatar(k) \/ PassoPlanejador(k) \/ Interromper(k)
    PROVE  PlanejadorFiel'
  <1> USE DEF banco, doPlano, doPedido, Avancar
  <1>0. Tipos /\ Nenhuma \notin Chave
    BY DEF PlanoInv, TravaInv, Nenhuma, Chave
  <1>1. \A j \in Chave : lidas[j] \in SUBSET Reserva
    BY <1>0 DEF Tipos
  <1>2. ASSUME alocada' = alocada PROVE \A j \in Chave : Embarcadas(j)' = Embarcadas(j)
    BY <1>2 DEF Embarcadas
  <1>3. CASE Candidatar(k) \/ AbrirExecucao(k) \/ TravarExecucao(k) \/ AbrirPlano(k)
    <2>1. /\ UNCHANGED <<alocada, execucao, resultado, lidas>>
          /\ \A j \in Chave \ {k} : planejador'[j] = planejador[j]
          /\ planejador'[k] # "ocioso" => execucao[k] \notin Terminal
          /\ planejador'[k] \in {"candidato", "travar", "iniciar", "gravar"}
          /\ planejador'[k] = "gravar" => planejador[k] = "planejar"
          /\ planejador'[k] # "gravar" => planejador[k] \in {"ocioso", "candidato", "travar"}
      BY <1>0, <1>3 DEF Candidatar, AbrirExecucao, TravarExecucao, AbrirPlano, PlanejadorFiel, Tipos
    <2> QED
      BY <1>2, <2>1 DEF PlanejadorFiel
  <1>4. CASE Interromper(k) \/ Finalizar(k)
    <2>1. /\ UNCHANGED <<alocada, resultado>>
          /\ planejador' = [planejador EXCEPT ![k] = "ocioso"]
          /\ lidas' = [lidas EXCEPT ![k] = {}]
          /\ \A j \in Chave \ {k} : execucao'[j] = execucao[j]
      BY <1>0, <1>4 DEF Interromper, Finalizar, Tipos
    <2> QED
      BY <1>0, <1>2, <2>1 DEF PlanejadorFiel, Tipos
  <1>5. CASE Iniciar(k)
    <2>1. /\ UNCHANGED <<alocada, resultado, lidas>>
          /\ planejador[k] = "iniciar"
          /\ planejador' = [planejador EXCEPT ![k] = "ler"]
          /\ execucao' = [execucao EXCEPT ![k] = "processando"]
      BY <1>5 DEF Iniciar
    <2> QED
      BY <1>0, <1>2, <2>1 DEF PlanejadorFiel, Tipos, Terminal
  <1>6. CASE Ler(k)
    <2>1. /\ UNCHANGED <<alocada, execucao>>
          /\ planejador[k] = "ler"
          /\ lidas' = [lidas EXCEPT ![k] = Confirmadas(k)]
          /\ \A j \in Chave \ {k} : planejador'[j] = planejador[j] /\ resultado'[j] = resultado[j]
          /\ \/ Confirmadas(k) = {} /\ planejador'[k] = "finalizar" /\ resultado'[k] = "sem_demanda"
             \/ Confirmadas(k) # {} /\ planejador'[k] = "planejar"
      BY <1>0, <1>6 DEF Ler, Tipos
    <2>2. Embarcadas(k) # {} => Confirmadas(k) \subseteq Embarcadas(k)
      BY DEF PlanoInv, PlanoFiel, TodosEmViagem, Embarcadas, Confirmadas
    <2>3. lidas'[k] = Confirmadas(k) /\ \A j \in Chave \ {k} : lidas'[j] = lidas[j]
      BY <1>0, <2>1 DEF Tipos
    <2>4. \A j \in Chave : Embarcadas(j)' = Embarcadas(j)
      BY <1>2, <2>1
    <2> QED
      BY <2>1, <2>2, <2>3, <2>4 DEF PlanejadorFiel
  <1>7. CASE GravarJaExiste(k) \/ GravarErro(k)
    <2>1. /\ UNCHANGED <<alocada, execucao, lidas>>
          /\ planejador[k] = "gravar"
          /\ planejador' = [planejador EXCEPT ![k] = "finalizar"]
          /\ \A j \in Chave \ {k} : resultado'[j] = resultado[j]
          /\ resultado'[k] = "concluido" => \E r \in lidas[k] : alocada[r] # Nenhuma
      BY <1>0, <1>7 DEF GravarJaExiste, GravarErro, Encaminhar, Tipos
    <2>2. ASSUME NEW r \in lidas[k], alocada[r] # Nenhuma PROVE r \in Embarcadas(k)
      BY <1>1, <2>2 DEF PlanoInv, PlanoFiel, Embarcadas
    <2> QED
      BY <1>0, <1>2, <2>1, <2>2 DEF PlanejadorFiel, Tipos
  <1>8. CASE GravarPlano(k)
    <2>1. /\ UNCHANGED <<execucao, lidas>>
          /\ planejador[k] = "gravar"
          /\ planejador' = [planejador EXCEPT ![k] = "finalizar"]
          /\ \A j \in Chave \ {k} : resultado'[j] = resultado[j]
          /\ \A r \in lidas[k] : alocada[r] = Nenhuma
          /\ alocada' = [r \in Reserva |-> IF r \in lidas[k] THEN k ELSE alocada[r]]
      BY <1>0, <1>8 DEF GravarPlano, Encaminhar, Tipos
    <2>2. lidas[k] # {} /\ lidas[k] \subseteq Embarcadas(k)'
      BY <1>1, <2>1 DEF PlanejadorFiel, Embarcadas
    <2>3. \A j \in Chave \ {k} : Embarcadas(j)' = Embarcadas(j)
      BY <1>0, <2>1 DEF Embarcadas
    <2> QED
      BY <1>0, <2>1, <2>2, <2>3 DEF PlanejadorFiel, Tipos
  <1> QED
    BY <1>3, <1>4, <1>5, <1>6, <1>7, <1>8 DEF PassoPlanejador

\* Nobody enters a key after it closed, so the roll stays good.
LEMMA ChamadaFielPasso ==
    ASSUME ~MudaMunicipio, InscricaoInv, [Next]_vars, Anotar
    PROVE  ChamadaFiel'
  <1>0. SemAcrescimo
    BY MunicipioFixo, NaoEntraNext DEF InscricaoInv, PlanoInv
  <1>1. Tipos /\ \A k \in Chave : Confirmadas(k) \in SUBSET Reserva
    BY DEF InscricaoInv, PlanoInv, TravaInv, Confirmadas
  <1>2. fechamento' \in [Chave -> SUBSET Reserva]
    BY <1>1 DEF InscricaoInv, ChamadaFiel, Anotar
  <1>3. \A k \in Chave : fechamento'[k] =
            IF execucao[k] = "ausente" /\ execucao'[k] # "ausente"
            THEN Confirmadas(k) ELSE fechamento[k]
    BY DEF Anotar
  <1>4. ASSUME \A k \in Chave : execucao'[k] # execucao[k] => Confirmadas(k)' = Confirmadas(k),
               \A k \in Chave : execucao[k] # "ausente" => execucao'[k] # "ausente",
               \A k \in Chave : \/ lidas'[k] \subseteq lidas[k]
                                \/ execucao[k] # "ausente" /\ lidas'[k] = Confirmadas(k),
               \A k \in Chave : execucao[k] = "ausente" => lidas'[k] = {}
        PROVE  ChamadaFiel'
    BY <1>0, <1>2, <1>3, <1>4 DEF InscricaoInv, ChamadaFiel, SemAcrescimo
  <1>5. \A k \in Chave : execucao[k] = "ausente" =>
            planejador[k] \notin {"ler", "planejar", "gravar", "finalizar"} /\ lidas[k] = {}
    BY DEF InscricaoInv, PlanoInv, TravaInv, SemExecucaoSobTrava, PlanejadorFiel
  <1>6. CASE UNCHANGED <<execucao, lidas>>
    <2>1. \A k \in Chave : execucao'[k] = execucao[k] /\ lidas'[k] = lidas[k]
      BY <1>6
    <2> QED
      BY <1>4, <1>5, <2>1
  <1>7. ASSUME NEW k \in Chave, Candidatar(k) \/ PassoPlanejador(k) \/ Interromper(k)
        PROVE  ChamadaFiel'
    <2> USE DEF banco, doPlano, doPedido, Avancar
    <2>1. \A j \in Chave : Confirmadas(j)' = Confirmadas(j)
      BY <1>7, PlanejadorConserva
    <2>2. \A j \in Chave : \/ lidas'[j] \subseteq lidas[j]
                           \/ planejador[j] = "ler" /\ lidas'[j] = Confirmadas(j)
      <3>1. CASE Ler(k)
        BY <1>1, <3>1 DEF Ler, Tipos
      <3>2. CASE Interromper(k) \/ Finalizar(k)
        BY <1>1, <3>2 DEF Interromper, Finalizar, Tipos
      <3>3. CASE lidas' = lidas
        BY <3>3
      <3> QED
        BY <1>7, <3>1, <3>2, <3>3 DEF Candidatar, PassoPlanejador, AbrirExecucao, TravarExecucao,
           Iniciar, AbrirPlano, GravarPlano, GravarJaExiste, GravarErro
    <2>3. \A j \in Chave : execucao[j] # "ausente" => execucao'[j] # "ausente"
      BY <1>1, <1>7 DEF Candidatar, PassoPlanejador, AbrirExecucao, TravarExecucao, Iniciar, Ler,
         AbrirPlano, GravarPlano, GravarJaExiste, GravarErro, Finalizar, Interromper, Tipos, Terminal
    <2> QED
      BY <1>4, <1>5, <2>1, <2>2, <2>3
  <1>8. ASSUME NEW p \in Pedido, NovoPedido(p) \/ PassoPedido(p) \/ Desistir(p)
        PROVE  UNCHANGED <<execucao, lidas>>
    BY <1>8, PedidoConserva DEF doPlano
  <1>9. ASSUME Ambiente \/ UNCHANGED vars PROVE UNCHANGED <<execucao, lidas>>
    BY <1>9 DEF Ambiente, MudarMunicipio, vars, banco, doPlano
  <1> QED
    BY <1>6, <1>7, <1>8, <1>9 DEF Next

LEMMA InscricaoPasso ==
    ASSUME ~MudaMunicipio, ~Remarca, InscricaoInv, [Next]_vars, Anotar \/ UNCHANGED <<vars, fechamento>>
    PROVE  InscricaoInv'
  <1>1. PlanoInv' /\ SemDemandaInv'
    BY PlanoNext, SemDemandaNext DEF InscricaoInv
  <1>2. PlanejadorFiel'
    <2>1. ASSUME UNCHANGED <<alocada, execucao, doPlano>> PROVE PlanejadorFiel'
      BY <2>1 DEF InscricaoInv, PlanejadorFiel, Embarcadas, doPlano
    <2>2. ASSUME Ambiente \/ UNCHANGED vars PROVE UNCHANGED <<alocada, execucao, doPlano>>
      BY <2>2 DEF Ambiente, MudarMunicipio, vars, banco
    <2> QED
      BY <2>1, <2>2, PedidoConserva, PlanejadorFielPasso DEF Next, InscricaoInv
  <1>3. ASSUME UNCHANGED <<vars, fechamento>> PROVE ChamadaFiel'
    BY <1>3 DEF InscricaoInv, ChamadaFiel, Confirmadas, ChaveDe, vars, banco, doPlano
  <1> QED
    BY <1>1, <1>2, <1>3, ChamadaFielPasso DEF InscricaoInv

-----------------------------------------------------------------------------
(* Every step is one of Inscricao or a stutter *)

\* A request changes one reserva, which enters or leaves the key it always had.
LEMMA PedidoImplementa ==
    ASSUME ~MudaMunicipio, InscricaoInv, Anotar,
           NEW p \in Pedido, NovoPedido(p) \/ PassoPedido(p) \/ Desistir(p)
    PROVE  [Lista!NextInscricao]_(Lista!varsInscricao)
  <1> DEFINE r == pedido[p].reserva
             de(k) == Confirmadas(k)
  <1>1. UNCHANGED <<municipio, alocada, execucao>>
    BY PedidoConserva
  <1>2. /\ \A k \in Chave : situacaoDe(execucao[k])' = situacaoDe(execucao[k])
        /\ \A k \in Chave : Embarcadas(k)' = Embarcadas(k)
        /\ fechamento' = fechamento
    BY <1>1 DEF Anotar, situacaoDe, Embarcadas, InscricaoInv, ChamadaFiel
  <1>3. Permanece /\ \A s \in Reserva : reserva'[s] # reserva[s] => pc[p] # "ocioso" /\ s = r
    BY PermanecePedido DEF InscricaoInv, PlanoInv, TravaInv
  <1>4. SemAcrescimo
    BY <1>1, NaoEntraNext DEF InscricaoInv, PlanoInv, Next
  <1>5. \A k \in Chave, s \in Reserva :
            s # r => (s \in Confirmadas(k)' <=> s \in Confirmadas(k))
    BY <1>1, <1>3 DEF Confirmadas, ChaveDe
  <1>6. CASE \A k \in Chave : Confirmadas(k)' = Confirmadas(k)
    BY <1>2, <1>6 DEF Lista!varsInscricao
  <1>7. CASE \E k \in Chave : Confirmadas(k)' # Confirmadas(k)
    <2>1. PICK k \in Chave : Confirmadas(k)' # Confirmadas(k)
      BY <1>7
    <2>2. r \in Reserva /\ (r \in Confirmadas(k)' <=> r \notin Confirmadas(k))
      BY <1>5, <2>1 DEF Confirmadas
    <2>3. CASE r \in Confirmadas(k)
      <3>1. /\ Confirmadas(k)' = Confirmadas(k) \ {r}
            /\ \A j \in Chave \ {k} : Confirmadas(j)' = Confirmadas(j)
        <4>1. \A j \in Chave : r \notin Confirmadas(j)'
          BY <1>1, <1>3, <2>2, <2>3 DEF Permanece, Confirmadas, ChaveDe
        <4>2. \A j \in Chave \ {k} : r \notin Confirmadas(j)
          BY <2>3 DEF Confirmadas
        <4> QED
          BY <1>5, <4>1, <4>2 DEF Confirmadas
      <3>2. Lista!Sair(k, r)
        BY <1>2, <2>3, <3>1 DEF Lista!Sair
      <3> QED
        BY <2>2, <3>2 DEF Lista!NextInscricao
    <2>4. CASE r \notin Confirmadas(k)
      <3>1. \A j \in Chave : r \notin Confirmadas(j)
        BY <1>1, <1>3, <2>2, <2>4 DEF Permanece, Confirmadas, ChaveDe
      <3>2. /\ Confirmadas(k)' = Confirmadas(k) \cup {r}
            /\ \A j \in Chave \ {k} : Confirmadas(j)' = Confirmadas(j)
        <4>1. \A j \in Chave \ {k} : r \notin Confirmadas(j)'
          BY <2>2, <2>4 DEF Confirmadas
        <4> QED
          BY <1>5, <2>2, <2>4, <3>1, <4>1 DEF Confirmadas
      <3>3. situacaoDe(execucao[k]) = "aberta"
        BY <2>2, <2>4, <1>4 DEF SemAcrescimo, situacaoDe
      <3>4. Lista!Inscrever(k, r)
        BY <1>2, <3>1, <3>2, <3>3 DEF Lista!Inscrever
      <3> QED
        BY <2>2, <3>4 DEF Lista!NextInscricao
    <2> QED
      BY <2>3, <2>4
  <1> QED
    BY <1>6, <1>7

LEMMA PlanejadorImplementa ==
    ASSUME InscricaoInv, Anotar,
           NEW k \in Chave, Candidatar(k) \/ PassoPlanejador(k) \/ Interromper(k)
    PROVE  [Lista!NextInscricao]_(Lista!varsInscricao)
  <1> USE DEF banco, doPlano, doPedido, Avancar
  <1>0. Tipos /\ Nenhuma \notin Chave
    BY DEF InscricaoInv, PlanoInv, TravaInv, Nenhuma, Chave
  <1>1. \A j \in Chave : Confirmadas(j)' = Confirmadas(j)
    BY PlanejadorConserva
  <1>2. ASSUME UNCHANGED <<alocada, execucao>> PROVE UNCHANGED Lista!varsInscricao
    BY <1>1, <1>2 DEF Anotar, Embarcadas, InscricaoInv, ChamadaFiel, Lista!varsInscricao
  <1>3. CASE Iniciar(k)
    <2>1. /\ alocada' = alocada /\ planejador[k] = "iniciar"
          /\ execucao' = [execucao EXCEPT ![k] = "processando"]
      BY <1>3 DEF Iniciar
    <2>2. execucao[k] \notin Terminal /\ execucao[k] \in Status
      BY <1>0, <2>1 DEF InscricaoInv, PlanejadorFiel, Tipos
    <2>3. /\ \A j \in Chave : Embarcadas(j)' = Embarcadas(j)
          /\ execucao'[k] = "processando" /\ \A j \in Chave \ {k} : execucao'[j] = execucao[j]
      BY <1>0, <2>1 DEF Embarcadas, Tipos
    <2>4. CASE execucao[k] = "ausente"
      <3>1. /\ situacaoDe(execucao[k]) = "aberta" /\ situacaoDe(execucao[k])' = "fechada"
            /\ \A j \in Chave \ {k} : situacaoDe(execucao[j])' = situacaoDe(execucao[j])
        BY <2>3, <2>4 DEF situacaoDe
      <3>2. fechamento' = [fechamento EXCEPT ![k] = Confirmadas(k)]
        BY <2>3, <2>4 DEF Anotar, InscricaoInv, ChamadaFiel
      <3>3. Lista!Fechar(k)
        BY <1>1, <2>3, <3>1, <3>2 DEF Lista!Fechar
      <3> QED
        BY <3>3 DEF Lista!NextInscricao
    <2>5. CASE execucao[k] # "ausente"
      <3>1. \A j \in Chave : situacaoDe(execucao[j])' = situacaoDe(execucao[j])
        BY <2>2, <2>3, <2>5 DEF situacaoDe, Terminal, Status
      <3>2. fechamento' = fechamento
        BY <2>3, <2>5 DEF Anotar, InscricaoInv, ChamadaFiel
      <3> QED
        BY <1>1, <2>3, <3>1, <3>2 DEF Lista!varsInscricao
    <2> QED
      BY <2>4, <2>5
  <1>4. CASE GravarPlano(k)
    <2>1. /\ execucao' = execucao /\ planejador[k] = "gravar"
          /\ \A r \in lidas[k] : alocada[r] = Nenhuma
          /\ alocada' = [r \in Reserva |-> IF r \in lidas[k] THEN k ELSE alocada[r]]
      BY <1>4 DEF GravarPlano
    <2>2. /\ lidas[k] # {} /\ lidas[k] \in SUBSET Reserva
          /\ Confirmadas(k) \subseteq lidas[k] /\ lidas[k] \subseteq fechamento[k]
      BY <1>0, <2>1 DEF InscricaoInv, PlanejadorFiel, ChamadaFiel, PlanoInv, PlanoFiel, Tipos
    <2>3. Embarcadas(k) = {}
      BY <1>0, <2>1, <2>2 DEF InscricaoInv, PlanejadorFiel, Embarcadas
    <2>4. Embarcadas(k)' = lidas[k] /\ \A j \in Chave \ {k} : Embarcadas(j)' = Embarcadas(j)
      BY <1>0, <2>1, <2>2, <2>3 DEF Embarcadas
    <2>5. execucao[k] # "ausente" /\ execucao[k] \notin Terminal
      BY <2>1 DEF InscricaoInv, PlanejadorFiel, PlanoInv, TravaInv, SemExecucaoSobTrava
    <2>6. /\ situacaoDe(execucao[k]) = "fechada"
          /\ \A j \in Chave : situacaoDe(execucao[j])' = situacaoDe(execucao[j])
          /\ fechamento' = fechamento
      BY <2>1, <2>5 DEF situacaoDe, Terminal, Anotar, InscricaoInv, ChamadaFiel
    <2>7. Lista!Embarcar(k, lidas[k])
      BY <1>1, <2>2, <2>3, <2>4, <2>6 DEF Lista!Embarcar
    <2> QED
      BY <2>2, <2>7 DEF Lista!NextInscricao
  <1>5. CASE Finalizar(k)
    <2>1. /\ alocada' = alocada /\ planejador[k] = "finalizar"
          /\ execucao' = [execucao EXCEPT ![k] = resultado[k]]
      BY <1>5 DEF Finalizar
    <2>2. /\ execucao[k] # "ausente" /\ execucao[k] \notin Terminal
          /\ resultado[k] \in Terminal \cup {"falhou"}
      BY <1>0, <2>1 DEF InscricaoInv, PlanejadorFiel, PlanoInv, TravaInv, SemExecucaoSobTrava, Tipos
    <2>3. /\ execucao'[k] = resultado[k] /\ \A j \in Chave \ {k} : execucao'[j] = execucao[j]
          /\ \A j \in Chave : Embarcadas(j)' = Embarcadas(j)
      BY <1>0, <2>1 DEF Embarcadas, Tipos
    <2>4. /\ situacaoDe(execucao[k]) = "fechada"
          /\ \A j \in Chave \ {k} : situacaoDe(execucao[j])' = situacaoDe(execucao[j])
          /\ fechamento' = fechamento
      BY <2>2, <2>3 DEF situacaoDe, Terminal, Anotar, InscricaoInv, ChamadaFiel
    <2>5. CASE resultado[k] = "falhou"
      <3>1. situacaoDe(execucao[k])' = "fechada"
        BY <2>3, <2>5 DEF situacaoDe
      <3> QED
        BY <1>1, <2>3, <2>4, <3>1 DEF Lista!varsInscricao
    <2>6. CASE resultado[k] = "concluido"
      <3>1. Embarcadas(k) # {} /\ Confirmadas(k) \subseteq Embarcadas(k)
        BY <2>1, <2>6 DEF InscricaoInv, PlanejadorFiel, PlanoInv, PlanoFiel, TodosEmViagem,
           Embarcadas, Confirmadas
      <3>2. situacaoDe(execucao[k])' = "planejada"
        BY <2>3, <2>6 DEF situacaoDe
      <3>3. Lista!Encerrar(k, "planejada")
        BY <1>1, <2>3, <2>4, <3>1, <3>2 DEF Lista!Encerrar
      <3> QED
        BY <3>3 DEF Lista!NextInscricao
    <2>7. CASE resultado[k] = "sem_demanda"
      <3>1. Confirmadas(k) = {}
        BY <2>1, <2>7 DEF InscricaoInv, SemDemandaInv, SemDemandaDecidida
      <3>2. situacaoDe(execucao[k])' = "vazia"
        BY <2>3, <2>7 DEF situacaoDe
      <3>3. Lista!Encerrar(k, "vazia")
        BY <1>1, <2>3, <2>4, <3>1, <3>2 DEF Lista!Encerrar
      <3> QED
        BY <3>3 DEF Lista!NextInscricao
    <2> QED
      BY <2>2, <2>5, <2>6, <2>7 DEF Terminal
  <1>6. CASE ~(Iniciar(k) \/ GravarPlano(k) \/ Finalizar(k))
    <2>1. UNCHANGED <<alocada, execucao>>
      BY <1>6 DEF Candidatar, PassoPlanejador, AbrirExecucao, TravarExecucao, Ler, AbrirPlano,
         GravarJaExiste, GravarErro, Interromper
    <2> QED
      BY <1>2, <2>1
  <1> QED
    BY <1>3, <1>4, <1>5, <1>6

\* While no PUT moves a reserva to another date or shift and no destino moves to
\* another municipio, requests and planners keep what Inscricao promises to those
\* who book, for any number of them: nobody enters after the closing, the trips are
\* made once and carry all who are still booked and none who was not on the roll.
THEOREM ReservaImplementa ==
    ASSUME ~MudaMunicipio, ~Remarca
    PROVE  SpecFechamento => ImplementaInscricao
  <1>1. Init /\ fechamento = [k \in Chave |-> {}] => InscricaoInv
    <2> SUFFICES ASSUME Init, fechamento = [k \in Chave |-> {}] PROVE InscricaoInv
      OBVIOUS
    <2>1. PlanoInv
      BY TravaInit DEF Init, PlanoInv, VagaFixa, PlanoFiel, TodosEmViagem, Nenhuma, Chave
    <2>2. SemDemandaInv
      BY TravaInit DEF Init, SemDemandaInv, SemDemandaDecidida, SemDemandaVazia
    <2>3. PlanejadorFiel
      BY DEF Init, PlanejadorFiel
    <2>4. ChamadaFiel
      BY DEF Init, ChamadaFiel
    <2> QED
      BY <2>1, <2>2, <2>3, <2>4 DEF InscricaoInv
  <1>2. Init /\ fechamento = [k \in Chave |-> {}] => Lista!InitInscricao
    BY DEF Init, Lista!InitInscricao, Confirmadas, situacaoDe, Embarcadas, Nenhuma, Chave
  <1>3. InscricaoInv /\ [Next /\ Anotar]_<<vars, fechamento>> => InscricaoInv'
    BY InscricaoPasso
  <1>4. InscricaoInv /\ [Next /\ Anotar]_<<vars, fechamento>> =>
            [Lista!NextInscricao]_(Lista!varsInscricao)
    <2> SUFFICES ASSUME InscricaoInv, [Next /\ Anotar]_<<vars, fechamento>>
                 PROVE  [Lista!NextInscricao]_(Lista!varsInscricao)
      OBVIOUS
    <2>1. ASSUME UNCHANGED <<vars, fechamento>> PROVE UNCHANGED Lista!varsInscricao
      BY <2>1 DEF vars, banco, Confirmadas, ChaveDe, situacaoDe, Embarcadas, Lista!varsInscricao
    <2>2. ~Ambiente
      BY DEF Ambiente, MudarMunicipio
    <2> QED
      BY <2>1, <2>2, PedidoImplementa, PlanejadorImplementa DEF Next
  <1> QED
    BY <1>1, <1>2, <1>3, <1>4, PTL DEF SpecFechamento, ImplementaInscricao, Lista!SpecInscricao
=============================================================================
