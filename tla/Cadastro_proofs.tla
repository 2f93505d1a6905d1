--------------------------- MODULE Cadastro_proofs ---------------------------
(***************************************************************************)
(* Theorems about the registry: references and telephones, files, listings *)
(* and the clean-up, whatever the requests and however they interleave.    *)
(***************************************************************************)
EXTENDS Cadastro, FiniteSetTheorems, TLAPS

-----------------------------------------------------------------------------
(* The tables *)

\* The schema: rows of known tables, finitely many, each valid.
Esquema ==
    /\ sequencia \in Nat /\ IsFiniteSet(Linhas) /\ Linhas \subseteq Tabela \X Nat
    /\ \A k \in Linhas : LinhaValida(k[1], banco[k])

CatalogoInv == Esquema /\ CatalogoTypeOK

\* A row with the columns for files of its table.
LinhaCompleta(t, d) == LinhaValida(t, d) /\ DOMAIN d.arq = Colunas(t)

\* What a statement does to the tables, if it does anything: trips, reservas and
\* executions are only removed here.
Insercao  == \E t \in Tabela \ {"reserva", "ciclo", "alocada", "execucao"} : \E d :
                LinhaCompleta(t, d) /\ Inserir(t, d)
Alteracao == \E k \in Linhas : \E d :
                /\ k[1] \in {"rota", "cliente", "motorista", "vinculo"}
                /\ LinhaCompleta(k[1], d) /\ Alterar(k, d)
Exclusao  == \E K \in SUBSET Linhas : Excluir(K)
Instrucao == Insercao \/ Alteracao \/ Exclusao \/ UNCHANGED catalogo

LEMMA LinhaNova ==
    ASSUME CatalogoInv, NEW t \in Tabela, NEW d, Inserir(t, d)
    PROVE  /\ Nova(t) \in Tabela \X Nat /\ Nova(t)[1] = t /\ Nova(t)[2] = sequencia + 1
           /\ Nova(t) \notin Linhas /\ Linhas' = Linhas \cup {Nova(t)}
           /\ banco'[Nova(t)] = d /\ \A k \in Linhas : banco'[k] = banco[k]
           /\ sequencia' = sequencia + 1 /\ d.ref \subseteq Linhas
<1>1. sequencia \in Nat /\ Nova(t) = <<t, sequencia + 1>>
  BY DEF CatalogoInv, Esquema, Nova
<1>2. Nova(t) \in Tabela \X Nat /\ Nova(t)[1] = t /\ Nova(t)[2] = sequencia + 1
  BY <1>1
<1>3. Nova(t) \notin Linhas
  <2>1. \A k \in Linhas : k[2] <= sequencia
    BY DEF CatalogoInv, CatalogoTypeOK
  <2>2. ~(sequencia + 1 <= sequencia)
    BY <1>1
  <2> QED
    BY <1>2, <2>1, <2>2
<1> DEFINE n == Nova(t)
<1>4. /\ banco' = [k \in Linhas \cup {n} |-> IF k = n THEN d ELSE banco[k]]
      /\ sequencia' = sequencia + 1 /\ d.ref \subseteq Linhas
  BY DEF Inserir
<1> HIDE DEF n
<1>6. Linhas' = Linhas \cup {n} /\ banco'[n] = d /\ \A k \in Linhas : k # n => banco'[k] = banco[k]
  BY <1>4 DEF Linhas
<1> QED
  BY <1>2, <1>3, <1>4, <1>6 DEF n

LEMMA InserirMantem ==
    ASSUME CatalogoInv, NEW t \in Tabela, NEW d, LinhaValida(t, d), Inserir(t, d)
    PROVE  CatalogoInv'
<1> DEFINE n == Nova(t)
<1>1. /\ n \in Tabela \X Nat /\ n[1] = t /\ n[2] = sequencia + 1
      /\ n \notin Linhas /\ Linhas' = Linhas \cup {n}
      /\ banco'[n] = d /\ \A k \in Linhas : banco'[k] = banco[k]
      /\ sequencia' = sequencia + 1 /\ d.ref \subseteq Linhas
  BY LinhaNova
<1>2. /\ sequencia \in Nat /\ IsFiniteSet(Linhas) /\ Linhas \subseteq Tabela \X Nat
      /\ \A k \in Linhas : LinhaValida(k[1], banco[k])
  BY DEF CatalogoInv, Esquema
<1>3. /\ \A k \in Linhas : banco[k].ref \subseteq Linhas /\ k[2] <= sequencia
      /\ \A k \in De("rota") : banco[k].ref # {}
      /\ telefones = {<<banco[k].fone, k>> : k \in {j \in Linhas : banco[j].fone # SemFone}}
      /\ \A f, g \in telefones : f[1] = g[1] => f = g
  BY DEF CatalogoInv, CatalogoTypeOK
<1>4. telefones' = Registro(n, d.fone) /\ FoneLivre(n, d.fone)
  BY DEF Inserir
<1> HIDE DEF n
<1>5. Esquema'
  <2>1. sequencia' \in Nat /\ Linhas' \subseteq Tabela \X Nat
    BY <1>1, <1>2
  <2>2. IsFiniteSet(Linhas')
    BY <1>1, <1>2, FS_AddElement
  <2>3. \A k \in Linhas' : LinhaValida(k[1], banco'[k])
    BY <1>1, <1>2
  <2> QED
    BY <2>1, <2>2, <2>3 DEF Esquema, LinhaValida
<1>6. \A k \in Linhas' : banco'[k].ref \subseteq Linhas' /\ k[2] <= sequencia'
  BY <1>1, <1>2, <1>3
<1>7. \A k \in De("rota")' : banco'[k].ref # {}
  <2> SUFFICES ASSUME NEW k \in Linhas', k[1] = "rota" PROVE banco'[k].ref # {}
    BY DEF De
  <2>1. LinhaValida(k[1], banco'[k])
    BY <1>1, <1>2
  <2> QED
    BY <2>1 DEF LinhaValida
<1>8. telefones' = {<<banco'[k].fone, k>> : k \in {j \in Linhas' : banco'[j].fone # SemFone}}
  <2>1. {f \in telefones : f[2] # n} = telefones
    BY <1>1, <1>3
  <2>2. telefones' = telefones \cup IF d.fone = SemFone THEN {} ELSE {<<d.fone, n>>}
    BY <1>4, <2>1 DEF Registro
  <2> QED
    BY <1>1, <1>3, <2>2
<1>9. \A f, g \in telefones' : f[1] = g[1] => f = g
  BY <1>3, <1>4 DEF Registro, FoneLivre
<1> QED
  BY <1>5, <1>6, <1>7, <1>8, <1>9 DEF CatalogoInv, CatalogoTypeOK

LEMMA AlterarMantem ==
    ASSUME CatalogoInv, NEW k \in Linhas, NEW d, LinhaValida(k[1], d), Alterar(k, d)
    PROVE  /\ CatalogoInv' /\ Linhas' = Linhas
           /\ banco'[k] = d /\ \A j \in Linhas \ {k} : banco'[j] = banco[j]
<1>1. /\ banco' = [banco EXCEPT ![k] = d] /\ d.ref \subseteq Linhas /\ sequencia' = sequencia
      /\ telefones' = Registro(k, d.fone) /\ FoneLivre(k, d.fone)
  BY DEF Alterar
<1>2. /\ Linhas' = Linhas /\ banco'[k] = d /\ \A j \in Linhas \ {k} : banco'[j] = banco[j]
  BY <1>1 DEF Linhas
<1>3. /\ sequencia \in Nat /\ IsFiniteSet(Linhas) /\ Linhas \subseteq Tabela \X Nat
      /\ \A j \in Linhas : LinhaValida(j[1], banco[j])
  BY DEF CatalogoInv, Esquema
<1>4. /\ \A j \in Linhas : banco[j].ref \subseteq Linhas /\ j[2] <= sequencia
      /\ telefones = {<<banco[j].fone, j>> : j \in {i \in Linhas : banco[i].fone # SemFone}}
      /\ \A f, g \in telefones : f[1] = g[1] => f = g
  BY DEF CatalogoInv, CatalogoTypeOK
<1>5. \A j \in Linhas' : LinhaValida(j[1], banco'[j])
  BY <1>2, <1>3
<1>6. Esquema'
  BY <1>1, <1>2, <1>3, <1>5 DEF Esquema, LinhaValida
<1>7. \A j \in Linhas' : banco'[j].ref \subseteq Linhas' /\ j[2] <= sequencia'
  BY <1>1, <1>2, <1>4
<1>8. \A j \in De("rota")' : banco'[j].ref # {}
  BY <1>5 DEF De, LinhaValida
<1>9. telefones' = {<<banco'[j].fone, j>> : j \in {i \in Linhas' : banco'[i].fone # SemFone}}
  <2>1. {f \in telefones : f[2] # k} = {<<banco[j].fone, j>> : j \in {i \in Linhas \ {k} : banco[i].fone # SemFone}}
    BY <1>4
  <2>2. telefones' = {f \in telefones : f[2] # k} \cup IF d.fone = SemFone THEN {} ELSE {<<d.fone, k>>}
    BY <1>1 DEF Registro
  <2> QED
    BY <1>2, <2>1, <2>2
<1>10. \A f, g \in telefones' : f[1] = g[1] => f = g
  BY <1>1, <1>4 DEF Registro, FoneLivre
<1> QED
  BY <1>2, <1>6, <1>7, <1>8, <1>9, <1>10 DEF CatalogoInv, CatalogoTypeOK

\* A row that stays does not refer to one that goes: RESTRICT, and no key cascades to
\* what another one took.
LEMMA ExcluirMantem ==
    ASSUME CatalogoInv, NEW K \in SUBSET Linhas, Excluir(K)
    PROVE  /\ CatalogoInv' /\ Linhas' = Linhas \ Fecho(K) /\ K \subseteq Fecho(K)
           /\ \A k \in Linhas' : banco'[k] = banco[k]
<1>1. /\ banco' = [k \in Linhas \ Fecho(K) |-> banco[k]] /\ sequencia' = sequencia
      /\ telefones' = {f \in telefones : f[2] \notin Fecho(K)} /\ Removivel(K)
  BY DEF Excluir
<1>2. /\ Linhas' = Linhas \ Fecho(K) /\ \A k \in Linhas' : banco'[k] = banco[k]
  BY <1>1 DEF Linhas
<1>3. /\ sequencia \in Nat /\ IsFiniteSet(Linhas) /\ Linhas \subseteq Tabela \X Nat
      /\ \A k \in Linhas : LinhaValida(k[1], banco[k])
  BY DEF CatalogoInv, Esquema
<1>4. /\ \A k \in Linhas : banco[k].ref \subseteq Linhas /\ k[2] <= sequencia
      /\ telefones = {<<banco[j].fone, j>> : j \in {i \in Linhas : banco[i].fone # SemFone}}
      /\ \A f, g \in telefones : f[1] = g[1] => f = g
  BY DEF CatalogoInv, CatalogoTypeOK
<1>5. \A k \in Linhas' : LinhaValida(k[1], banco'[k])
  BY <1>2, <1>3
<1>6. Esquema'
  <2>1. IsFiniteSet(Linhas')
    BY <1>2, <1>3, FS_Subset
  <2> QED
    BY <1>1, <1>2, <1>3, <1>5, <2>1 DEF Esquema, LinhaValida
<1>7. \A k \in Linhas' : banco[k].ref \cap Fecho(K) = {}
  <2> SUFFICES ASSUME NEW k \in Linhas', NEW r \in banco[k].ref \cap Fecho(K) PROVE FALSE
    OBVIOUS
  <2>1. k \in Linhas /\ k \notin Fecho(K) /\ <<k[1], r[1]>> \in Cascata
    BY <1>1, <1>2 DEF Removivel
  <2>2. r \notin K
    BY <2>1 DEF Fecho
  <2>3. PICK q \in banco[r].ref \cap K : <<r[1], q[1]>> \in Cascata
    BY <2>2 DEF Fecho
  <2> QED
    BY <2>1, <2>3 DEF Cascata
<1>8. \A k \in Linhas' : banco'[k].ref \subseteq Linhas' /\ k[2] <= sequencia'
  <2> TAKE k \in Linhas'
  <2>1. k \in Linhas /\ banco'[k] = banco[k]
    BY <1>2
  <2>2. banco[k].ref \subseteq Linhas /\ banco[k].ref \cap Fecho(K) = {} /\ k[2] <= sequencia
    BY <1>4, <1>7, <2>1
  <2>3. banco[k].ref \subseteq Linhas'
    <3>1. banco[k].ref \subseteq Linhas \ Fecho(K)
      BY <2>2
    <3> QED
      BY <1>2, <3>1
  <2>4. k[2] <= sequencia'
    BY <1>1, <2>2
  <2> QED
    BY <2>1, <2>3, <2>4
<1>9. \A k \in De("rota")' : banco'[k].ref # {}
  BY <1>5 DEF De, LinhaValida
<1>10. telefones' = {<<banco'[j].fone, j>> : j \in {i \in Linhas' : banco'[i].fone # SemFone}}
  <2> DEFINE F == Fecho(K)
             fones(b, L) == {<<b[j].fone, j>> : j \in {i \in L : b[i].fone # SemFone}}
  <2>1. telefones' = {f \in fones(banco, Linhas) : f[2] \notin F}
    BY <1>1, <1>4
  <2>2. fones(banco', Linhas \ F) = fones(banco, Linhas \ F)
    <3> HIDE DEF F
    <3>1. \A j \in Linhas \ F : banco'[j] = banco[j]
      BY <1>2 DEF F
    <3> QED
      BY <3>1
  <2>3. {f \in fones(banco, Linhas) : f[2] \notin F} = fones(banco, Linhas \ F)
    <3> HIDE DEF F
    <3> QED
      OBVIOUS
  <2> QED
    BY <1>2, <2>1, <2>2, <2>3
<1>11. \A f, g \in telefones' : f[1] = g[1] => f = g
  BY <1>1, <1>4
<1>12. K \subseteq Fecho(K)
  BY DEF Fecho
<1> QED
  BY <1>2, <1>6, <1>8, <1>9, <1>10, <1>11, <1>12 DEF CatalogoInv, CatalogoTypeOK

LEMMA ColunasDasTabelas ==
    /\ Campos("cliente") = <<"identificacao", "residencia">> /\ Campos("vinculo") = <<"comprovante">>
    /\ Campos("motorista") = <<"foto">>
    /\ Colunas("cliente") = {"identificacao", "residencia"} /\ Colunas("vinculo") = {"comprovante"}
    /\ Colunas("motorista") = {"foto"}
    /\ \A t : t \notin {"cliente", "vinculo", "motorista"} => Colunas(t) = {}
<1>1. /\ Campos("cliente") = <<"identificacao", "residencia">> /\ Campos("vinculo") = <<"comprovante">>
      /\ Campos("motorista") = <<"foto">>
  BY DEF Campos
<1>2. Colunas("cliente") = {"identificacao", "residencia"}
  BY <1>1 DEF Colunas
<1>3. Colunas("vinculo") = {"comprovante"} /\ Colunas("motorista") = {"foto"}
  BY <1>1 DEF Colunas
<1>4. ASSUME NEW t, t \notin {"cliente", "vinculo", "motorista"} PROVE Colunas(t) = {}
  <2>1. Campos(t) = <<>>
    BY <1>4 DEF Campos
  <2> QED
    BY <2>1 DEF Colunas
<1> QED
  BY <1>1, <1>2, <1>3, <1>4

LEMMA SemDadosCompleta ==
    /\ SemDados \in [ref : {{}}, data : {0}, nome : {0}, fone : {SemFone}, arq : {<<>>}]
    /\ \A t : t \notin {"cliente", "vinculo", "motorista", "rota"} => LinhaCompleta(t, SemDados)
<1>1. SemDados \in [ref : {{}}, data : {0}, nome : {0}, fone : {SemFone}, arq : {<<>>}]
  BY DEF SemDados
<1>2. DOMAIN SemDados.arq = {}
  BY DEF SemDados
<1>3. SemDados.ref = {} /\ SemDados \in [ref : {SemDados.ref}, data : Int, nome : Int,
                                        fone : Fone \cup {SemFone}, arq : {SemDados.arq}]
  BY <1>1
<1> QED
  BY <1>1, <1>2, <1>3, ColunasDasTabelas DEF LinhaCompleta, LinhaValida

\* A row that replaces another of its table.
LEMMA LinhaTrocada ==
    ASSUME NEW t, NEW d, LinhaValida(t, d), NEW e,
           e \in [ref : {e.ref}, data : {d.data}, nome : Int, fone : Fone \cup {SemFone}, arq : {e.arq}],
           \A r \in e.ref : <<t, r[1]>> \in Estrangeira,
           t = "vinculo" => \E r \in e.ref : r[1] = "cliente",
           t = "rota" => e.ref # {},
           DOMAIN e.arq = Colunas(t)
    PROVE  LinhaCompleta(t, e)
  BY DEF LinhaCompleta, LinhaValida

LEMMA LinhaSemArquivos ==
    ASSUME NEW t, t \notin {"cliente", "vinculo", "motorista"}, NEW R, NEW e,
           e \in [ref : {R}, data : {0}, nome : {0}, fone : {SemFone}, arq : {<<>>}],
           \A r \in R : <<t, r[1]>> \in Estrangeira, t = "rota" => R # {}
    PROVE  LinhaCompleta(t, e)
<1>1. e.ref = R /\ e.arq = <<>>
  OBVIOUS
<1>2. e \in [ref : {R}, data : Int, nome : Int, fone : Fone \cup {SemFone}, arq : {<<>>}]
  OBVIOUS
<1>3. LinhaValida(t, e)
  BY <1>1, <1>2 DEF LinhaValida
<1>4. DOMAIN e.arq = Colunas(t)
  BY <1>1, ColunasDasTabelas
<1> QED
  BY <1>3, <1>4 DEF LinhaCompleta

\* A statement that touches no row with files, but to remove it.
SemArquivos ==
    \/ \E t \in {"municipio", "destino", "parada", "rota", "veiculo"} : \E d : LinhaCompleta(t, d) /\ Inserir(t, d)
    \/ \E k \in De("rota") : \E d : LinhaCompleta("rota", d) /\ Alterar(k, d)
    \/ Exclusao \/ UNCHANGED catalogo

LEMMA SemArquivosInstrui ==
    ASSUME SemArquivos
    PROVE  Instrucao
  BY DEF SemArquivos, Instrucao, Insercao, Alteracao, Tabela, De

LEMMA CatalogoInstrui ==
    ASSUME CatalogoInv, DoCatalogo
    PROVE  SemArquivos
<1>1. ASSUME NEW t \in {"municipio", "destino", "parada", "rota", "veiculo"}, NEW d,
             LinhaCompleta(t, d), Inserir(t, d)
      PROVE  SemArquivos
  BY <1>1 DEF SemArquivos
<1>2. ASSUME NEW t, NEW k \in De(t), Excluir({k}) PROVE SemArquivos
  BY <1>2 DEF De, SemArquivos, Exclusao
<1>3. CASE ImportarMunicipios
  BY <1>1, <1>3, SemDadosCompleta DEF ImportarMunicipios, Municipio
<1>4. CASE CriarVeiculo
  BY <1>1, <1>4, SemDadosCompleta DEF CriarVeiculo, Veiculo
<1>5. CASE CriarParada
  BY <1>1, <1>5, SemDadosCompleta DEF CriarParada, Parada
<1>6. CASE CriarDestino
  <2>1. PICK m \in De("municipio") : Inserir("destino", Destino(m))
    BY <1>6 DEF CriarDestino
  <2>2. m[1] = "municipio"
    BY DEF De
  <2>3. Destino(m) \in [ref : {{m}}, data : {0}, nome : {0}, fone : {SemFone}, arq : {<<>>}]
    BY SemDadosCompleta DEF Destino
  <2>4. LinhaCompleta("destino", Destino(m))
    <3>1. <<"destino", m[1]>> \in Estrangeira
      BY <2>2 DEF Estrangeira
    <3> QED
      BY <2>3, <3>1, LinhaSemArquivos
  <2> QED
    BY <1>1, <2>1, <2>2, <2>4
<1>7. ASSUME NEW P \in Trajetos PROVE LinhaCompleta("rota", Rota(P))
  <2>1. P # {} /\ \A r \in P : r[1] = "parada"
    <3>1. P \in SUBSET De("parada") /\ P # {}
      BY DEF Trajetos
    <3> QED
      BY <3>1 DEF De
  <2>2. Rota(P) \in [ref : {P}, data : {0}, nome : {0}, fone : {SemFone}, arq : {<<>>}]
    BY SemDadosCompleta DEF Rota
  <2> QED
    <3>1. <<"rota", "parada">> \in Estrangeira
      BY DEF Estrangeira
    <3>2. \A r \in P : <<"rota", r[1]>> \in Estrangeira
      BY <2>1, <3>1
    <3> QED
      BY <2>1, <2>2, <3>2, LinhaSemArquivos
<1>8. CASE CriarRota
  BY <1>1, <1>7, <1>8 DEF CriarRota
<1>9. CASE TrocarParadas
  <2>1. PICK k \in De("rota"), P \in Trajetos : Alterar(k, Rota(P))
    BY <1>9 DEF TrocarParadas
  <2>2. k \in Linhas /\ k[1] = "rota"
    BY DEF De
  <2> QED
    BY <1>7, <2>1, <2>2 DEF SemArquivos
<1>10. CASE \/ ExcluirVeiculo \/ ExcluirDestino \/ ExcluirParada \/ ExcluirRota
            \/ ExcluirMotorista \/ ExcluirCliente \/ ExcluirVinculo
  BY <1>2, <1>10 DEF ExcluirVeiculo, ExcluirDestino, ExcluirParada, ExcluirRota,
                     ExcluirMotorista, ExcluirCliente, ExcluirVinculo
<1> QED
  BY <1>3, <1>4, <1>5, <1>6, <1>8, <1>9, <1>10 DEF DoCatalogo

\* The tables after a statement.
LEMMA InstrucaoMantem ==
    ASSUME CatalogoInv, Instrucao
    PROVE  CatalogoInv'
<1>1. CASE Insercao
  BY <1>1, InserirMantem DEF Insercao, LinhaCompleta
<1>2. CASE Alteracao
  BY <1>2, AlterarMantem DEF Alteracao, LinhaCompleta
<1>3. CASE Exclusao
  BY <1>3, ExcluirMantem DEF Exclusao
<1>4. CASE UNCHANGED catalogo
  BY <1>4 DEF catalogo, CatalogoInv, Esquema, CatalogoTypeOK, Linhas, De, LinhaValida
<1> QED
  BY <1>1, <1>2, <1>3, <1>4 DEF Instrucao

\* Every row has the columns for files of its table.
Base == CatalogoInv /\ \A k \in Linhas : DOMAIN banco[k].arq = Colunas(k[1])

LEMMA LinhasCompletas ==
    ASSUME Base
    PROVE  \A k \in Linhas : LinhaCompleta(k[1], banco[k])
  BY DEF Base, CatalogoInv, Esquema, LinhaCompleta

LEMMA BaseSegue ==
    ASSUME Base, Instrucao
    PROVE  Base' /\ sequencia \in Nat /\ sequencia' \in Nat /\ sequencia <= sequencia'
<1>1. CatalogoInv /\ \A k \in Linhas : DOMAIN banco[k].arq = Colunas(k[1])
  BY DEF Base
<1>2. CatalogoInv' /\ sequencia \in Nat /\ sequencia' \in Nat
  BY <1>1, InstrucaoMantem DEF CatalogoInv, Esquema
<1>3. sequencia <= sequencia'
  <2>1. sequencia' = sequencia \/ sequencia' = sequencia + 1
    BY DEF Instrucao, Insercao, Alteracao, Exclusao, Inserir, Alterar, Excluir, catalogo
  <2> QED
    BY <1>2, <2>1
<1>4. \A k \in Linhas' : DOMAIN banco'[k].arq = Colunas(k[1])
  <2>1. CASE Insercao
    <3>1. PICK t, d : t \in Tabela \ {"reserva", "ciclo", "alocada", "execucao"} /\
              LinhaCompleta(t, d) /\ Inserir(t, d)
      BY <2>1 DEF Insercao
    <3>2. /\ Nova(t)[1] = t /\ Linhas' = Linhas \cup {Nova(t)}
          /\ banco'[Nova(t)] = d /\ \A k \in Linhas : banco'[k] = banco[k]
      BY <1>1, <3>1, LinhaNova
    <3>3. DOMAIN d.arq = Colunas(t)
      BY <3>1 DEF LinhaCompleta
    <3> QED
      BY <1>1, <3>2, <3>3
  <2>2. CASE Alteracao
    <3>1. PICK k, d : k \in Linhas /\ LinhaCompleta(k[1], d) /\ Alterar(k, d)
      BY <2>2 DEF Alteracao
    <3>2. Linhas' = Linhas /\ banco'[k] = d /\ \A j \in Linhas \ {k} : banco'[j] = banco[j]
      BY <1>1, <3>1, AlterarMantem DEF LinhaCompleta
    <3>3. DOMAIN d.arq = Colunas(k[1])
      BY <3>1 DEF LinhaCompleta
    <3> QED
      BY <1>1, <3>2, <3>3
  <2>3. CASE Exclusao
    <3>1. Linhas' \subseteq Linhas /\ \A k \in Linhas' : banco'[k] = banco[k]
      BY <1>1, <2>3, ExcluirMantem DEF Exclusao
    <3> QED
      BY <1>1, <3>1
  <2>4. CASE UNCHANGED catalogo
    BY <1>1, <2>4 DEF catalogo, Linhas
  <2> QED
    BY <2>1, <2>2, <2>3, <2>4 DEF Instrucao
<1> QED
  BY <1>2, <1>3, <1>4 DEF Base

-----------------------------------------------------------------------------
(* Requests of several steps *)

ComArquivos == {"cliente", "vinculo", "motorista"}
Organiza(t) == t.fase \in {"mover", "persistir"}

\* What is left to move and what has been moved.
EmMovimento(t) ==
    \/ t.falta = Campos(t.dono[1]) /\ t.movidos = {}
    \/ t.dono[1] = "cliente" /\ t.falta = <<"residencia">> /\ t.movidos \subseteq {"identificacao"}

\* A request after n ids and m uploads: of a row that exists or existed, with a row of
\* its table, which until the files are organised has the paths of their uploads.
TarefaValida(t, n, m) ==
    \/ t = Livre
    \/ /\ t \in [fase : {"formulario", "mover", "persistir"}, dono : ComArquivos \X (0 .. n),
                  dados : {t.dados}, falta : {t.falta}, movidos : SUBSET Colunas(t.dono[1])]
       /\ LinhaCompleta(t.dono[1], t.dados)
       /\ t.fase = "formulario" => t.dono[1] = "vinculo" /\ t.movidos = {}
       /\ t.fase = "mover" =>
             /\ EmMovimento(t)
             /\ \A c \in Colunas(t.dono[1]) : \E i \in 1 .. m : t.dados.arq[c] = Espera(i, c)

TarefasInv ==
    /\ enviados \in Nat /\ DOMAIN tarefa = Tarefa
    /\ \A s \in Tarefa : TarefaValida(tarefa[s], sequencia, enviados)
    /\ \A s, r \in Tarefa :
          Organiza(tarefa[s]) /\ Organiza(tarefa[r]) /\ tarefa[s].dono = tarefa[r].dono => s = r

LEMMA LivreNaoOrganiza == ~Organiza(Livre) /\ Livre.fase = "livre" /\ Livre.movidos = {}
  BY DEF Organiza, Livre

LEMMA TarefaValidaSegue ==
    ASSUME NEW t, NEW n \in Nat, NEW m \in Nat, NEW i \in Nat, NEW j \in Nat,
           TarefaValida(t, n, m), n <= i, m <= j
    PROVE  TarefaValida(t, i, j)
<1>1. 0 .. n \subseteq 0 .. i /\ 1 .. m \subseteq 1 .. j
  OBVIOUS
<1>2. CASE t = Livre
  BY <1>2 DEF TarefaValida
<1>3. CASE t # Livre
  <2>1. /\ t \in [fase : {"formulario", "mover", "persistir"}, dono : ComArquivos \X (0 .. n),
                  dados : {t.dados}, falta : {t.falta}, movidos : SUBSET Colunas(t.dono[1])]
        /\ LinhaCompleta(t.dono[1], t.dados)
        /\ t.fase = "formulario" => t.dono[1] = "vinculo" /\ t.movidos = {}
        /\ t.fase = "mover" =>
             /\ EmMovimento(t)
             /\ \A c \in Colunas(t.dono[1]) : \E x \in 1 .. m : t.dados.arq[c] = Espera(x, c)
    BY <1>3 DEF TarefaValida
  <2>2. t \in [fase : {"formulario", "mover", "persistir"}, dono : ComArquivos \X (0 .. i),
               dados : {t.dados}, falta : {t.falta}, movidos : SUBSET Colunas(t.dono[1])]
    BY <1>1, <2>1
  <2>3. t.fase = "mover" =>
             \A c \in Colunas(t.dono[1]) : \E x \in 1 .. j : t.dados.arq[c] = Espera(x, c)
    BY <1>1, <2>1
  <2> QED
    BY <2>1, <2>2, <2>3 DEF TarefaValida
<1> QED
  BY <1>2, <1>3

LEMMA TarefasSeguem ==
    ASSUME TarefasInv, UNCHANGED tarefa, sequencia \in Nat, sequencia' \in Nat, sequencia <= sequencia',
           enviados' \in Nat, enviados <= enviados'
    PROVE  TarefasInv'
<1>1. \A s \in Tarefa : TarefaValida(tarefa'[s], sequencia', enviados')
  BY TarefaValidaSegue DEF TarefasInv
<1> QED
  BY <1>1 DEF TarefasInv, Organiza, TarefaValida

\* One request goes on, and no other organises the files of its row.
LEMMA TarefaTroca ==
    ASSUME TarefasInv, NEW s \in Tarefa, NEW t, Proximo(s, t),
           sequencia \in Nat, sequencia' \in Nat, sequencia <= sequencia',
           enviados' \in Nat, enviados <= enviados', TarefaValida(t, sequencia', enviados'),
           Organiza(t) => \A r \in Tarefa \ {s} : Organiza(tarefa[r]) => tarefa[r].dono # t.dono
    PROVE  /\ TarefasInv' /\ tarefa'[s] = t /\ \A r \in Tarefa \ {s} : tarefa'[r] = tarefa[r]
<1>1. DOMAIN tarefa = Tarefa /\ enviados \in Nat
  BY DEF TarefasInv
<1>2. DOMAIN tarefa' = Tarefa /\ tarefa'[s] = t /\ \A r \in Tarefa \ {s} : tarefa'[r] = tarefa[r]
  BY <1>1 DEF Proximo
<1>3. \A r \in Tarefa : TarefaValida(tarefa'[r], sequencia', enviados')
  <2> TAKE r \in Tarefa
  <2>1. CASE r = s
    BY <1>2, <2>1
  <2>2. CASE r # s
    <3>1. TarefaValida(tarefa[r], sequencia, enviados) /\ tarefa'[r] = tarefa[r]
      BY <1>2, <2>2 DEF TarefasInv
    <3> QED
      BY <1>1, <3>1, TarefaValidaSegue
  <2> QED
    BY <2>1, <2>2
<1>4. \A r, q \in Tarefa :
         Organiza(tarefa'[r]) /\ Organiza(tarefa'[q]) /\ tarefa'[r].dono = tarefa'[q].dono => r = q
  BY <1>2 DEF TarefasInv
<1> QED
  BY <1>2, <1>3, <1>4 DEF TarefasInv, Organiza, TarefaValida

LEMMA LivreDono == Livre.dono = <<"", 0>> /\ Livre.dono[1] = "" /\ Livre.dono[2] = 0
<1>1. Livre.dono = <<"", 0>>
  BY DEF Livre
<1>2. <<"", 0>>[1] = "" /\ <<"", 0>>[2] = 0
  OBVIOUS
<1> QED
  BY <1>1, <1>2

LEMMA LivreAberta ==
    ASSUME NEW f, NEW x, NEW y, NEW z, NEW q,
           q = [Livre EXCEPT !.fase = f, !.dono = x, !.falta = y, !.dados = z]
    PROVE  q = [fase |-> f, dono |-> x, dados |-> z, falta |-> y, movidos |-> {}]
<1> DEFINE v == <<"", 0>>
           l == Livre
<1>1. l \in [fase : {"livre"}, dono : {v}, dados : {SemDados}, falta : {<<>>}, movidos : {{}}]
  BY DEF Livre
<1> HIDE DEF v, l
<1>2. ASSUME NEW e, e = [l EXCEPT !.fase = f, !.dono = x, !.falta = y, !.dados = z]
      PROVE  e \in [fase : {f}, dono : {x}, dados : {z}, falta : {y}, movidos : {{}}]
  BY <1>1, <1>2
<1>3. ASSUME NEW e, e \in [fase : {f}, dono : {x}, dados : {z}, falta : {y}, movidos : {{}}]
      PROVE  e = [fase |-> f, dono |-> x, dados |-> z, falta |-> y, movidos |-> {}]
  BY <1>3
<1> QED
  BY <1>2, <1>3 DEF l

LEMMA DonoOcupado ==
    ASSUME TarefasInv, NEW s \in Tarefa, NEW n, n = sequencia + 1, sequencia \in Nat, NEW t
    PROVE  tarefa[s].dono # <<t, n>>
<1>1. TarefaValida(tarefa[s], sequencia, enviados)
  BY DEF TarefasInv
<1>2. CASE tarefa[s] = Livre
  <2>1. tarefa[s].dono[2] = 0
    BY <1>2, LivreDono
  <2>2. <<t, n>>[2] = n /\ n # 0
    OBVIOUS
  <2> QED
    BY <2>1, <2>2
<1>3. CASE tarefa[s] # Livre
  <2>1. tarefa[s].dono \in ComArquivos \X (0 .. sequencia)
    BY <1>1, <1>3 DEF TarefaValida
  <2>2. tarefa[s].dono[2] \in 0 .. sequencia
    BY <2>1
  <2> QED
    BY <2>2
<1> QED
  BY <1>2, <1>3

\* What a request that creates a row does.
LEMMA CriarCria ==
    ASSUME Base, TarefasInv, NEW s \in Tarefa, NEW t \in ComArquivos, NEW d, LinhaValida(t, d), Criar(s, t, d)
    PROVE  \E e, q :
              /\ LinhaCompleta(t, e) /\ Inserir(t, e) /\ Proximo(s, q)
              /\ e.arq = [c \in Colunas(t) |-> Espera(enviados + 1, c)]
              /\ enviados' = enviados + 1 /\ perdidas' = perdidas /\ tarefa[s].fase = "livre"
              /\ objetos' = objetos \cup {Espera(enviados + 1, c) : c \in Colunas(t)}
              /\ q = [fase |-> "mover", dono |-> Nova(t), dados |-> e, falta |-> Campos(t), movidos |-> {}]
<1> DEFINE a == [c \in Colunas(t) |-> Espera(enviados + 1, c)]
           e == [d EXCEPT !.arq = a]
           q == [Livre EXCEPT !.fase = "mover", !.dono = Nova(t), !.falta = Campos(t), !.dados = e]
<1>1. /\ Inserir(t, e) /\ Proximo(s, q) /\ enviados' = enviados + 1 /\ perdidas' = perdidas
      /\ tarefa[s].fase = "livre" /\ objetos' = objetos \cup {a[c] : c \in DOMAIN a}
  BY DEF Criar
<1>2. e.arq = a /\ e.ref = d.ref
        /\ e \in [ref : {e.ref}, data : Int, nome : Int, fone : Fone \cup {SemFone}, arq : {a}]
  <2> HIDE DEF a
  <2>1. d \in [ref : {d.ref}, data : Int, nome : Int, fone : Fone \cup {SemFone}, arq : {d.arq}]
    BY DEF LinhaValida
  <2> QED
    BY <2>1
<1>3. DOMAIN a = Colunas(t)
  OBVIOUS
<1>4. LinhaCompleta(t, e)
  <2> HIDE DEF e, a
  <2> QED
    BY <1>2, <1>3 DEF LinhaCompleta, LinhaValida
<1>5. {a[c] : c \in DOMAIN a} = {Espera(enviados + 1, c) : c \in Colunas(t)}
  OBVIOUS
<1>6. q = [fase |-> "mover", dono |-> Nova(t), dados |-> e, falta |-> Campos(t), movidos |-> {}]
  BY LivreAberta
<1> HIDE DEF e, q
<1> QED
  BY <1>1, <1>2, <1>4, <1>5, <1>6

\* It is a request to organise the files of a row that no other request organises.
LEMMA CriarMantem ==
    ASSUME Base, TarefasInv, NEW s \in Tarefa, NEW t \in ComArquivos, NEW d, LinhaValida(t, d), Criar(s, t, d)
    PROVE  Instrucao /\ TarefasInv'
<1>1. PICK e, q :
              /\ LinhaCompleta(t, e) /\ Inserir(t, e) /\ Proximo(s, q)
              /\ e.arq = [c \in Colunas(t) |-> Espera(enviados + 1, c)]
              /\ enviados' = enviados + 1
              /\ q = [fase |-> "mover", dono |-> Nova(t), dados |-> e, falta |-> Campos(t), movidos |-> {}]
  BY CriarCria
<1>2. Instrucao
  BY <1>1 DEF Instrucao, Insercao, ComArquivos, Tabela
<1>3. sequencia \in Nat /\ sequencia' = sequencia + 1 /\ Nova(t) = <<t, sequencia + 1>>
  BY <1>1 DEF Base, CatalogoInv, Esquema, Inserir, Nova
<1>4. enviados \in Nat
  BY DEF TarefasInv
<1>5. TarefaValida(q, sequencia', enviados')
  <2>1. q.fase = "mover" /\ q.dono = Nova(t) /\ q.dados = e /\ q.falta = Campos(t) /\ q.movidos = {}
    BY <1>1
  <2>2. q \in [fase : {"formulario", "mover", "persistir"}, dono : {Nova(t)},
               dados : {q.dados}, falta : {q.falta}, movidos : {{}}]
    BY <1>1
  <2>3. Nova(t) \in ComArquivos \X (0 .. sequencia') /\ Nova(t)[1] = t
    <3>1. sequencia + 1 \in 0 .. sequencia'
      BY <1>3
    <3> QED
      BY <1>3, <3>1
  <2>4. \A c \in Colunas(t) : \E i \in 1 .. enviados' : q.dados.arq[c] = Espera(i, c)
    <3>1. enviados + 1 \in 1 .. enviados'
      BY <1>1, <1>4
    <3> QED
      BY <1>1, <2>1, <3>1
  <2>5. q \in [fase : {"formulario", "mover", "persistir"}, dono : ComArquivos \X (0 .. sequencia'),
               dados : {q.dados}, falta : {q.falta}, movidos : SUBSET Colunas(q.dono[1])]
    BY <2>2, <2>3
  <2>6. EmMovimento(q)
    BY <2>1, <2>3 DEF EmMovimento
  <2> QED
    BY <1>1, <2>1, <2>3, <2>4, <2>5, <2>6 DEF TarefaValida
<1>6. \A r \in Tarefa \ {s} : tarefa[r].dono # q.dono
  BY <1>1, <1>3, DonoOcupado
<1>7. TarefasInv'
  <2>1. sequencia <= sequencia' /\ enviados <= enviados' /\ enviados' \in Nat /\ sequencia' \in Nat
    BY <1>1, <1>3, <1>4
  <2> QED
    BY <1>1, <1>3, <1>5, <1>6, <2>1, TarefaTroca
<1> QED
  BY <1>2, <1>7

LEMMA LinhasCriadas ==
    /\ \A n \in Nome, f \in Fone \cup {SemFone} : LinhaValida("cliente", Cliente(n, f))
    /\ \A m \in De("municipio"), f \in Fone \cup {SemFone} : LinhaValida("motorista", Motorista(m, f))
    /\ \A c \in De("cliente"), d \in De("destino"), r \in De("rota") :
          LinhaValida("vinculo", Vinculo(c, d, r))
<1>1. SemDados \in [ref : {{}}, data : {0}, nome : {0}, fone : {SemFone}, arq : {<<>>}]
  BY SemDadosCompleta
<1>2. ASSUME NEW n \in Nome, NEW f \in Fone \cup {SemFone} PROVE LinhaValida("cliente", Cliente(n, f))
  <2>1. n \in Int
    BY CatalogoAssumption
  <2>2. Cliente(n, f) \in [ref : {{}}, data : {0}, nome : {n}, fone : {f}, arq : {<<>>}]
    BY <1>1 DEF Cliente
  <2>3. Cliente(n, f).ref = {} /\ Cliente(n, f).arq = <<>>
    BY <2>2
  <2>4. Cliente(n, f) \in [ref : {{}}, data : Int, nome : Int, fone : Fone \cup {SemFone}, arq : {<<>>}]
    BY <2>1, <2>2
  <2> QED
    BY <2>3, <2>4 DEF LinhaValida
<1>3. ASSUME NEW m \in De("municipio"), NEW f \in Fone \cup {SemFone}
      PROVE  LinhaValida("motorista", Motorista(m, f))
  <2>1. Motorista(m, f) \in [ref : {{m}}, data : {0}, nome : {0}, fone : {f}, arq : {<<>>}]
    BY <1>1 DEF Motorista
  <2>2. Motorista(m, f).ref = {m} /\ Motorista(m, f).arq = <<>>
    BY <2>1
  <2>3. Motorista(m, f) \in [ref : {{m}}, data : Int, nome : Int, fone : Fone \cup {SemFone}, arq : {<<>>}]
    BY <2>1
  <2>4. m[1] = "municipio" /\ <<"motorista", "municipio">> \in Estrangeira
    BY DEF De, Estrangeira
  <2> QED
    BY <2>2, <2>3, <2>4 DEF LinhaValida
<1>4. ASSUME NEW c \in De("cliente"), NEW d \in De("destino"), NEW r \in De("rota")
      PROVE  LinhaValida("vinculo", Vinculo(c, d, r))
  <2>1. Vinculo(c, d, r) \in [ref : {{c, d, r}}, data : {0}, nome : {0}, fone : {SemFone}, arq : {<<>>}]
    BY <1>1 DEF Vinculo
  <2>2. Vinculo(c, d, r).ref = {c, d, r} /\ Vinculo(c, d, r).arq = <<>>
    BY <2>1
  <2>3. Vinculo(c, d, r) \in [ref : {{c, d, r}}, data : Int, nome : Int, fone : Fone \cup {SemFone}, arq : {<<>>}]
    BY <2>1
  <2>4. /\ c[1] = "cliente" /\ d[1] = "destino" /\ r[1] = "rota"
        /\ {<<"vinculo", "cliente">>, <<"vinculo", "destino">>, <<"vinculo", "rota">>} \subseteq Estrangeira
    BY DEF De, Estrangeira
  <2>5. \A x \in {c, d, r} : <<"vinculo", x[1]>> \in Estrangeira
    BY <2>4
  <2> QED
    BY <2>2, <2>3, <2>4, <2>5 DEF LinhaValida
<1> QED
  BY <1>2, <1>3, <1>4

\* The handlers that create a row with files.
Cria(s, t) == \E d : LinhaValida(t, d) /\ Criar(s, t, d)
LEMMA CriacoesCriam ==
    ASSUME NEW s \in Tarefa, CriarCliente(s) \/ CriarMotorista(s) \/ CriarVinculo(s)
    PROVE  \E t \in ComArquivos : Cria(s, t)
<1>1. CASE CriarCliente(s)
  BY <1>1, LinhasCriadas DEF CriarCliente, Cria, ComArquivos
<1>2. CASE CriarMotorista(s)
  BY <1>2, LinhasCriadas DEF CriarMotorista, Cria, ComArquivos
<1>3. CASE CriarVinculo(s)
  BY <1>3, LinhasCriadas DEF CriarVinculo, Cria, ComArquivos
<1> QED
  BY <1>1, <1>2, <1>3

\* The request after its next file, and the tables of a request.
Seguinte(t, M) ==
    IF Len(t.falta) > 1 \/ M # {}
    THEN [t EXCEPT !.falta = Tail(@), !.movidos = M, !.fase = IF Len(t.falta) > 1 THEN @ ELSE "persistir"]
    ELSE Livre

LEMMA Movimento ==
    ASSUME NEW t, NEW n, NEW m, TarefaValida(t, n, m), t.fase = "mover"
    PROVE  /\ t \in [fase : {"mover"}, dono : ComArquivos \X (0 .. n), dados : {t.dados},
                     falta : {t.falta}, movidos : SUBSET Colunas(t.dono[1])]
           /\ LinhaCompleta(t.dono[1], t.dados)
           /\ \A c \in Colunas(t.dono[1]) : \E i \in 1 .. m : t.dados.arq[c] = Espera(i, c)
           /\ Head(t.falta) \in Colunas(t.dono[1])
           /\ \/ /\ Len(t.falta) = 2 /\ t.dono[1] = "cliente" /\ t.movidos = {}
                 /\ Head(t.falta) = "identificacao" /\ Tail(t.falta) = <<"residencia">>
              \/ Len(t.falta) = 1
<1>1. t # Livre
  BY LivreNaoOrganiza
<1>2. /\ t \in [fase : {"formulario", "mover", "persistir"}, dono : ComArquivos \X (0 .. n),
                dados : {t.dados}, falta : {t.falta}, movidos : SUBSET Colunas(t.dono[1])]
      /\ LinhaCompleta(t.dono[1], t.dados) /\ EmMovimento(t)
      /\ \A c \in Colunas(t.dono[1]) : \E i \in 1 .. m : t.dados.arq[c] = Espera(i, c)
  BY <1>1 DEF TarefaValida
<1>3. t.dono[1] \in ComArquivos
  BY <1>2
<1>4. t \in [fase : {"mover"}, dono : ComArquivos \X (0 .. n), dados : {t.dados},
             falta : {t.falta}, movidos : SUBSET Colunas(t.dono[1])]
  BY <1>2
<1>5. \A x, y : Len(<<x>>) = 1 /\ Head(<<x>>) = x /\ Len(<<x, y>>) = 2 /\ Head(<<x, y>>) = x
                  /\ Tail(<<x, y>>) = <<y>>
  OBVIOUS
<1>6. CASE t.dono[1] = "cliente"
  <2>1. CASE t.falta = Campos(t.dono[1]) /\ t.movidos = {}
    <3>1. t.falta = <<"identificacao", "residencia">>
      BY <1>6, <2>1, ColunasDasTabelas
    <3>2. /\ Len(t.falta) = 2 /\ Head(t.falta) = "identificacao" /\ Tail(t.falta) = <<"residencia">>
      BY <1>5, <3>1
    <3> QED
      BY <1>2, <1>4, <1>6, <2>1, <3>2, ColunasDasTabelas
  <2>2. CASE t.falta = <<"residencia">>
    BY <1>2, <1>4, <1>5, <1>6, <2>2, ColunasDasTabelas
  <2> QED
    BY <1>2, <2>1, <2>2 DEF EmMovimento
<1>7. CASE t.dono[1] # "cliente"
  <2>1. t.falta = Campos(t.dono[1]) /\ t.dono[1] \in {"vinculo", "motorista"}
    BY <1>2, <1>3, <1>7 DEF EmMovimento, ComArquivos
  <2>2. \E x : t.falta = <<x>> /\ x \in Colunas(t.dono[1])
    BY <2>1, ColunasDasTabelas
  <2> QED
    BY <1>2, <1>4, <1>5, <2>2
<1> QED
  BY <1>6, <1>7

LEMMA SeguinteValida ==
    ASSUME NEW t, NEW n, NEW m, TarefaValida(t, n, m), t.fase = "mover",
           NEW M, M = t.movidos \/ M = t.movidos \cup {Head(t.falta)}, NEW q, q = Seguinte(t, M)
    PROVE  /\ TarefaValida(q, n, m)
           /\ \/ q = Livre /\ M = {}
              \/ Organiza(q) /\ q.dono = t.dono /\ q.dados = t.dados /\ q.movidos = M
<1> DEFINE D == ComArquivos \X (0 .. n)
<1>1. /\ t \in [fase : {"mover"}, dono : D, dados : {t.dados},
                falta : {t.falta}, movidos : SUBSET Colunas(t.dono[1])]
      /\ LinhaCompleta(t.dono[1], t.dados) /\ Head(t.falta) \in Colunas(t.dono[1])
      /\ \A c \in Colunas(t.dono[1]) : \E i \in 1 .. m : t.dados.arq[c] = Espera(i, c)
      /\ \/ /\ Len(t.falta) = 2 /\ t.dono[1] = "cliente" /\ t.movidos = {}
            /\ Head(t.falta) = "identificacao" /\ Tail(t.falta) = <<"residencia">>
         \/ Len(t.falta) = 1
  BY Movimento
<1> HIDE DEF D
<1>2. M \in SUBSET Colunas(t.dono[1])
  BY <1>1
<1>3. CASE Len(t.falta) = 2
  <2>1. q = [t EXCEPT !.falta = Tail(@), !.movidos = M, !.fase = @]
    BY <1>3 DEF Seguinte
  <2>2. q \in [fase : {"mover"}, dono : {t.dono}, dados : {t.dados}, falta : {Tail(t.falta)}, movidos : {M}]
    BY <1>1, <2>1
  <2>3. /\ q.fase = "mover" /\ q.dono = t.dono /\ q.dados = t.dados /\ q.movidos = M
        /\ q.falta = Tail(t.falta)
    BY <2>2
  <2>4. EmMovimento(q)
    <3>1. /\ t.dono[1] = "cliente" /\ t.movidos = {} /\ Head(t.falta) = "identificacao"
          /\ Tail(t.falta) = <<"residencia">>
      BY <1>1, <1>3
    <3> QED
      BY <2>3, <3>1 DEF EmMovimento
  <2>5. q \in [fase : {"formulario", "mover", "persistir"}, dono : D,
               dados : {q.dados}, falta : {q.falta}, movidos : SUBSET Colunas(q.dono[1])]
    BY <1>1, <1>2, <2>2, <2>3
  <2> QED
    BY <1>1, <2>3, <2>4, <2>5 DEF TarefaValida, Organiza, D
<1>4. CASE Len(t.falta) = 1 /\ M # {}
  <2>1. q = [t EXCEPT !.falta = Tail(@), !.movidos = M, !.fase = "persistir"]
    BY <1>4 DEF Seguinte
  <2>2. q \in [fase : {"persistir"}, dono : {t.dono}, dados : {t.dados}, falta : {Tail(t.falta)}, movidos : {M}]
    BY <1>1, <2>1
  <2>3. q.fase = "persistir" /\ q.dono = t.dono /\ q.dados = t.dados /\ q.movidos = M
    BY <2>2
  <2>5. q \in [fase : {"formulario", "mover", "persistir"}, dono : D,
               dados : {q.dados}, falta : {q.falta}, movidos : SUBSET Colunas(q.dono[1])]
    BY <1>1, <1>2, <2>2, <2>3
  <2> QED
    BY <1>1, <2>3, <2>5 DEF TarefaValida, Organiza, D
<1>5. CASE Len(t.falta) = 1 /\ M = {}
  BY <1>5 DEF Seguinte, TarefaValida
<1> QED
  BY <1>1, <1>3, <1>4, <1>5

\* What a call to MoveObject does.
LEMMA MoverMove ==
    ASSUME TarefasInv, NEW s \in Tarefa, Mover(s)
    PROVE  \E M : LET t == tarefa[s]
                      c == Head(t.falta)
                      levar == objetos' = (objetos \ {t.dados.arq[c]}) \cup {Definitivo(t.dono, c)}
                  IN
                  /\ t.fase = "mover" /\ Proximo(s, Seguinte(t, M)) /\ UNCHANGED <<catalogo, enviados>>
                  /\ \/ M = t.movidos \cup {c} /\ levar /\ perdidas' = perdidas
                     \/ M = t.movidos /\ objetos' = objetos /\ perdidas' = perdidas
                     \/ M = t.movidos /\ levar /\ perdidas' = perdidas \cup {t.dono}
  BY Zenon DEF Mover, Seguinte

LEMMA MoverMantem ==
    ASSUME Base, TarefasInv, NEW s \in Tarefa, Mover(s)
    PROVE  Instrucao /\ TarefasInv'
<1>0. PICK t : t = tarefa[s]
  OBVIOUS
<1>1. PICK M :
          /\ M = t.movidos \/ M = t.movidos \cup {Head(t.falta)}
          /\ t.fase = "mover" /\ Proximo(s, Seguinte(t, M)) /\ UNCHANGED <<catalogo, enviados>>
  BY <1>0, MoverMove
<1>2. Instrucao
  BY <1>1 DEF Instrucao
<1>3. /\ sequencia \in Nat /\ sequencia' = sequencia /\ enviados \in Nat /\ enviados' = enviados
      /\ TarefaValida(t, sequencia, enviados)
  BY <1>0, <1>1 DEF Base, CatalogoInv, Esquema, TarefasInv, catalogo
<1>7. PICK q : q = Seguinte(t, M)
  OBVIOUS
<1>4. /\ TarefaValida(q, sequencia, enviados)
      /\ \/ q = Livre /\ M = {}
         \/ Organiza(q) /\ q.dono = t.dono /\ q.dados = t.dados /\ q.movidos = M
  BY <1>1, <1>3, <1>7, SeguinteValida
<1>5. Organiza(q) => \A r \in Tarefa \ {s} : Organiza(tarefa[r]) => tarefa[r].dono # q.dono
  <2>1. Organiza(t)
    BY <1>1 DEF Organiza
  <2>2. Organiza(q) => q.dono = t.dono
    BY <1>4, LivreNaoOrganiza
  <2> QED
    BY <1>0, <2>1, <2>2 DEF TarefasInv
<1>6. TarefasInv'
  <2>1. TarefaValida(q, sequencia', enviados')
    BY <1>3, <1>4
  <2>2. Proximo(s, q)
    BY <1>1, <1>7
  <2>3. sequencia' \in Nat /\ sequencia <= sequencia' /\ enviados' \in Nat /\ enviados <= enviados'
    BY <1>3
  <2> QED
    BY <1>3, <1>5, <2>1, <2>2, <2>3, TarefaTroca
<1> QED
  BY <1>2, <1>6

\* The row k of the registry gets the columns d.
Grava(k, d) == k \in Linhas /\ k[1] \in ComArquivos /\ LinhaCompleta(k[1], d) /\ Alterar(k, d)

LEMMA GravaInstrui ==
    ASSUME NEW k, NEW d, Grava(k, d)
    PROVE  Instrucao
  BY DEF Grava, Instrucao, Alteracao, ComArquivos

LEMMA ArquivosTrocados ==
    ASSUME NEW t, NEW d, LinhaCompleta(t, d), NEW a, DOMAIN a = Colunas(t), NEW e, e = [d EXCEPT !.arq = a]
    PROVE  LinhaCompleta(t, e) /\ e.arq = a
<1>1. d \in [ref : {d.ref}, data : Int, nome : Int, fone : Fone \cup {SemFone}, arq : {d.arq}]
  BY DEF LinhaCompleta, LinhaValida
<1>2. e \in [ref : {d.ref}, data : Int, nome : Int, fone : Fone \cup {SemFone}, arq : {a}]
  BY <1>1
<1>3. e.ref = d.ref /\ e.arq = a
  BY <1>2
<1> QED
  BY <1>2, <1>3 DEF LinhaCompleta, LinhaValida

LEMMA LinhaGravada ==
    ASSUME Base, NEW k \in Linhas
    PROVE  /\ LinhaCompleta(k[1], banco[k]) /\ DOMAIN banco[k].arq = Colunas(k[1])
           /\ \A t : k \in De(t) <=> k[1] = t
<1>1. LinhaCompleta(k[1], banco[k])
  BY LinhasCompletas
<1> QED
  BY <1>1 DEF LinhaCompleta, De

LEMMA LivreSegue ==
    ASSUME Base, TarefasInv, Instrucao, NEW s \in Tarefa, Proximo(s, Livre),
           enviados' = enviados \/ enviados' = enviados + 1
    PROVE  TarefasInv'
<1>1. sequencia \in Nat /\ sequencia' \in Nat /\ sequencia <= sequencia'
  BY BaseSegue
<1>2. enviados' \in Nat /\ enviados <= enviados'
  BY DEF TarefasInv
<1>3. TarefaValida(Livre, sequencia', enviados') /\ ~Organiza(Livre)
  BY LivreNaoOrganiza DEF TarefaValida
<1> QED
  BY <1>1, <1>2, <1>3, TarefaTroca

\* What each of the other requests does to the row and to the files.
LEMMA PersistirGrava ==
    ASSUME Base, TarefasInv, NEW s \in Tarefa, NEW t, t = tarefa[s], Persistir(s)
    PROVE  /\ t.fase = "persistir" /\ Proximo(s, Livre) /\ objetos' = objetos /\ enviados' = enviados
           /\ \/ \E d : Grava(t.dono, d) /\ d.arq = Organizados(t) /\ perdidas' = perdidas
              \/ perdidas' = perdidas \cup {t.dono} /\ UNCHANGED catalogo
<1>1. t.fase = "persistir" /\ Proximo(s, Livre) /\ objetos' = objetos /\ enviados' = enviados
  BY DEF Persistir
<1>2. /\ TarefaValida(t, sequencia, enviados) /\ t # Livre
  BY <1>1, LivreNaoOrganiza DEF TarefasInv
<1>3. LinhaCompleta(t.dono[1], t.dados)
  BY <1>2 DEF TarefaValida
<1>4. CASE (PersistirCliente(t) \/ PersistirMotorista(t)) /\ perdidas' = perdidas
  <2>1. PICK k, d : k = t.dono /\ k \in De("cliente") \cup De("motorista") /\ Alterar(k, d)
                      /\ d = [banco[k] EXCEPT !.arq = Organizados(t)]
    BY <1>4 DEF PersistirCliente, PersistirMotorista, AlterarCliente, AlterarMotorista
  <2>2. k \in Linhas /\ k[1] \in ComArquivos
    BY <2>1 DEF De, ComArquivos
  <2>3. DOMAIN Organizados(t) = Colunas(k[1])
    BY <1>3, <2>1 DEF Organizados, LinhaCompleta
  <2>4. LinhaCompleta(k[1], d) /\ d.arq = Organizados(t)
    <3>1. LinhaCompleta(k[1], banco[k])
      BY <2>2, LinhaGravada
    <3> QED
      BY <2>1, <2>3, <3>1, ArquivosTrocados
  <2>5. Grava(t.dono, d) /\ d.arq = Organizados(t)
    BY <2>1, <2>2, <2>4 DEF Grava
  <2> QED
    BY <1>1, <1>4, <2>5
<1>5. CASE PersistirVinculo(t) /\ perdidas' = perdidas
  <2>1. PICK k, d : k = t.dono /\ k \in De("vinculo") /\ Alterar(k, d)
                      /\ d = [t.dados EXCEPT !.arq = Organizados(t)]
    BY <1>5 DEF PersistirVinculo, AlterarVinculo
  <2>2. k \in Linhas /\ k[1] \in ComArquivos
    BY <2>1 DEF De, ComArquivos
  <2>3. DOMAIN Organizados(t) = Colunas(k[1])
    BY <1>3, <2>1 DEF Organizados, LinhaCompleta
  <2>4. LinhaCompleta(k[1], d) /\ d.arq = Organizados(t)
    BY <1>3, <2>1, <2>3, ArquivosTrocados
  <2>5. Grava(t.dono, d) /\ d.arq = Organizados(t)
    BY <2>1, <2>2, <2>4 DEF Grava
  <2> QED
    BY <1>1, <1>5, <2>5
<1> QED
  BY <1>1, <1>4, <1>5 DEF Persistir

LEMMA EditarGrava ==
    ASSUME Base, TarefasInv, EditarCliente \/ EditarMotorista
    PROVE  /\ UNCHANGED <<tarefa, perdidas>>
           /\ \E k, d :
                 /\ Grava(k, d)
                 /\ \/ d.arq = banco[k].arq /\ UNCHANGED <<objetos, enviados>>
                    \/ \E c \in Colunas(k[1]) :
                          Enviar(c) /\ d.arq = [banco[k].arq EXCEPT ![c] = Espera(enviados + 1, c)]
<1> DEFINE Dado(k, n, f, d) == d = [banco[k] EXCEPT !.nome = n, !.fone = f] \/ d = [banco[k] EXCEPT !.fone = f]
<1>1. ASSUME NEW k, k \in Linhas, NEW n, n \in Int, NEW f, f \in Fone \cup {SemFone}, NEW d, Dado(k, n, f, d)
      PROVE  LinhaCompleta(k[1], d) /\ d.arq = banco[k].arq
  <2>1. LinhaCompleta(k[1], banco[k])
    BY <1>1, LinhaGravada
  <2>2. PICK e : e = banco[k]
    OBVIOUS
  <2>3. e \in [ref : {e.ref}, data : Int, nome : Int, fone : Fone \cup {SemFone}, arq : {e.arq}]
    BY <2>1, <2>2 DEF LinhaCompleta, LinhaValida
  <2>4. d \in [ref : {e.ref}, data : Int, nome : Int, fone : Fone \cup {SemFone}, arq : {e.arq}]
    BY <1>1, <2>2, <2>3
  <2>5. d.ref = e.ref /\ d.arq = e.arq
    BY <2>4
  <2> QED
    BY <2>1, <2>2, <2>4, <2>5 DEF LinhaCompleta, LinhaValida
<1>2. ASSUME NEW k \in Linhas, NEW c \in Colunas(k[1]), NEW d, Enviar(c),
             d = [banco[k] EXCEPT !.arq[c] = Espera(enviados', c)]
      PROVE  LinhaCompleta(k[1], d) /\ d.arq = [banco[k].arq EXCEPT ![c] = Espera(enviados + 1, c)]
  <2>1. LinhaCompleta(k[1], banco[k])
    BY LinhaGravada
  <2>2. enviados' = enviados + 1
    BY <1>2 DEF Enviar
  <2>3. PICK a : a = [banco[k].arq EXCEPT ![c] = Espera(enviados + 1, c)]
    OBVIOUS
  <2>4. d = [banco[k] EXCEPT !.arq = a]
    BY <1>2, <2>2, <2>3
  <2>5. DOMAIN a = Colunas(k[1])
    BY <2>1, <2>3 DEF LinhaCompleta
  <2>6. LinhaCompleta(k[1], d) /\ d.arq = a
    BY <2>1, <2>4, <2>5, ArquivosTrocados
  <2> QED
    BY <2>3, <2>6
<1>0. UNCHANGED <<tarefa, perdidas>>
  BY DEF EditarCliente, EditarMotorista
<1> DEFINE Grave(k, d) ==
              /\ Grava(k, d)
              /\ \/ d.arq = banco[k].arq /\ UNCHANGED <<objetos, enviados>>
                 \/ \E c \in Colunas(k[1]) :
                       Enviar(c) /\ d.arq = [banco[k].arq EXCEPT ![c] = Espera(enviados + 1, c)]
<1>5. ASSUME NEW k, NEW d, Grave(k, d)
      PROVE  /\ UNCHANGED <<tarefa, perdidas>>
             /\ \E j, e : Grave(j, e)
  BY <1>0, <1>5
<1>3. CASE EditarCliente
  <2>1. PICK k \in De("cliente") :
        \/ \E n \in Nome, f \in Fone \cup {SemFone} :
              AlterarCliente(k, [banco[k] EXCEPT !.nome = n, !.fone = f]) /\ UNCHANGED <<objetos, enviados>>
        \/ \E c \in DOMAIN banco[k].arq :
              Enviar(c) /\ AlterarCliente(k, [banco[k] EXCEPT !.arq[c] = Espera(enviados', c)])
    BY <1>3 DEF EditarCliente
  <2>2. k \in Linhas /\ k[1] \in ComArquivos /\ DOMAIN banco[k].arq = Colunas(k[1])
    BY LinhaGravada DEF De, ComArquivos
  <2>3. CASE \E n \in Nome, f \in Fone \cup {SemFone} :
              AlterarCliente(k, [banco[k] EXCEPT !.nome = n, !.fone = f]) /\ UNCHANGED <<objetos, enviados>>
    <3>1. PICK n, f, d :
              /\ n \in Nome /\ f \in Fone \cup {SemFone}
              /\ d = [banco[k] EXCEPT !.nome = n, !.fone = f]
              /\ Alterar(k, d) /\ UNCHANGED <<objetos, enviados>>
      BY <2>3 DEF AlterarCliente
    <3>2. LinhaCompleta(k[1], d) /\ d.arq = banco[k].arq
      <4>1. n \in Int /\ f \in Fone \cup {SemFone}
        BY <3>1, CatalogoAssumption
      <4>2. Dado(k, n, f, d)
        BY <3>1
      <4> HIDE DEF Dado
      <4> QED
        BY <1>1, <2>2, <4>1, <4>2
    <3>3. Grave(k, d)
      BY <2>2, <3>1, <3>2 DEF Grava
    <3> HIDE DEF Grave
    <3> QED
      BY <1>5, <3>3 DEF Grave
  <2>4. CASE \E c \in DOMAIN banco[k].arq :
              Enviar(c) /\ AlterarCliente(k, [banco[k] EXCEPT !.arq[c] = Espera(enviados', c)])
    <3>1. PICK c, d :
              /\ c \in Colunas(k[1])
              /\ d = [banco[k] EXCEPT !.arq[c] = Espera(enviados', c)]
              /\ Enviar(c) /\ Alterar(k, d)
      BY <2>2, <2>4 DEF AlterarCliente
    <3>2. LinhaCompleta(k[1], d) /\ d.arq = [banco[k].arq EXCEPT ![c] = Espera(enviados + 1, c)]
      BY <1>2, <2>2, <3>1
    <3>3. Grave(k, d)
      BY <2>2, <3>1, <3>2 DEF Grava
    <3> HIDE DEF Grave
    <3> QED
      BY <1>5, <3>3 DEF Grave
  <2> QED
    BY <2>1, <2>3, <2>4
<1>4. CASE EditarMotorista
  <2>1. PICK k \in De("motorista") :
        \/ \E f \in Fone \cup {SemFone} :
              AlterarMotorista(k, [banco[k] EXCEPT !.fone = f]) /\ UNCHANGED <<objetos, enviados>>
        \/ Enviar("foto") /\ AlterarMotorista(k, [banco[k] EXCEPT !.arq["foto"] = Espera(enviados', "foto")])
    BY <1>4 DEF EditarMotorista
  <2>2. k \in Linhas /\ k[1] \in ComArquivos /\ k[1] = "motorista" /\ "foto" \in Colunas(k[1])
    BY ColunasDasTabelas DEF De, ComArquivos
  <2>3. CASE \E f \in Fone \cup {SemFone} :
              AlterarMotorista(k, [banco[k] EXCEPT !.fone = f]) /\ UNCHANGED <<objetos, enviados>>
    <3>1. PICK f, d :
              /\ f \in Fone \cup {SemFone}
              /\ d = [banco[k] EXCEPT !.fone = f]
              /\ Alterar(k, d) /\ UNCHANGED <<objetos, enviados>>
      BY <2>3 DEF AlterarMotorista
    <3>2. LinhaCompleta(k[1], d) /\ d.arq = banco[k].arq
      <4>1. 0 \in Int /\ f \in Fone \cup {SemFone}
        BY <3>1
      <4>2. Dado(k, 0, f, d)
        BY <3>1
      <4> HIDE DEF Dado
      <4> QED
        BY <1>1, <2>2, <4>1, <4>2
    <3>3. Grave(k, d)
      BY <2>2, <3>1, <3>2 DEF Grava
    <3> HIDE DEF Grave
    <3> QED
      BY <1>5, <3>3 DEF Grave
  <2>4. CASE Enviar("foto") /\ AlterarMotorista(k, [banco[k] EXCEPT !.arq["foto"] = Espera(enviados', "foto")])
    <3>1. PICK d :
              /\ d = [banco[k] EXCEPT !.arq["foto"] = Espera(enviados', "foto")]
              /\ Enviar("foto") /\ Alterar(k, d)
      BY <2>4 DEF AlterarMotorista
    <3>2. LinhaCompleta(k[1], d) /\ d.arq = [banco[k].arq EXCEPT !["foto"] = Espera(enviados + 1, "foto")]
      BY <1>2, <2>2, <3>1
    <3>3. Grave(k, d)
      BY <2>2, <3>1, <3>2 DEF Grava
    <3> HIDE DEF Grave
    <3> QED
      BY <1>5, <3>3 DEF Grave
  <2> QED
    BY <2>1, <2>3, <2>4
<1> QED
  BY <1>3, <1>4

LEMMA SalvarGrava ==
    ASSUME Base, TarefasInv, NEW s \in Tarefa, NEW t, t = tarefa[s], SalvarVinculo(s)
    PROVE  /\ t.fase = "formulario" /\ Proximo(s, Livre)
           /\ \E d :
                 /\ Grava(t.dono, d)
                 /\ \/ /\ Enviar("comprovante") /\ perdidas' = perdidas /\ t.dono[1] = "vinculo"
                       /\ d.arq = [t.dados.arq EXCEPT !["comprovante"] = Espera(enviados + 1, "comprovante")]
                    \/ /\ d.arq = t.dados.arq /\ UNCHANGED <<objetos, enviados>>
                       /\ perdidas' = IF t.dados.arq = banco[t.dono].arq THEN perdidas
                                                                         ELSE perdidas \cup {t.dono}
<1>1. t.fase = "formulario" /\ Proximo(s, Livre)
  BY DEF SalvarVinculo
<1>2. TarefaValida(t, sequencia, enviados) /\ t # Livre
  BY <1>1, LivreNaoOrganiza DEF TarefasInv
<1>3. LinhaCompleta("vinculo", t.dados) /\ t.dono[1] = "vinculo"
  BY <1>1, <1>2 DEF TarefaValida
<1>4. CASE /\ Enviar("comprovante")
           /\ AlterarVinculo(t.dono, [t.dados EXCEPT !.arq["comprovante"] = Espera(enviados', "comprovante")])
           /\ perdidas' = perdidas
  <2>1. PICK d : /\ d = [t.dados EXCEPT !.arq["comprovante"] = Espera(enviados', "comprovante")]
                 /\ t.dono \in De("vinculo") /\ Alterar(t.dono, d)
    BY <1>4 DEF AlterarVinculo
  <2>2. t.dono \in Linhas /\ t.dono[1] \in ComArquivos
    BY <2>1 DEF De, ComArquivos
  <2>3. PICK a : a = [t.dados.arq EXCEPT !["comprovante"] = Espera(enviados + 1, "comprovante")]
    OBVIOUS
  <2>4. d = [t.dados EXCEPT !.arq = a]
    <3>1. enviados' = enviados + 1
      BY <1>4 DEF Enviar
    <3> QED
      BY <2>1, <2>3, <3>1
  <2>5. DOMAIN a = Colunas("vinculo")
    BY <1>3, <2>3 DEF LinhaCompleta
  <2>6. LinhaCompleta("vinculo", d) /\ d.arq = a
    BY <1>3, <2>4, <2>5, ArquivosTrocados
  <2>7. Grava(t.dono, d)
    BY <1>3, <2>1, <2>2, <2>6 DEF Grava
  <2> QED
    BY <1>1, <1>3, <1>4, <2>3, <2>6, <2>7
<1>5. CASE /\ \E d \in De("destino") :
                AlterarVinculo(t.dono, [t.dados EXCEPT !.ref = {r \in @ : r[1] # "destino"} \cup {d}])
           /\ perdidas' = IF t.dados.arq = banco[t.dono].arq THEN perdidas
                                                             ELSE perdidas \cup {t.dono}
           /\ UNCHANGED <<objetos, enviados>>
  <2>1. PICK u, d :
                 /\ u \in De("destino")
                 /\ d = [t.dados EXCEPT !.ref = {r \in @ : r[1] # "destino"} \cup {u}]
                 /\ t.dono \in De("vinculo") /\ Alterar(t.dono, d)
    BY <1>5 DEF AlterarVinculo
  <2>2. t.dono \in Linhas /\ t.dono[1] \in ComArquivos
    BY <2>1 DEF De, ComArquivos
  <2>3. PICK e, R : e = t.dados /\ R = {r \in e.ref : r[1] # "destino"} \cup {u}
    OBVIOUS
  <2>4. /\ e \in [ref : {e.ref}, data : Int, nome : Int, fone : Fone \cup {SemFone}, arq : {e.arq}]
        /\ \A r \in e.ref : <<"vinculo", r[1]>> \in Estrangeira
        /\ \E r \in e.ref : r[1] = "cliente"
        /\ DOMAIN e.arq = Colunas("vinculo")
    BY <1>3, <2>3 DEF LinhaCompleta, LinhaValida
  <2>5. d \in [ref : {R}, data : Int, nome : Int, fone : Fone \cup {SemFone}, arq : {e.arq}]
    BY <2>1, <2>3, <2>4
  <2>6. d.ref = R /\ d.arq = e.arq
    BY <2>5
  <2>7. \A r \in R : <<"vinculo", r[1]>> \in Estrangeira
    <3>1. u[1] = "destino" /\ <<"vinculo", "destino">> \in Estrangeira
      BY <2>1 DEF De, Estrangeira
    <3> QED
      BY <2>3, <2>4, <3>1
  <2>8. \E r \in R : r[1] = "cliente"
    BY <2>3, <2>4
  <2>9. LinhaCompleta("vinculo", d)
    BY <2>4, <2>5, <2>6, <2>7, <2>8 DEF LinhaCompleta, LinhaValida
  <2>10. Grava(t.dono, d)
    BY <1>3, <2>1, <2>2, <2>9 DEF Grava
  <2> QED
    BY <1>1, <1>5, <2>3, <2>6, <2>10
<1> QED
  BY <1>1, <1>4, <1>5 DEF SalvarVinculo

LEMMA LivreFormulario ==
    ASSUME NEW f, NEW x, NEW z, NEW q, q = [Livre EXCEPT !.fase = f, !.dono = x, !.dados = z]
    PROVE  q = [fase |-> f, dono |-> x, dados |-> z, falta |-> <<>>, movidos |-> {}]
<1> DEFINE v == <<"", 0>>
           w == <<>>
           l == Livre
<1>1. l \in [fase : {"livre"}, dono : {v}, dados : {SemDados}, falta : {w}, movidos : {{}}]
  BY DEF Livre
<1> HIDE DEF v, w, l
<1>2. ASSUME NEW e, e = [l EXCEPT !.fase = f, !.dono = x, !.dados = z]
      PROVE  e \in [fase : {f}, dono : {x}, dados : {z}, falta : {w}, movidos : {{}}]
  BY <1>1, <1>2
<1>3. ASSUME NEW e, e \in [fase : {f}, dono : {x}, dados : {z}, falta : {w}, movidos : {{}}]
      PROVE  e = [fase |-> f, dono |-> x, dados |-> z, falta |-> w, movidos |-> {}]
  BY <1>3
<1> QED
  BY <1>2, <1>3 DEF l, w

LEMMA AbrirAbre ==
    ASSUME Base, TarefasInv, NEW s \in Tarefa, AbrirVinculo(s)
    PROVE  \E k \in De("vinculo") : \E q :
              /\ tarefa[s].fase = "livre" /\ Proximo(s, q) /\ UNCHANGED <<catalogo, objetos, enviados, perdidas>>
              /\ q = [fase |-> "formulario", dono |-> k, dados |-> banco[k], falta |-> <<>>, movidos |-> {}]
<1>1. PICK k, q :
         /\ k \in De("vinculo")
         /\ q = [Livre EXCEPT !.fase = "formulario", !.dono = k, !.dados = banco[k]]
         /\ tarefa[s].fase = "livre" /\ Proximo(s, q) /\ UNCHANGED <<catalogo, objetos, enviados, perdidas>>
  BY DEF AbrirVinculo
<1>3. q = [fase |-> "formulario", dono |-> k, dados |-> banco[k], falta |-> <<>>, movidos |-> {}]
  BY <1>1, LivreFormulario
<1> QED
  BY <1>1, <1>3

LEMMA AbrirMantem ==
    ASSUME Base, TarefasInv, NEW s \in Tarefa, AbrirVinculo(s)
    PROVE  Instrucao /\ TarefasInv'
<1>1. PICK k, q :
              /\ k \in De("vinculo")
              /\ Proximo(s, q) /\ UNCHANGED <<catalogo, enviados>>
              /\ q = [fase |-> "formulario", dono |-> k, dados |-> banco[k], falta |-> <<>>, movidos |-> {}]
  BY AbrirAbre
<1>2. /\ sequencia \in Nat /\ sequencia' = sequencia /\ enviados \in Nat /\ enviados' = enviados
  BY <1>1 DEF Base, CatalogoInv, Esquema, TarefasInv, catalogo
<1>3. k \in ComArquivos \X (0 .. sequencia) /\ k[1] = "vinculo" /\ LinhaCompleta("vinculo", banco[k])
  <2>1. k \in Linhas /\ k[1] = "vinculo"
    BY <1>1 DEF De
  <2>2. k \in Tabela \X Nat /\ k[2] <= sequencia
    BY <2>1 DEF Base, CatalogoInv, Esquema, CatalogoTypeOK
  <2>3. k[2] \in 0 .. sequencia
    BY <1>2, <2>2
  <2> QED
    BY <2>1, <2>2, <2>3, LinhaGravada DEF ComArquivos
<1>4. TarefaValida(q, sequencia, enviados) /\ ~Organiza(q)
  <2>1. q.fase = "formulario" /\ q.dono = k /\ q.dados = banco[k] /\ q.movidos = {}
    BY <1>1
  <2>2. q \in [fase : {"formulario", "mover", "persistir"}, dono : {k},
               dados : {q.dados}, falta : {q.falta}, movidos : {{}}]
    BY <1>1
  <2>3. q \in [fase : {"formulario", "mover", "persistir"}, dono : ComArquivos \X (0 .. sequencia),
               dados : {q.dados}, falta : {q.falta}, movidos : SUBSET Colunas(q.dono[1])]
    BY <1>3, <2>2
  <2> QED
    BY <1>3, <2>1, <2>3 DEF TarefaValida, Organiza
<1>5. TarefasInv'
  BY <1>1, <1>2, <1>4, TarefaTroca
<1> QED
  BY <1>1, <1>5 DEF Instrucao

LEMMA DocumentosMantem ==
    ASSUME Base, TarefasInv, DeDocumentos
    PROVE  Instrucao /\ TarefasInv'
<1>1. CASE EditarCliente \/ EditarMotorista
  <2>1. PICK k, d :
           /\ Grava(k, d) /\ UNCHANGED tarefa
           /\ enviados' = enviados \/ enviados' = enviados + 1
    BY <1>1, EditarGrava DEF Enviar
  <2>2. Instrucao
    BY <2>1, GravaInstrui
  <2>3. sequencia \in Nat /\ sequencia' \in Nat /\ sequencia <= sequencia'
    BY <2>2, BaseSegue
  <2>4. enviados' \in Nat /\ enviados <= enviados'
    BY <2>1 DEF TarefasInv
  <2> QED
    BY <2>1, <2>2, <2>3, <2>4, TarefasSeguem
<1>2. ASSUME NEW s \in Tarefa, CriarCliente(s) \/ CriarMotorista(s) \/ CriarVinculo(s)
      PROVE  Instrucao /\ TarefasInv'
  BY <1>2, CriacoesCriam, CriarMantem DEF Cria
<1>3. ASSUME NEW s \in Tarefa, AbrirVinculo(s) PROVE Instrucao /\ TarefasInv'
  BY <1>3, AbrirMantem
<1>4. ASSUME NEW s \in Tarefa, Mover(s) PROVE Instrucao /\ TarefasInv'
  BY <1>4, MoverMantem
<1>5. ASSUME NEW s \in Tarefa, Persistir(s) PROVE Instrucao /\ TarefasInv'
  <2>1. Proximo(s, Livre) /\ enviados' = enviados
    BY <1>5, PersistirGrava
  <2>2. Instrucao
    BY <1>5, PersistirGrava, GravaInstrui DEF Instrucao
  <2> QED
    BY <2>1, <2>2, LivreSegue
<1>6. ASSUME NEW s \in Tarefa, SalvarVinculo(s) PROVE Instrucao /\ TarefasInv'
  <2>1. Proximo(s, Livre) /\ (enviados' = enviados \/ enviados' = enviados + 1)
    BY <1>6, SalvarGrava DEF Enviar
  <2>2. Instrucao
    BY <1>6, SalvarGrava, GravaInstrui
  <2> QED
    BY <2>1, <2>2, LivreSegue
<1>7. ASSUME NEW s \in Tarefa, FecharVinculo(s) PROVE Instrucao /\ TarefasInv'
  <2>1. Proximo(s, Livre) /\ enviados' = enviados /\ Instrucao
    BY <1>7 DEF FecharVinculo, Instrucao
  <2> QED
    BY <2>1, LivreSegue
<1> QED
  BY <1>1, <1>2, <1>3, <1>4, <1>5, <1>6, <1>7 DEF DeDocumentos

-----------------------------------------------------------------------------
(* Types *)

Tipo == Base /\ TarefasInv /\ RetencaoTypeOK /\ hoje \in Int

LEMMA RetencaoMantem ==
    ASSUME Base, RetencaoTypeOK, hoje \in Int, DeRetencao
    PROVE  SemArquivos /\ UNCHANGED documentos /\ RetencaoTypeOK' /\ hoje' \in Int
<1>1. UNCHANGED documentos
  BY DEF DeRetencao
<1>2. /\ limpeza \in [passo : 0..3, corte : Int, saturado : BOOLEAN,
                      resumo : {"nenhum", "erro", "saturado", "completo"}]
      /\ SemLimpeza \in [passo : 0..3, corte : Int, saturado : BOOLEAN,
                         resumo : {"nenhum", "erro", "saturado", "completo"}]
      /\ Corte \in Int
  BY RetencaoAssumption DEF RetencaoTypeOK, SemLimpeza, Corte
<1>3. CASE Limpar
  <2>1. UNCHANGED <<catalogo, hoje>> /\ limpeza' = [SemLimpeza EXCEPT !.passo = 1, !.corte = Corte]
    BY <1>3 DEF Limpar
  <2>2. RetencaoTypeOK'
    <3>1. 1 \in 0..3
      OBVIOUS
    <3>2. PICK c : c = Corte
      OBVIOUS
    <3>3. limpeza' = [SemLimpeza EXCEPT !.passo = 1, !.corte = c] /\ c \in Int
      BY <1>2, <2>1, <3>2
    <3> QED
      BY <1>2, <3>1, <3>3 DEF RetencaoTypeOK
  <2> QED
    BY <1>1, <2>1, <2>2 DEF SemArquivos
<1>4. CASE Amanhecer
  <2>1. UNCHANGED <<catalogo, limpeza>> /\ hoje' = hoje + 1
    BY <1>4 DEF Amanhecer
  <2> QED
    BY <1>1, <2>1 DEF SemArquivos, RetencaoTypeOK
<1>5. CASE Remover
  <2>1. PICK L, s :
           /\ L \in Lotes(Antigas(Ordem[limpeza.passo], limpeza.corte))
           /\ Excluir(L) /\ hoje' = hoje /\ s = (limpeza.saturado \/ Cardinality(L) >= Lote)
           /\ limpeza' = [limpeza EXCEPT
                 !.saturado = s,
                 !.passo = (@ + 1) % 4,
                 !.resumo = IF limpeza.passo # 3 THEN "nenhum" ELSE IF s THEN "saturado" ELSE "completo"]
    BY <1>5 DEF Remover
  <2>2. SemArquivos
    <3>1. L \in SUBSET Linhas
      BY <2>1 DEF Excluir
    <3> QED
      BY <2>1, <3>1 DEF SemArquivos, Exclusao
  <2>3. s \in BOOLEAN /\ (limpeza.passo + 1) % 4 \in 0..3
    BY <1>2, <2>1
  <2>4. PICK r \in {"nenhum", "erro", "saturado", "completo"} :
           r = IF limpeza.passo # 3 THEN "nenhum" ELSE IF s THEN "saturado" ELSE "completo"
    BY <2>3
  <2>5. limpeza' = [limpeza EXCEPT !.saturado = s, !.passo = (@ + 1) % 4, !.resumo = r]
    BY <2>1, <2>4
  <2>6. RetencaoTypeOK'
    BY <1>2, <2>3, <2>5 DEF RetencaoTypeOK
  <2> QED
    BY <1>1, <2>1, <2>2, <2>6
<1>6. CASE FalharLimpeza
  <2>1. UNCHANGED <<catalogo, hoje>> /\ limpeza' = [SemLimpeza EXCEPT !.resumo = "erro"]
    BY <1>6 DEF FalharLimpeza
  <2>2. RetencaoTypeOK'
    BY <1>2, <2>1 DEF RetencaoTypeOK
  <2> QED
    BY <1>1, <2>1, <2>2 DEF SemArquivos
<1> QED
  BY <1>3, <1>4, <1>5, <1>6 DEF DeRetencao

\* Every step is a statement, or none.
LEMMA PassoInstrui ==
    ASSUME Tipo, [Next]_vars
    PROVE  Instrucao /\ Tipo'
<1>1. Base /\ TarefasInv /\ RetencaoTypeOK /\ hoje \in Int /\ CatalogoInv
  BY DEF Tipo, Base
<1>2. ASSUME Instrucao, UNCHANGED documentos PROVE TarefasInv'
  <2>1. tarefa' = tarefa /\ enviados' = enviados /\ enviados \in Nat
    BY <1>1, <1>2 DEF documentos, TarefasInv
  <2>2. sequencia \in Nat /\ sequencia' \in Nat /\ sequencia <= sequencia'
    BY <1>1, <1>2, BaseSegue
  <2> QED
    BY <1>1, <2>1, <2>2, TarefasSeguem
<1>3. ASSUME UNCHANGED retencao PROVE RetencaoTypeOK' /\ hoje' \in Int
  BY <1>1, <1>3 DEF retencao, RetencaoTypeOK
<1>4. CASE DoCatalogo
  <2>1. Instrucao /\ UNCHANGED <<documentos, retencao>>
    BY <1>1, <1>4, CatalogoInstrui, SemArquivosInstrui DEF DoCatalogo
  <2> QED
    BY <1>1, <1>2, <1>3, <2>1, BaseSegue DEF Tipo
<1>5. CASE DeDocumentos
  <2>1. Instrucao /\ TarefasInv' /\ UNCHANGED retencao
    BY <1>1, <1>5, DocumentosMantem DEF DeDocumentos
  <2> QED
    BY <1>1, <1>3, <2>1, BaseSegue DEF Tipo
<1>6. CASE DeRetencao
  <2>1. Instrucao /\ UNCHANGED documentos /\ RetencaoTypeOK' /\ hoje' \in Int
    BY <1>1, <1>6, RetencaoMantem, SemArquivosInstrui
  <2> QED
    BY <1>1, <1>2, <2>1, BaseSegue DEF Tipo
<1>7. CASE DeListagem \/ UNCHANGED vars
  <2>1. UNCHANGED <<catalogo, documentos, retencao>>
    BY <1>7 DEF DeListagem, AbrirLista, LerPagina, vars
  <2>2. Instrucao
    BY <2>1 DEF Instrucao
  <2> QED
    BY <1>1, <1>2, <1>3, <2>1, <2>2, BaseSegue DEF Tipo
<1> QED
  BY <1>4, <1>5, <1>6, <1>7 DEF Next

LEMMA Inicia ==
    ASSUME Init
    PROVE  Tipo
<1>1. /\ banco \in Anteriores /\ sequencia = Cardinality(Linhas)
      /\ telefones = {<<banco[k].fone, k>> : k \in {j \in Linhas : banco[j].fone # SemFone}}
  BY DEF Init, CatalogoInit
<1>2. /\ IsFiniteSet(Linhas) /\ Linhas \subseteq Tabela \X (1 .. Cardinality(Linhas))
      /\ \A k \in Linhas : LinhaValida(k[1], banco[k]) /\ banco[k].ref \subseteq Linhas
      /\ \A j, k \in Linhas : banco[j].fone = banco[k].fone => j = k \/ banco[k].fone = SemFone
  BY <1>1, CatalogoAssumption DEF BancoValido, Linhas
<1>3. sequencia \in Nat
  BY <1>1, <1>2, FS_CardinalityType
<1>4. \A k \in Linhas : k \in Tabela \X Nat /\ k[2] <= sequencia
  <2>1. ASSUME NEW k \in Linhas PROVE k \in Tabela \X Nat /\ k[2] <= sequencia
    <3>1. k \in Tabela \X (1 .. sequencia)
      BY <1>1, <1>2
    <3>2. k[2] \in 1 .. sequencia /\ k[1] \in Tabela /\ k = <<k[1], k[2]>>
      BY <3>1
    <3>3. k[2] \in Nat /\ k[2] <= sequencia
      BY <1>3, <3>2
    <3> QED
      BY <3>2, <3>3
  <2> QED
    BY <2>1
<1>5. Esquema
  BY <1>2, <1>3, <1>4 DEF Esquema
<1>6. CatalogoTypeOK
  <2>1. \A k \in De("rota") : banco[k].ref # {}
    BY <1>2 DEF De, LinhaValida
  <2>2. \A f, g \in telefones : f[1] = g[1] => f = g
    BY <1>1, <1>2
  <2> QED
    BY <1>1, <1>2, <1>4, <2>1, <2>2 DEF CatalogoTypeOK
<1>7. Base
  <2>1. \A k \in Linhas : DOMAIN banco[k].arq = Colunas(k[1])
    BY <1>1, DocumentosAssumption DEF Linhas
  <2> QED
    BY <1>5, <1>6, <2>1 DEF Base, CatalogoInv
<1>8. TarefasInv
  <2>1. enviados = 0 /\ DOMAIN tarefa = Tarefa /\ \A s \in Tarefa : tarefa[s] = Livre
    BY DEF Init, DocumentosInit
  <2>2. ~Organiza(Livre)
    BY LivreNaoOrganiza
  <2>3. \A s \in Tarefa : TarefaValida(tarefa[s], sequencia, enviados)
    BY <2>1 DEF TarefaValida
  <2> QED
    BY <2>1, <2>2, <2>3 DEF TarefasInv
<1>9. RetencaoTypeOK /\ hoje \in Int
  BY RetencaoAssumption DEF Init, RetencaoInit, RetencaoTypeOK, SemLimpeza
<1> QED
  BY <1>7, <1>8, <1>9 DEF Tipo

LEMMA Tipos ==
    Tipo => TypeOK
<1> SUFFICES ASSUME Tipo PROVE TypeOK
  OBVIOUS
<1>1. CatalogoTypeOK /\ RetencaoTypeOK /\ TarefasInv
  BY DEF Tipo, Base, CatalogoInv
<1>2. \A s \in Tarefa : tarefa[s].fase \in {"livre", "mover", "persistir", "formulario"}
  BY <1>1, LivreNaoOrganiza DEF TarefasInv, TarefaValida
<1>3. \A s, r \in Tarefa : {tarefa[s].fase, tarefa[r].fase} \subseteq {"mover", "persistir"}
                               /\ tarefa[s].dono = tarefa[r].dono => s = r
  BY <1>1 DEF TarefasInv, Organiza
<1> QED
  BY <1>1, <1>2, <1>3 DEF TypeOK

\* Every step keeps the rows valid, the requests in course in a state of the code and
\* the clean-up's record: what the proofs below start from.
THEOREM TiposCorretos == Spec => []Tipo
<1>1. Init => Tipo
  BY Inicia
<1>2. Tipo /\ [Next]_vars => Tipo'
  BY PassoInstrui
<1> QED
  BY <1>1, <1>2, PTL DEF Spec

\* References hold, routes keep their stops and the registry of telephones has exactly
\* those of the rows, each once, whatever is created, edited, removed or cleaned up; no
\* two requests organise the files of one row.
THEOREM CadastroIntegro == Spec => []TypeOK
  BY TiposCorretos, Tipos, PTL

-----------------------------------------------------------------------------
(* Files *)

\* Row k, or a request for it, has path p in column c.
Tem(k, c, p) ==
    \/ k \in Linhas /\ c \in Colunas(k[1]) /\ p = banco[k].arq[c]
    \/ \E s \in Tarefa : tarefa[s].dono = k /\ c \in Colunas(k[1]) /\ p = tarefa[s].dados.arq[c]

\* The paths that may be in column c of row k after m uploads.
Caminho(k, c, p, m) ==
    p = Definitivo(k, c) \/ p = Espera(-k[2], c) \/ \E i \in 1 .. m : p = Espera(i, c)

\* No two rows have the path of one upload.
PosseInv ==
    /\ \A k, c, p : Tem(k, c, p) => Caminho(k, c, p, enviados)
    /\ \A k, j, c : \A i \in 1 .. enviados : Tem(k, c, Espera(i, c)) /\ Tem(j, c, Espera(i, c)) => k = j

\* The files of a row that is being organised: each has moved or is where it was sent.
Fiel(t, O, P) ==
    Organiza(t) => \A c \in Colunas(t.dono[1]) :
        IF c \in t.movidos THEN Definitivo(t.dono, c) \in O ELSE t.dados.arq[c] \in O \/ t.dono \in P
FielInv == \A s \in Tarefa : Fiel(tarefa[s], objetos, perdidas)

MovidoPor(k, c) == \E s \in Tarefa : Organiza(tarefa[s]) /\ tarefa[s].dono = k /\ c \in tarefa[s].movidos
AchadaInv ==
    \A k \in Linhas : \A c \in Colunas(k[1]) :
        banco[k].arq[c] \in objetos \/ k \in perdidas \/ MovidoPor(k, c)

ArquivosInv == PosseInv /\ FielInv /\ AchadaInv

Chave(k) == k \in Tabela \X Nat

LEMMA Caminhos ==
    /\ \A i, j, c, d : Espera(i, c) = Espera(j, d) <=> i = j /\ c = d
    /\ \A i, k, c, d : Chave(k) => Espera(i, c) # Definitivo(k, d)
<1>1. ASSUME NEW i, NEW j, NEW c, NEW d, Espera(i, c) = Espera(j, d) PROVE i = j /\ c = d
  <2>1. Espera(i, c).dono = <<"espera", i>> /\ Espera(j, d).dono = <<"espera", j>>
    BY DEF Espera
  <2>2. Espera(i, c).campo = c /\ Espera(j, d).campo = d
    BY DEF Espera
  <2> QED
    BY <1>1, <2>1, <2>2
<1>2. ASSUME NEW i, NEW k, NEW c, NEW d, Chave(k), Espera(i, c) = Definitivo(k, d) PROVE FALSE
  <2>1. Espera(i, c).dono = <<"espera", i>> /\ Definitivo(k, d).dono = k
    BY DEF Espera, Definitivo
  <2>2. k[1] = "espera" /\ k[1] \in Tabela
    BY <1>2, <2>1 DEF Chave
  <2> QED
    BY <2>2 DEF Tabela
<1> QED
  BY <1>1, <1>2

\* Only the row of an upload has its path, and in its column.
LEMMA SoDoDono ==
    ASSUME PosseInv, enviados \in Nat, NEW k, Chave(k), NEW d, NEW p, Tem(k, d, p),
           NEW i, i \in 1 .. enviados, NEW j, NEW c, p = Espera(i, c), Tem(j, c, p)
    PROVE  k = j /\ c = d
<1>1. Caminho(k, d, p, enviados)
  BY DEF PosseInv
<1>2. p # Definitivo(k, d)
  BY Caminhos
<1>3. p # Espera(-k[2], d)
  <2>1. k[2] \in Nat
    BY DEF Chave
  <2>2. -k[2] # i
    BY <2>1
  <2> QED
    BY <2>2, Caminhos
<1>4. c = d
  BY <1>1, <1>2, <1>3, Caminhos DEF Caminho
<1> QED
  BY <1>4 DEF PosseInv

\* The paths after a step: as before, definitive, or of a file just sent for row K.
Herda(K) ==
    \A k, c, p : Tem(k, c, p)' =>
        /\ Chave(k)
        /\ \/ Tem(k, c, p) \/ p = Definitivo(k, c)
           \/ k = K /\ enviados' = enviados + 1 /\ p = Espera(enviados + 1, c)

LEMMA PosseSegue ==
    ASSUME PosseInv, enviados \in Nat, enviados' = enviados \/ enviados' = enviados + 1, NEW K, Herda(K)
    PROVE  PosseInv'
<1>1. 1 .. enviados \subseteq 1 .. enviados'
  OBVIOUS
<1>2. \A k, c, p : Tem(k, c, p)' => Caminho(k, c, p, enviados')
  <2> SUFFICES ASSUME NEW k, NEW c, NEW p, Tem(k, c, p)' PROVE Caminho(k, c, p, enviados')
    OBVIOUS
  <2>1. CASE Tem(k, c, p)
    <3>1. Caminho(k, c, p, enviados)
      BY <2>1 DEF PosseInv
    <3> QED
      BY <1>1, <3>1 DEF Caminho
  <2>2. CASE p = Definitivo(k, c)
    BY <2>2 DEF Caminho
  <2>3. CASE enviados' = enviados + 1 /\ p = Espera(enviados + 1, c)
    <3>1. enviados + 1 \in 1 .. enviados'
      BY <2>3
    <3> QED
      BY <2>3, <3>1 DEF Caminho
  <2> QED
    BY <2>1, <2>2, <2>3 DEF Herda
<1>3. \A k, j, c : \A i \in 1 .. enviados' : Tem(k, c, Espera(i, c))' /\ Tem(j, c, Espera(i, c))' => k = j
  <2> SUFFICES ASSUME NEW k, NEW j, NEW c, NEW i \in 1 .. enviados', NEW p, p = Espera(i, c),
                      Tem(k, c, p)', Tem(j, c, p)'
               PROVE  k = j
    OBVIOUS
  <2>1. ASSUME NEW l, Tem(l, c, p)' PROVE Chave(l) /\ p # Definitivo(l, c)
    BY <2>1, Caminhos DEF Herda
  <2>2. CASE i \in 1 .. enviados
    <3>1. i # enviados + 1
      BY <2>2
    <3>2. p # Espera(enviados + 1, c)
      BY <3>1, Caminhos
    <3>3. Tem(k, c, p) /\ Tem(j, c, p)
      BY <2>1, <3>2 DEF Herda
    <3> QED
      BY <2>2, <3>3 DEF PosseInv
  <2>3. CASE i \notin 1 .. enviados
    <3>1. ASSUME NEW l, Tem(l, c, p)' PROVE ~Tem(l, c, p)
      <4> SUFFICES ASSUME Tem(l, c, p) PROVE FALSE
        OBVIOUS
      <4>1. Caminho(l, c, p, enviados) /\ Chave(l) /\ p # Definitivo(l, c)
        BY <2>1, <3>1 DEF PosseInv
      <4>2. l[2] \in Nat
        BY <4>1 DEF Chave
      <4>3. -l[2] # i
        BY <4>2
      <4> QED
        BY <2>3, <4>1, <4>3, Caminhos DEF Caminho
    <3> QED
      BY <2>1, <3>1 DEF Herda
  <2> QED
    BY <2>2, <2>3
<1> QED
  BY <1>2, <1>3 DEF PosseInv, Caminho

\* Keys of rows and of requests.
LEMMA TemChave ==
    ASSUME Base, TarefasInv
    PROVE  \A k, c, p : Tem(k, c, p) => Chave(k)
<1> SUFFICES ASSUME NEW k, NEW c, NEW p, Tem(k, c, p) PROVE Chave(k)
  OBVIOUS
<1>1. CASE k \in Linhas
  BY <1>1 DEF Base, CatalogoInv, Esquema, Chave
<1>2. CASE \E s \in Tarefa : tarefa[s].dono = k /\ c \in Colunas(k[1])
  <2>1. PICK s \in Tarefa : tarefa[s].dono = k /\ c \in Colunas(k[1])
    BY <1>2
  <2>2. TarefaValida(tarefa[s], sequencia, enviados) /\ sequencia \in Nat
    BY DEF TarefasInv, Base, CatalogoInv, Esquema
  <2>3. CASE tarefa[s] = Livre
    <3>1. k[1] = ""
      BY <2>1, <2>3, LivreDono
    <3> QED
      BY <2>1, <3>1, ColunasDasTabelas
  <2>4. CASE tarefa[s] # Livre
    <3>1. k \in ComArquivos \X (0 .. sequencia)
      BY <2>1, <2>2, <2>4 DEF TarefaValida
    <3>2. ComArquivos \subseteq Tabela /\ 0 .. sequencia \subseteq Nat
      BY <2>2 DEF ComArquivos, Tabela
    <3> QED
      BY <3>1, <3>2 DEF Chave
  <2> QED
    BY <2>3, <2>4
<1> QED
  BY <1>1, <1>2 DEF Tem

LEMMA Troca ==
    ASSUME TarefasInv, NEW s \in Tarefa, NEW q, Proximo(s, q)
    PROVE  tarefa'[s] = q /\ \A r \in Tarefa \ {s} : tarefa'[r] = tarefa[r]
  BY DEF TarefasInv, Proximo

TarefasFieis == \A s \in Tarefa : tarefa'[s] = tarefa[s] \/ Fiel(tarefa'[s], objetos', perdidas')
LinhasAchadas ==
    \A k \in Linhas' : \A c \in Colunas(k[1]) :
        \/ banco'[k].arq[c] \in objetos' \/ k \in perdidas'
        \/ k \in Linhas /\ banco'[k].arq[c] = banco[k].arq[c] /\ (MovidoPor(k, c) => MovidoPor(k, c)')

\* A step that moves no file.
LEMMA SemMoverSegue ==
    ASSUME ArquivosInv, enviados \in Nat, enviados' = enviados \/ enviados' = enviados + 1,
           objetos \subseteq objetos', perdidas \subseteq perdidas', NEW K, Herda(K),
           TarefasFieis, LinhasAchadas
    PROVE  ArquivosInv'
<1>1. PosseInv'
  BY PosseSegue DEF ArquivosInv
<1>2. FielInv'
  <2> SUFFICES ASSUME NEW s \in Tarefa PROVE Fiel(tarefa'[s], objetos', perdidas')
    BY DEF FielInv, Fiel, Organiza, Colunas, Campos, Definitivo
  <2>1. CASE tarefa'[s] = tarefa[s]
    BY <2>1 DEF ArquivosInv, FielInv, Fiel
  <2> QED
    BY <2>1 DEF TarefasFieis
<1>3. AchadaInv'
  <2> SUFFICES ASSUME NEW k \in Linhas', NEW c \in Colunas(k[1])
               PROVE  banco'[k].arq[c] \in objetos' \/ k \in perdidas' \/ MovidoPor(k, c)'
    BY DEF AchadaInv, Colunas, Campos
  <2> QED
    BY DEF LinhasAchadas, ArquivosInv, AchadaInv
<1> QED
  BY <1>1, <1>2, <1>3 DEF ArquivosInv

LEMMA ArquivosIguais ==
    ASSUME Base, SemArquivos
    PROVE  \A k \in Linhas' : \A c \in Colunas(k[1]) : k \in Linhas /\ banco'[k].arq[c] = banco[k].arq[c]
<1>0. CatalogoInv
  BY DEF Base
<1>1. ASSUME NEW t \in {"municipio", "destino", "parada", "rota", "veiculo"}, NEW d,
             LinhaCompleta(t, d), Inserir(t, d), NEW k \in Linhas', NEW c \in Colunas(k[1])
      PROVE  k \in Linhas /\ banco'[k].arq[c] = banco[k].arq[c]
  <2>1. /\ Nova(t)[1] = t /\ Linhas' = Linhas \cup {Nova(t)} /\ \A j \in Linhas : banco'[j] = banco[j]
    BY <1>0, <1>1, LinhaNova DEF Tabela
  <2>2. Colunas(t) = {}
    BY ColunasDasTabelas
  <2> QED
    BY <2>1, <2>2
<1>2. ASSUME NEW j \in De("rota"), NEW d, LinhaCompleta("rota", d), Alterar(j, d),
             NEW k \in Linhas', NEW c \in Colunas(k[1])
      PROVE  k \in Linhas /\ banco'[k].arq[c] = banco[k].arq[c]
  <2>1. j \in Linhas /\ j[1] = "rota"
    BY DEF De
  <2>2. Linhas' = Linhas /\ \A i \in Linhas \ {j} : banco'[i] = banco[i]
    BY <1>0, <1>2, <2>1, AlterarMantem DEF LinhaCompleta
  <2>3. Colunas("rota") = {}
    BY ColunasDasTabelas
  <2> QED
    BY <2>1, <2>2, <2>3
<1>3. ASSUME Exclusao, NEW k \in Linhas' PROVE k \in Linhas /\ banco'[k] = banco[k]
  BY <1>0, <1>3, ExcluirMantem DEF Exclusao
<1>4. ASSUME UNCHANGED catalogo, NEW k \in Linhas' PROVE k \in Linhas /\ banco'[k] = banco[k]
  BY <1>4 DEF catalogo, Linhas
<1> QED
  BY <1>1, <1>2, <1>3, <1>4 DEF SemArquivos

\* The other tables and requests.
LEMMA OutrosSeguem ==
    ASSUME Base, TarefasInv, ArquivosInv, SemArquivos, UNCHANGED documentos
    PROVE  ArquivosInv'
<1>1. objetos' = objetos /\ enviados' = enviados /\ tarefa' = tarefa /\ perdidas' = perdidas
  BY DEF documentos
<1>2. \A k \in Linhas' : \A c \in Colunas(k[1]) : k \in Linhas /\ banco'[k].arq[c] = banco[k].arq[c]
  BY ArquivosIguais
<1>3. Herda(<<>>)
  <2> SUFFICES ASSUME NEW k, NEW c, NEW p, Tem(k, c, p)' PROVE Tem(k, c, p) /\ Chave(k)
    BY DEF Herda
  <2>1. Tem(k, c, p)
    BY <1>1, <1>2 DEF Tem, Colunas, Campos
  <2> QED
    BY <2>1, TemChave
<1>4. TarefasFieis
  BY <1>1 DEF TarefasFieis
<1>5. LinhasAchadas
  BY <1>1, <1>2 DEF LinhasAchadas, MovidoPor, Organiza
<1>6. enviados \in Nat
  BY DEF TarefasInv
<1> QED
  BY <1>1, <1>3, <1>4, <1>5, <1>6, SemMoverSegue

Arquivada(k, d) ==
    \A c \in Colunas(k[1]) :
        /\ \/ Tem(k, c, d.arq[c]) \/ d.arq[c] = Definitivo(k, c)
           \/ enviados' = enviados + 1 /\ d.arq[c] = Espera(enviados + 1, c)
        /\ \/ d.arq[c] \in objetos' \/ k \in perdidas'
           \/ /\ d.arq[c] = banco[k].arq[c]
              /\ \A s \in Tarefa : tarefa'[s] = tarefa[s] \/ ~Organiza(tarefa[s])

\* A row is written, and the request that did it ends.
LEMMA GravaSegue ==
    ASSUME Base, TarefasInv, ArquivosInv, NEW k, NEW d, Grava(k, d), Arquivada(k, d),
           objetos \subseteq objetos', perdidas \subseteq perdidas',
           enviados' = enviados \/ enviados' = enviados + 1,
           \A s \in Tarefa : tarefa'[s] = tarefa[s] \/ (tarefa'[s] = Livre /\ tarefa[s].dono = k)
    PROVE  ArquivosInv'
<1>1. /\ k \in Linhas /\ Linhas' = Linhas
      /\ banco'[k] = d /\ \A j \in Linhas \ {k} : banco'[j] = banco[j]
  BY AlterarMantem DEF Base, Grava, LinhaCompleta
<1>2. Herda(k)
  <2> SUFFICES ASSUME NEW j, NEW c, NEW p, Tem(j, c, p)'
               PROVE  /\ Chave(j)
                      /\ \/ Tem(j, c, p) \/ p = Definitivo(j, c)
                         \/ j = k /\ enviados' = enviados + 1 /\ p = Espera(enviados + 1, c)
    BY DEF Herda
  <2>1. CASE j \in Linhas /\ j # k /\ c \in Colunas(j[1]) /\ p = banco'[j].arq[c]
    <3>1. Tem(j, c, p)
      BY <1>1, <2>1 DEF Tem
    <3> QED
      BY <3>1, TemChave
  <2>2. CASE j = k /\ c \in Colunas(k[1]) /\ p = banco'[k].arq[c]
    <3>1. Chave(k)
      BY <1>1 DEF Base, CatalogoInv, Esquema, Chave
    <3> QED
      BY <1>1, <2>2, <3>1 DEF Arquivada
  <2>3. CASE \E s \in Tarefa : tarefa'[s].dono = j /\ c \in Colunas(j[1]) /\ p = tarefa'[s].dados.arq[c]
    <3>1. PICK s \in Tarefa : tarefa'[s].dono = j /\ c \in Colunas(j[1]) /\ p = tarefa'[s].dados.arq[c]
      BY <2>3
    <3>2. tarefa'[s] # Livre
      <4> SUFFICES ASSUME tarefa'[s] = Livre PROVE FALSE
        OBVIOUS
      <4>1. j[1] = ""
        BY <3>1, LivreDono
      <4> QED
        BY <3>1, <4>1, ColunasDasTabelas
    <3>3. Tem(j, c, p)
      BY <3>1, <3>2 DEF Tem
    <3> QED
      BY <3>3, TemChave
  <2> QED
    BY <1>1, <2>1, <2>2, <2>3 DEF Tem, Colunas, Campos
<1>3. TarefasFieis
  BY LivreNaoOrganiza DEF TarefasFieis, Fiel
<1>4. LinhasAchadas
  <2> SUFFICES ASSUME NEW j \in Linhas, NEW c \in Colunas(j[1])
               PROVE  \/ banco'[j].arq[c] \in objetos' \/ j \in perdidas'
                      \/ banco'[j].arq[c] = banco[j].arq[c] /\ (MovidoPor(j, c) => MovidoPor(j, c)')
    BY <1>1 DEF LinhasAchadas
  <2>1. CASE j # k
    <3>1. ASSUME NEW s \in Tarefa, tarefa[s].dono = j PROVE tarefa'[s] = tarefa[s]
      BY <2>1, <3>1
    <3>2. MovidoPor(j, c) => MovidoPor(j, c)'
      BY <3>1 DEF MovidoPor, Organiza
    <3> QED
      BY <1>1, <2>1, <3>2
  <2>2. CASE j = k
    <3>1. ASSUME \A s \in Tarefa : tarefa'[s] = tarefa[s] \/ ~Organiza(tarefa[s])
          PROVE  MovidoPor(j, c) => MovidoPor(j, c)'
      BY <3>1 DEF MovidoPor, Organiza
    <3> QED
      BY <1>1, <2>2, <3>1 DEF Arquivada
  <2> QED
    BY <2>1, <2>2
<1>5. enviados \in Nat
  BY DEF TarefasInv
<1> QED
  BY <1>2, <1>3, <1>4, <1>5, SemMoverSegue

LEMMA CriarSegue ==
    ASSUME Base, TarefasInv, ArquivosInv, NEW s \in Tarefa, NEW t \in ComArquivos, NEW d,
           LinhaValida(t, d), Criar(s, t, d)
    PROVE  ArquivosInv'
<1>1. PICK e, q :
              /\ LinhaCompleta(t, e) /\ Inserir(t, e) /\ Proximo(s, q)
              /\ e.arq = [c \in Colunas(t) |-> Espera(enviados + 1, c)]
              /\ enviados' = enviados + 1 /\ perdidas' = perdidas /\ tarefa[s].fase = "livre"
              /\ objetos' = objetos \cup {Espera(enviados + 1, c) : c \in Colunas(t)}
              /\ q = [fase |-> "mover", dono |-> Nova(t), dados |-> e, falta |-> Campos(t), movidos |-> {}]
  BY CriarCria
<1>2. PICK n : n = Nova(t)
  OBVIOUS
<1>3. /\ Chave(n) /\ n[1] = t /\ n \notin Linhas /\ Linhas' = Linhas \cup {n}
      /\ banco'[n] = e /\ \A k \in Linhas : banco'[k] = banco[k]
  BY <1>1, <1>2, LinhaNova DEF Base, Chave, ComArquivos, Tabela
<1>4. q.fase = "mover" /\ q.dono = n /\ q.dados = e /\ q.movidos = {}
  BY <1>1, <1>2
<1>5. tarefa'[s] = q /\ \A r \in Tarefa \ {s} : tarefa'[r] = tarefa[r]
  BY <1>1, Troca
<1>6. \A c \in Colunas(t) : e.arq[c] = Espera(enviados + 1, c) /\ e.arq[c] \in objetos'
  BY <1>1
<1>7. Herda(n)
  <2> SUFFICES ASSUME NEW j, NEW c, NEW p, Tem(j, c, p)'
               PROVE  /\ Chave(j)
                      /\ \/ Tem(j, c, p)
                         \/ j = n /\ enviados' = enviados + 1 /\ p = Espera(enviados + 1, c)
    BY DEF Herda
  <2>1. CASE j \in Linhas /\ c \in Colunas(j[1]) /\ p = banco'[j].arq[c]
    <3>1. Tem(j, c, p)
      BY <1>3, <2>1 DEF Tem
    <3> QED
      BY <3>1, TemChave
  <2>2. CASE j = n /\ c \in Colunas(n[1]) /\ p = e.arq[c]
    BY <1>1, <1>3, <1>6, <2>2
  <2>3. CASE \E r \in Tarefa : tarefa'[r].dono = j /\ c \in Colunas(j[1]) /\ p = tarefa'[r].dados.arq[c]
    <3>1. PICK r \in Tarefa : tarefa'[r].dono = j /\ c \in Colunas(j[1]) /\ p = tarefa'[r].dados.arq[c]
      BY <2>3
    <3>2. CASE r = s
      BY <1>4, <1>5, <2>2, <3>1, <3>2
    <3>3. CASE r # s
      <4>1. Tem(j, c, p)
        BY <1>5, <3>1, <3>3 DEF Tem
      <4> QED
        BY <4>1, TemChave
    <3> QED
      BY <3>2, <3>3
  <2> QED
    BY <1>3, <2>1, <2>2, <2>3 DEF Tem, Colunas, Campos
<1>8. TarefasFieis
  <2>1. Fiel(q, objetos', perdidas')
    BY <1>3, <1>4, <1>6 DEF Fiel
  <2> QED
    BY <1>5, <2>1 DEF TarefasFieis
<1>9. LinhasAchadas
  <2> SUFFICES ASSUME NEW j \in Linhas \cup {n}, NEW c \in Colunas(j[1])
               PROVE  \/ banco'[j].arq[c] \in objetos'
                      \/ j \in Linhas /\ banco'[j].arq[c] = banco[j].arq[c] /\ (MovidoPor(j, c) => MovidoPor(j, c)')
    BY <1>3 DEF LinhasAchadas
  <2>1. CASE j = n
    BY <1>3, <1>6, <2>1
  <2>2. CASE j \in Linhas
    <3>1. ~Organiza(tarefa[s])
      BY <1>1 DEF Organiza
    <3>2. MovidoPor(j, c) => MovidoPor(j, c)'
      BY <1>5, <3>1 DEF MovidoPor, Organiza
    <3> QED
      BY <1>3, <2>2, <3>2
  <2> QED
    BY <2>1, <2>2
<1>10. enviados \in Nat /\ enviados' = enviados + 1 /\ objetos \subseteq objetos' /\ perdidas \subseteq perdidas'
  BY <1>1 DEF TarefasInv
<1> QED
  BY <1>7, <1>8, <1>9, <1>10, SemMoverSegue

\* A request ends, and the tables stay.
LEMMA FimSegue ==
    ASSUME Base, TarefasInv, ArquivosInv, NEW s \in Tarefa, Proximo(s, Livre),
           UNCHANGED <<catalogo, objetos, enviados>>, perdidas \subseteq perdidas',
           ~Organiza(tarefa[s]) \/ tarefa[s].dono \in perdidas'
    PROVE  ArquivosInv'
<1>1. tarefa'[s] = Livre /\ \A r \in Tarefa \ {s} : tarefa'[r] = tarefa[r]
  BY Troca
<1>2. banco' = banco /\ Linhas' = Linhas
  BY DEF catalogo, Linhas
<1>3. Herda(<<>>)
  <2> SUFFICES ASSUME NEW j, NEW c, NEW p, Tem(j, c, p)' PROVE Tem(j, c, p) /\ Chave(j)
    BY DEF Herda
  <2>1. CASE j \in Linhas /\ c \in Colunas(j[1]) /\ p = banco[j].arq[c]
    <3>1. Tem(j, c, p)
      BY <2>1 DEF Tem
    <3> QED
      BY <3>1, TemChave
  <2>2. CASE \E r \in Tarefa : tarefa'[r].dono = j /\ c \in Colunas(j[1]) /\ p = tarefa'[r].dados.arq[c]
    <3>1. PICK r \in Tarefa : tarefa'[r].dono = j /\ c \in Colunas(j[1]) /\ p = tarefa'[r].dados.arq[c]
      BY <2>2
    <3>2. r # s
      <4> SUFFICES ASSUME r = s PROVE FALSE
        OBVIOUS
      <4>1. j[1] = ""
        BY <1>1, <3>1, LivreDono
      <4> QED
        BY <3>1, <4>1, ColunasDasTabelas
    <3>3. Tem(j, c, p)
      BY <1>1, <3>1, <3>2 DEF Tem
    <3> QED
      BY <3>3, TemChave
  <2> QED
    BY <1>2, <2>1, <2>2 DEF Tem, Colunas, Campos
<1>4. TarefasFieis
  BY <1>1, LivreNaoOrganiza DEF TarefasFieis, Fiel
<1>5. LinhasAchadas
  <2> SUFFICES ASSUME NEW j \in Linhas, NEW c \in Colunas(j[1])
               PROVE  j \in perdidas' \/ (MovidoPor(j, c) => MovidoPor(j, c)')
    BY <1>2 DEF LinhasAchadas
  <2> QED
    BY <1>1 DEF MovidoPor, Organiza
<1>6. enviados \in Nat /\ enviados' = enviados /\ objetos' = objetos
  BY DEF TarefasInv
<1> QED
  BY <1>3, <1>4, <1>5, <1>6, SemMoverSegue

LEMMA AbrirSegue ==
    ASSUME Base, TarefasInv, ArquivosInv, NEW s \in Tarefa, AbrirVinculo(s)
    PROVE  ArquivosInv'
<1>1. PICK k, q :
              /\ k \in De("vinculo")
              /\ tarefa[s].fase = "livre" /\ Proximo(s, q) /\ UNCHANGED <<catalogo, objetos, enviados, perdidas>>
              /\ q = [fase |-> "formulario", dono |-> k, dados |-> banco[k], falta |-> <<>>, movidos |-> {}]
  BY AbrirAbre
<1>2. q.fase = "formulario" /\ q.dono = k /\ q.dados = banco[k] /\ q.movidos = {} /\ k \in Linhas
  BY <1>1 DEF De
<1>3. tarefa'[s] = q /\ \A r \in Tarefa \ {s} : tarefa'[r] = tarefa[r]
  BY <1>1, Troca
<1>4. banco' = banco /\ Linhas' = Linhas
  BY <1>1 DEF catalogo, Linhas
<1>5. Herda(<<>>)
  <2> SUFFICES ASSUME NEW j, NEW c, NEW p, Tem(j, c, p)' PROVE Tem(j, c, p)
    BY TemChave DEF Herda
  <2>1. CASE j \in Linhas /\ c \in Colunas(j[1]) /\ p = banco[j].arq[c]
    BY <2>1 DEF Tem
  <2>2. CASE \E r \in Tarefa : tarefa'[r].dono = j /\ c \in Colunas(j[1]) /\ p = tarefa'[r].dados.arq[c]
    <3>1. PICK r \in Tarefa : tarefa'[r].dono = j /\ c \in Colunas(j[1]) /\ p = tarefa'[r].dados.arq[c]
      BY <2>2
    <3>2. CASE r = s
      BY <1>2, <1>3, <3>1, <3>2 DEF Tem
    <3>3. CASE r # s
      BY <1>3, <3>1, <3>3 DEF Tem
    <3> QED
      BY <3>2, <3>3
  <2> QED
    BY <1>4, <2>1, <2>2 DEF Tem, Colunas, Campos
<1>6. TarefasFieis
  BY <1>2, <1>3 DEF TarefasFieis, Fiel, Organiza
<1>7. LinhasAchadas
  <2> SUFFICES ASSUME NEW j \in Linhas, NEW c \in Colunas(j[1])
               PROVE  MovidoPor(j, c) => MovidoPor(j, c)'
    BY <1>4 DEF LinhasAchadas
  <2>1. ~Organiza(tarefa[s])
    BY <1>1 DEF Organiza
  <2> QED
    BY <1>3, <2>1 DEF MovidoPor, Organiza
<1>8. enviados \in Nat /\ enviados' = enviados /\ objetos' = objetos /\ perdidas' = perdidas
  BY <1>1 DEF TarefasInv
<1> QED
  BY <1>5, <1>6, <1>7, <1>8, SemMoverSegue

LEMMA EditarSegue ==
    ASSUME Base, TarefasInv, ArquivosInv, EditarCliente \/ EditarMotorista
    PROVE  ArquivosInv'
<1>1. tarefa' = tarefa /\ perdidas' = perdidas
  BY EditarGrava
<1>2. PICK k, d :
                 /\ Grava(k, d)
                 /\ \/ d.arq = banco[k].arq /\ UNCHANGED <<objetos, enviados>>
                    \/ \E c \in Colunas(k[1]) :
                          Enviar(c) /\ d.arq = [banco[k].arq EXCEPT ![c] = Espera(enviados + 1, c)]
  BY EditarGrava
<1>3. k \in Linhas /\ DOMAIN banco[k].arq = Colunas(k[1])
  BY <1>2, LinhaGravada DEF Grava
<1>4. objetos \subseteq objetos' /\ (enviados' = enviados \/ enviados' = enviados + 1)
  BY <1>2 DEF Enviar
<1>5. Arquivada(k, d)
  <2> SUFFICES ASSUME NEW c \in Colunas(k[1])
               PROVE  \/ d.arq[c] = banco[k].arq[c]
                      \/ enviados' = enviados + 1 /\ d.arq[c] = Espera(enviados + 1, c) /\ d.arq[c] \in objetos'
    BY <1>1, <1>3 DEF Arquivada, Tem
  <2>1. CASE d.arq = banco[k].arq
    BY <2>1
  <2>2. ASSUME NEW b \in Colunas(k[1]), Enviar(b),
               d.arq = [banco[k].arq EXCEPT ![b] = Espera(enviados + 1, b)]
        PROVE  \/ d.arq[c] = banco[k].arq[c]
               \/ enviados' = enviados + 1 /\ d.arq[c] = Espera(enviados + 1, c) /\ d.arq[c] \in objetos'
    BY <1>3, <2>2 DEF Enviar
  <2> QED
    BY <1>2, <2>1, <2>2
<1> QED
  BY <1>1, <1>2, <1>4, <1>5, GravaSegue

LEMMA PersistirSegue ==
    ASSUME Base, TarefasInv, ArquivosInv, NEW s \in Tarefa, Persistir(s)
    PROVE  ArquivosInv'
<1>1. PICK t : t = tarefa[s]
  OBVIOUS
<1>2. /\ t.fase = "persistir" /\ Proximo(s, Livre) /\ objetos' = objetos /\ enviados' = enviados
      /\ \/ \E d : Grava(t.dono, d) /\ d.arq = Organizados(t) /\ perdidas' = perdidas
         \/ perdidas' = perdidas \cup {t.dono} /\ UNCHANGED catalogo
  BY <1>1, PersistirGrava
<1>3. CASE perdidas' = perdidas \cup {t.dono} /\ UNCHANGED catalogo
  BY <1>1, <1>2, <1>3, FimSegue
<1>4. ASSUME NEW d, Grava(t.dono, d), d.arq = Organizados(t), perdidas' = perdidas PROVE ArquivosInv'
  <2>1. tarefa'[s] = Livre /\ \A r \in Tarefa \ {s} : tarefa'[r] = tarefa[r]
    BY <1>2, Troca
  <2>2. DOMAIN t.dados.arq = Colunas(t.dono[1])
    BY <1>1, <1>2, LivreNaoOrganiza DEF TarefasInv, TarefaValida, LinhaCompleta
  <2>3. Fiel(t, objetos, perdidas) /\ Organiza(t)
    BY <1>1, <1>2 DEF ArquivosInv, FielInv, Organiza
  <2>4. Arquivada(t.dono, d)
    <3> SUFFICES ASSUME NEW c \in Colunas(t.dono[1])
                 PROVE  /\ Tem(t.dono, c, d.arq[c]) \/ d.arq[c] = Definitivo(t.dono, c)
                        /\ d.arq[c] \in objetos' \/ t.dono \in perdidas'
      BY DEF Arquivada
    <3>1. d.arq[c] = IF c \in t.movidos THEN Definitivo(t.dono, c) ELSE t.dados.arq[c]
      BY <1>4, <2>2 DEF Organizados
    <3>2. Tem(t.dono, c, t.dados.arq[c])
      BY <1>1 DEF Tem
    <3> QED
      BY <1>2, <1>4, <2>3, <3>1, <3>2 DEF Fiel
  <2>5. objetos \subseteq objetos' /\ perdidas \subseteq perdidas'
    BY <1>2, <1>4
  <2>6. \A r \in Tarefa : tarefa'[r] = tarefa[r] \/ (tarefa'[r] = Livre /\ tarefa[r].dono = t.dono)
    BY <1>1, <2>1
  <2> QED
    BY <1>2, <1>4, <2>4, <2>5, <2>6, GravaSegue
<1> QED
  BY <1>2, <1>3, <1>4

LEMMA SalvarSegue ==
    ASSUME Base, TarefasInv, ArquivosInv, NEW s \in Tarefa, SalvarVinculo(s)
    PROVE  ArquivosInv'
<1>1. PICK t : t = tarefa[s]
  OBVIOUS
<1>2. PICK d :
         /\ t.fase = "formulario" /\ Proximo(s, Livre)
         /\ Grava(t.dono, d)
         /\ \/ /\ Enviar("comprovante") /\ perdidas' = perdidas /\ t.dono[1] = "vinculo"
               /\ d.arq = [t.dados.arq EXCEPT !["comprovante"] = Espera(enviados + 1, "comprovante")]
            \/ /\ d.arq = t.dados.arq /\ UNCHANGED <<objetos, enviados>>
               /\ perdidas' = IF t.dados.arq = banco[t.dono].arq THEN perdidas
                                                                 ELSE perdidas \cup {t.dono}
  BY <1>1, SalvarGrava
<1>3. tarefa'[s] = Livre /\ \A r \in Tarefa \ {s} : tarefa'[r] = tarefa[r]
  BY <1>2, Troca
<1>4. DOMAIN t.dados.arq = Colunas(t.dono[1]) /\ ~Organiza(t)
  BY <1>1, <1>2, LivreNaoOrganiza DEF TarefasInv, TarefaValida, LinhaCompleta, Organiza
<1>5. /\ objetos \subseteq objetos' /\ perdidas \subseteq perdidas'
      /\ enviados' = enviados \/ enviados' = enviados + 1
  BY <1>2 DEF Enviar
<1>6. Arquivada(t.dono, d)
  <2>1. CASE /\ Enviar("comprovante") /\ t.dono[1] = "vinculo"
             /\ d.arq = [t.dados.arq EXCEPT !["comprovante"] = Espera(enviados + 1, "comprovante")]
    <3>1. \A c \in Colunas(t.dono[1]) : c = "comprovante"
      BY <2>1, ColunasDasTabelas
    <3>2. \A c \in Colunas(t.dono[1]) : d.arq[c] = Espera(enviados + 1, c)
      BY <1>4, <2>1, <3>1
    <3> QED
      BY <2>1, <3>1, <3>2 DEF Arquivada, Enviar
  <2>2. CASE /\ d.arq = t.dados.arq /\ UNCHANGED <<objetos, enviados>>
             /\ perdidas' = IF t.dados.arq = banco[t.dono].arq THEN perdidas
                                                               ELSE perdidas \cup {t.dono}
    <3>1. \A c \in Colunas(t.dono[1]) : Tem(t.dono, c, d.arq[c])
      BY <1>1, <2>2 DEF Tem
    <3>2. d.arq = banco[t.dono].arq \/ t.dono \in perdidas'
      BY <2>2
    <3>3. \A r \in Tarefa : tarefa'[r] = tarefa[r] \/ ~Organiza(tarefa[r])
      BY <1>1, <1>3, <1>4
    <3> QED
      BY <3>1, <3>2, <3>3 DEF Arquivada
  <2> QED
    BY <1>2, <2>1, <2>2
<1>7. \A r \in Tarefa : tarefa'[r] = tarefa[r] \/ (tarefa'[r] = Livre /\ tarefa[r].dono = t.dono)
  BY <1>1, <1>3
<1> QED
  BY <1>2, <1>5, <1>6, <1>7, GravaSegue

\* A file that moves takes away only the path that its row has for it, and only one
\* request moves it.
LEMMA MoverSegue ==
    ASSUME Base, TarefasInv, ArquivosInv, NEW s \in Tarefa, Mover(s)
    PROVE  ArquivosInv'
<1>1. PICK t : t = tarefa[s]
  OBVIOUS
<1>2. PICK M, q, c, de :
         /\ t.fase = "mover" /\ q = Seguinte(t, M) /\ c = Head(t.falta) /\ de = t.dados.arq[c]
         /\ Proximo(s, q) /\ UNCHANGED <<catalogo, enviados>>
         /\ LET levar == objetos' = (objetos \ {de}) \cup {Definitivo(t.dono, c)}
            IN \/ M = t.movidos \cup {c} /\ levar /\ perdidas' = perdidas
               \/ M = t.movidos /\ objetos' = objetos /\ perdidas' = perdidas
               \/ M = t.movidos /\ levar /\ perdidas' = perdidas \cup {t.dono}
  <2>1. PICK c, de : c = Head(t.falta) /\ de = t.dados.arq[c]
    OBVIOUS
  <2>2. PICK M :
         /\ t.fase = "mover" /\ Proximo(s, Seguinte(t, M)) /\ UNCHANGED <<catalogo, enviados>>
         /\ \/ /\ M = t.movidos \cup {c} /\ perdidas' = perdidas
               /\ objetos' = (objetos \ {de}) \cup {Definitivo(t.dono, c)}
            \/ M = t.movidos /\ objetos' = objetos /\ perdidas' = perdidas
            \/ /\ M = t.movidos /\ perdidas' = perdidas \cup {t.dono}
               /\ objetos' = (objetos \ {de}) \cup {Definitivo(t.dono, c)}
    BY <1>1, <2>1, MoverMove
  <2>3. PICK q : q = Seguinte(t, M)
    OBVIOUS
  <2> QED
    BY <2>1, <2>2, <2>3
<1>3. /\ TarefaValida(t, sequencia, enviados) /\ enviados \in Nat /\ enviados' = enviados
      /\ sequencia \in Nat /\ banco' = banco /\ Linhas' = Linhas
  BY <1>1, <1>2 DEF TarefasInv, Base, CatalogoInv, Esquema, catalogo, Linhas
<1>4. /\ \/ q = Livre /\ M = {}
         \/ Organiza(q) /\ q.dono = t.dono /\ q.dados = t.dados /\ q.movidos = M
  <2>1. M = t.movidos \/ M = t.movidos \cup {Head(t.falta)}
    BY <1>2
  <2> QED
    BY <1>2, <1>3, <2>1, SeguinteValida
<1>5. PICK i \in 1 .. enviados : c \in Colunas(t.dono[1]) /\ de = Espera(i, c)
  BY <1>2, <1>3, Movimento
<1>6. Tem(t.dono, c, de)
  BY <1>1, <1>2, <1>5 DEF Tem
<1>7. tarefa'[s] = q /\ \A r \in Tarefa \ {s} : tarefa'[r] = tarefa[r]
  BY <1>2, Troca
<1>8. Organiza(t) /\ Fiel(t, objetos, perdidas) /\ PosseInv
  BY <1>1, <1>2 DEF Organiza, ArquivosInv, FielInv
<1>9. ASSUME NEW k, NEW d, NEW p, Tem(k, d, p), p \in objetos, ~(k = t.dono /\ d = c)
      PROVE  p \in objetos'
  <2>1. Chave(k)
    BY <1>9, TemChave
  <2>2. p # de
    <3> SUFFICES ASSUME p = de PROVE FALSE
      OBVIOUS
    <3>1. p = Espera(i, c) /\ Tem(t.dono, c, p)
      BY <1>5, <1>6
    <3>2. k = t.dono /\ d = c
      BY <1>3, <1>8, <1>9, <2>1, <3>1, SoDoDono
    <3> QED
      BY <1>9, <3>2
  <2> QED
    BY <1>2, <1>9, <2>2
<1>10. ASSUME NEW k, Chave(k), NEW d, Definitivo(k, d) \in objetos PROVE Definitivo(k, d) \in objetos'
  <2>1. Definitivo(k, d) # de
    BY <1>5, <1>10, Caminhos
  <2> QED
    BY <1>2, <1>10, <2>1
<1>11. perdidas \subseteq perdidas' /\ t.movidos \subseteq M
  BY <1>2
<1>12. ASSUME NEW r \in Tarefa, NEW d \in Colunas(tarefa[r].dono[1])
       PROVE  Tem(tarefa[r].dono, d, tarefa[r].dados.arq[d]) /\ Chave(tarefa[r].dono)
  <2>1. Tem(tarefa[r].dono, d, tarefa[r].dados.arq[d])
    BY DEF Tem
  <2> QED
    BY <2>1, TemChave
<1>13. PosseInv'
  <2>1. Herda(<<>>)
    <3> SUFFICES ASSUME NEW j, NEW d, NEW p, Tem(j, d, p)' PROVE Tem(j, d, p)
      BY TemChave DEF Herda
    <3>1. CASE j \in Linhas /\ d \in Colunas(j[1]) /\ p = banco[j].arq[d]
      BY <3>1 DEF Tem
    <3>2. CASE \E r \in Tarefa : tarefa'[r].dono = j /\ d \in Colunas(j[1]) /\ p = tarefa'[r].dados.arq[d]
      <4>1. PICK r \in Tarefa : tarefa'[r].dono = j /\ d \in Colunas(j[1]) /\ p = tarefa'[r].dados.arq[d]
        BY <3>2
      <4>2. tarefa'[r].dono = tarefa[r].dono /\ tarefa'[r].dados = tarefa[r].dados
        <5>1. CASE r # s
          BY <1>7, <5>1
        <5>2. CASE r = s
          <6>1. q # Livre
            <7> SUFFICES ASSUME q = Livre PROVE FALSE
              OBVIOUS
            <7>1. j[1] = ""
              BY <1>7, <4>1, <5>2, LivreDono
            <7> QED
              BY <4>1, <7>1, ColunasDasTabelas
          <6> QED
            BY <1>1, <1>4, <1>7, <5>2, <6>1
        <5> QED
          BY <5>1, <5>2
      <4> QED
        BY <4>1, <4>2 DEF Tem
    <3> QED
      BY <1>3, <3>1, <3>2 DEF Tem, Colunas, Campos
  <2> QED
    BY <1>3, <1>8, <2>1, PosseSegue
<1>14. FielInv'
  <2> SUFFICES ASSUME NEW r \in Tarefa PROVE Fiel(tarefa'[r], objetos', perdidas')
    BY DEF FielInv, Fiel, Organiza, Colunas, Campos, Definitivo
  <2>1. CASE r # s
    <3> SUFFICES ASSUME Organiza(tarefa[r]), NEW d \in Colunas(tarefa[r].dono[1])
                 PROVE  IF d \in tarefa[r].movidos
                        THEN Definitivo(tarefa[r].dono, d) \in objetos'
                        ELSE tarefa[r].dados.arq[d] \in objetos' \/ tarefa[r].dono \in perdidas'
      BY <1>7, <2>1 DEF Fiel
    <3>1. tarefa[r].dono # t.dono
      BY <1>1, <1>8, <2>1 DEF TarefasInv
    <3>2. IF d \in tarefa[r].movidos
          THEN Definitivo(tarefa[r].dono, d) \in objetos
          ELSE tarefa[r].dados.arq[d] \in objetos \/ tarefa[r].dono \in perdidas
      BY DEF ArquivosInv, FielInv, Fiel
    <3>3. Tem(tarefa[r].dono, d, tarefa[r].dados.arq[d]) /\ Chave(tarefa[r].dono)
      BY <1>12
    <3> QED
      BY <1>9, <1>10, <1>11, <3>1, <3>2, <3>3
  <2>2. CASE r = s
    <3> SUFFICES ASSUME Organiza(q), NEW d \in Colunas(t.dono[1])
                 PROVE  IF d \in M
                        THEN Definitivo(t.dono, d) \in objetos'
                        ELSE t.dados.arq[d] \in objetos' \/ t.dono \in perdidas'
      BY <1>4, <1>7, <2>2, LivreNaoOrganiza DEF Fiel
    <3>1. IF d \in t.movidos
          THEN Definitivo(t.dono, d) \in objetos
          ELSE t.dados.arq[d] \in objetos \/ t.dono \in perdidas
      BY <1>8 DEF Fiel
    <3>2. Tem(t.dono, d, t.dados.arq[d]) /\ Chave(t.dono)
      BY <1>1, <1>12
    <3>3. CASE d = c
      BY <1>2, <1>10, <1>11, <3>1, <3>2, <3>3
    <3>4. CASE d # c
      BY <1>2, <1>9, <1>10, <1>11, <3>1, <3>2, <3>4
    <3> QED
      BY <3>3, <3>4
  <2> QED
    BY <2>1, <2>2
<1>15. AchadaInv'
  <2> SUFFICES ASSUME NEW k \in Linhas, NEW d \in Colunas(k[1])
               PROVE  banco[k].arq[d] \in objetos' \/ k \in perdidas' \/ MovidoPor(k, d)'
    BY <1>3 DEF AchadaInv, Colunas, Campos
  <2>1. banco[k].arq[d] \in objetos \/ k \in perdidas \/ MovidoPor(k, d)
    BY DEF ArquivosInv, AchadaInv
  <2>2. ASSUME d \in M, k = t.dono PROVE MovidoPor(k, d)'
    <3>1. Organiza(q) /\ q.dono = t.dono /\ q.movidos = M
      BY <1>4, <2>2
    <3> QED
      BY <1>7, <2>2, <3>1 DEF MovidoPor, Organiza
  <2>3. CASE banco[k].arq[d] \in objetos
    <3>1. Tem(k, d, banco[k].arq[d])
      BY DEF Tem
    <3>2. CASE k = t.dono /\ d = c
      BY <1>2, <2>2, <2>3, <3>2
    <3> QED
      BY <1>9, <2>3, <3>1, <3>2
  <2>4. CASE MovidoPor(k, d)
    <3>1. PICK r \in Tarefa : Organiza(tarefa[r]) /\ tarefa[r].dono = k /\ d \in tarefa[r].movidos
      BY <2>4 DEF MovidoPor
    <3>2. CASE r = s
      BY <1>1, <1>11, <2>2, <3>1, <3>2
    <3>3. CASE r # s
      BY <1>7, <3>1, <3>3 DEF MovidoPor, Organiza
    <3> QED
      BY <3>2, <3>3
  <2> QED
    BY <1>11, <2>1, <2>3, <2>4
<1> QED
  BY <1>13, <1>14, <1>15 DEF ArquivosInv

LEMMA DocumentosSeguem ==
    ASSUME Base, TarefasInv, ArquivosInv, DeDocumentos
    PROVE  ArquivosInv'
<1>1. CASE EditarCliente \/ EditarMotorista
  BY <1>1, EditarSegue
<1>2. ASSUME NEW s \in Tarefa, CriarCliente(s) \/ CriarMotorista(s) \/ CriarVinculo(s)
      PROVE  ArquivosInv'
  BY <1>2, CriacoesCriam, CriarSegue DEF Cria
<1>3. ASSUME NEW s \in Tarefa, AbrirVinculo(s) PROVE ArquivosInv'
  BY <1>3, AbrirSegue
<1>4. ASSUME NEW s \in Tarefa, Mover(s) PROVE ArquivosInv'
  BY <1>4, MoverSegue
<1>5. ASSUME NEW s \in Tarefa, Persistir(s) PROVE ArquivosInv'
  BY <1>5, PersistirSegue
<1>6. ASSUME NEW s \in Tarefa, SalvarVinculo(s) PROVE ArquivosInv'
  BY <1>6, SalvarSegue
<1>7. ASSUME NEW s \in Tarefa, FecharVinculo(s) PROVE ArquivosInv'
  <2>1. /\ Proximo(s, Livre) /\ UNCHANGED <<catalogo, objetos, enviados>> /\ perdidas \subseteq perdidas'
        /\ ~Organiza(tarefa[s])
    BY <1>7 DEF FecharVinculo, Organiza
  <2> QED
    BY <2>1, FimSegue
<1> QED
  BY <1>1, <1>2, <1>3, <1>4, <1>5, <1>6, <1>7 DEF DeDocumentos

LEMMA ArquivosSeguem ==
    ASSUME Tipo, ArquivosInv, [Next]_vars
    PROVE  ArquivosInv'
<1>1. Base /\ TarefasInv /\ RetencaoTypeOK /\ hoje \in Int /\ CatalogoInv
  BY DEF Tipo, Base
<1>2. CASE DoCatalogo
  BY <1>1, <1>2, CatalogoInstrui, OutrosSeguem DEF DoCatalogo
<1>3. CASE DeDocumentos
  BY <1>1, <1>3, DocumentosSeguem
<1>4. CASE DeRetencao
  BY <1>1, <1>4, RetencaoMantem, OutrosSeguem
<1>5. CASE DeListagem \/ UNCHANGED vars
  <2>1. UNCHANGED <<catalogo, documentos>>
    BY <1>5 DEF DeListagem, AbrirLista, LerPagina, vars
  <2> QED
    BY <1>1, <2>1, OutrosSeguem DEF SemArquivos
<1> QED
  BY <1>2, <1>3, <1>4, <1>5 DEF Next

LEMMA ArquivosIniciam ==
    ASSUME Init
    PROVE  ArquivosInv
<1>1. /\ banco \in Anteriores /\ enviados = 0 /\ \A s \in Tarefa : tarefa[s] = Livre
      /\ objetos = UNION {{banco[k].arq[c] : c \in DOMAIN banco[k].arq} : k \in Linhas}
  BY DEF Init, CatalogoInit, DocumentosInit
<1>2. \A k \in Linhas : /\ DOMAIN banco[k].arq = Colunas(k[1])
                        /\ \A c \in Colunas(k[1]) : banco[k].arq[c] \in {Definitivo(k, c), Espera(-k[2], c)}
  BY <1>1, DocumentosAssumption DEF Linhas
<1>3. PosseInv
  <2>1. ASSUME NEW k, NEW c, NEW p, Tem(k, c, p) PROVE Caminho(k, c, p, enviados)
    <3>1. CASE \E s \in Tarefa : tarefa[s].dono = k /\ c \in Colunas(k[1])
      <4>1. k[1] = "" /\ c \in Colunas(k[1])
        BY <1>1, <3>1, LivreDono
      <4> QED
        BY <4>1, ColunasDasTabelas
    <3>2. CASE k \in Linhas /\ c \in Colunas(k[1]) /\ p = banco[k].arq[c]
      BY <1>2, <3>2 DEF Caminho
    <3> QED
      BY <2>1, <3>1, <3>2 DEF Tem
  <2>2. 1 .. enviados = {}
    BY <1>1
  <2> QED
    BY <2>1, <2>2 DEF PosseInv
<1>4. FielInv
  BY <1>1, LivreNaoOrganiza DEF FielInv, Fiel
<1>5. AchadaInv
  BY <1>1, <1>2 DEF AchadaInv
<1> QED
  BY <1>3, <1>4, <1>5 DEF ArquivosInv

\* Whatever requests create, edit, organise, save and remove at the same time, and
\* whichever answers are lost, a path that a row has leads to a file but for the rows
\* being organised and the ways of losing it that are known.
THEOREM NenhumArquivoPerdido == Spec => []ArquivoAchado
<1>1. Init => Tipo /\ ArquivosInv
  BY Inicia, ArquivosIniciam
<1>2. Tipo /\ ArquivosInv /\ [Next]_vars => (Tipo /\ ArquivosInv)'
  BY PassoInstrui, ArquivosSeguem
<1>3. Tipo /\ ArquivosInv => ArquivoAchado
  <2> SUFFICES ASSUME Tipo, ArquivosInv, NEW k \in Linhas, NEW c \in DOMAIN banco[k].arq
               PROVE  banco[k].arq[c] \in objetos \/ k \in perdidas \/ EmOrganizacao(k)
    BY DEF ArquivoAchado
  <2>1. c \in Colunas(k[1])
    BY DEF Tipo, Base
  <2> QED
    BY <2>1 DEF ArquivosInv, AchadaInv, MovidoPor, EmOrganizacao
<1> QED
  BY <1>1, <1>2, <1>3, PTL DEF Spec

-----------------------------------------------------------------------------
(* The clean-up *)

Operada == {"reserva", "ciclo", "alocada", "execucao"}

\* A reserva aboard is not of before the trip.
DatasInv ==
    \A a \in De("alocada") : \A r \in banco[a].ref : r[1] = "reserva" =>
        \E c \in banco[a].ref : c[1] = "ciclo" /\ banco[c].data <= banco[r].data

NadaAntigo(t, corte) == \A k \in De(t) : ~(banco[k].data < corte)

\* What the statements before have left, if none was full.
LimpezaInv ==
    /\ DatasInv
    /\ limpeza.passo \in {2, 3} /\ ~limpeza.saturado => NadaAntigo("ciclo", limpeza.corte)
    /\ limpeza.passo = 3 /\ ~limpeza.saturado => NadaAntigo("reserva", limpeza.corte)
    /\ limpeza.resumo = "completo" =>
          \A t \in {"ciclo", "reserva", "execucao"} : NadaAntigo(t, limpeza.corte)

\* The rows of trips only go.
LEMMA OperacaoSegue ==
    ASSUME Base, Instrucao, NEW k \in Linhas', k[1] \in Operada
    PROVE  k \in Linhas /\ banco'[k] = banco[k]
<1>0. CatalogoInv
  BY DEF Base
<1>1. ASSUME NEW t \in Tabela \ {"reserva", "ciclo", "alocada", "execucao"}, NEW d,
             LinhaCompleta(t, d), Inserir(t, d)
      PROVE  k \in Linhas /\ banco'[k] = banco[k]
  <2>1. /\ Nova(t)[1] = t /\ Linhas' = Linhas \cup {Nova(t)} /\ \A j \in Linhas : banco'[j] = banco[j]
    BY <1>0, <1>1, LinhaNova
  <2> QED
    BY <1>1, <2>1 DEF Operada
<1>2. ASSUME NEW j \in Linhas, j[1] \in {"rota", "cliente", "motorista", "vinculo"}, NEW d,
             LinhaCompleta(j[1], d), Alterar(j, d)
      PROVE  k \in Linhas /\ banco'[k] = banco[k]
  <2>1. Linhas' = Linhas /\ \A i \in Linhas \ {j} : banco'[i] = banco[i]
    BY <1>0, <1>2, AlterarMantem DEF LinhaCompleta
  <2> QED
    BY <1>2, <2>1 DEF Operada
<1>3. CASE Exclusao
  BY <1>0, <1>3, ExcluirMantem DEF Exclusao
<1>4. CASE UNCHANGED catalogo
  BY <1>4 DEF catalogo, Linhas
<1> QED
  BY <1>1, <1>2, <1>3, <1>4 DEF Instrucao, Insercao, Alteracao

LEMMA DatasSeguem ==
    ASSUME Base, Instrucao, DatasInv
    PROVE  DatasInv'
<1> SUFFICES ASSUME NEW a \in Linhas', a[1] = "alocada", NEW r \in banco'[a].ref, r[1] = "reserva"
             PROVE  \E c \in banco'[a].ref : c[1] = "ciclo" /\ banco'[c].data <= banco'[r].data
  BY DEF DatasInv, De
<1>1. \A k \in Linhas' : banco'[k].ref \subseteq Linhas'
  BY BaseSegue DEF Base, CatalogoInv, CatalogoTypeOK
<1>2. a \in Linhas /\ banco'[a] = banco[a]
  BY OperacaoSegue DEF Operada
<1>3. r \in Linhas /\ banco'[r] = banco[r]
  BY <1>1, OperacaoSegue DEF Operada
<1>4. PICK c \in banco[a].ref : c[1] = "ciclo" /\ banco[c].data <= banco[r].data
  BY <1>2 DEF DatasInv, De
<1>5. banco'[c] = banco[c]
  BY <1>1, <1>2, <1>4, OperacaoSegue DEF Operada
<1> QED
  BY <1>2, <1>3, <1>4, <1>5

LEMMA NadaAntigoSegue ==
    ASSUME Base, Instrucao, NEW t \in Operada, NEW c, NadaAntigo(t, c)
    PROVE  NadaAntigo(t, c)'
<1> SUFFICES ASSUME NEW k \in Linhas', k[1] = t PROVE ~(banco'[k].data < c)
  BY DEF NadaAntigo, De
<1>1. k \in Linhas /\ banco'[k] = banco[k]
  BY OperacaoSegue
<1> QED
  BY <1>1 DEF NadaAntigo, De

\* A statement that was not full left none of its rows.
LEMMA LoteInteiro ==
    ASSUME NEW K, IsFiniteSet(K), NEW L \in Lotes(K), ~(Cardinality(L) >= Lote)
    PROVE  L = K
<1>1. L \subseteq K /\ Cardinality(L) = IF Cardinality(K) < Lote THEN Cardinality(K) ELSE Lote
  BY DEF Lotes
<1>2. Lote \in Nat /\ Cardinality(L) \in Nat /\ Cardinality(K) \in Nat
  BY <1>1, FS_Subset, FS_CardinalityType, RetencaoAssumption
<1>3. Cardinality(L) = Cardinality(K)
  BY <1>1, <1>2
<1> QED
  BY <1>1, <1>3, FS_Subset

LEMMA LoteRemove ==
    ASSUME Base, NEW K, K \subseteq Linhas, NEW L \in Lotes(K), ~(Cardinality(L) >= Lote), Excluir(L)
    PROVE  \A k \in Linhas' : k \in Linhas /\ k \notin K /\ banco'[k] = banco[k]
<1>1. IsFiniteSet(K)
  BY FS_Subset DEF Base, CatalogoInv, Esquema
<1>2. L = K
  BY <1>1, LoteInteiro
<1>3. Linhas' = Linhas \ Fecho(K) /\ K \subseteq Fecho(K) /\ \A k \in Linhas' : banco'[k] = banco[k]
  BY <1>2, ExcluirMantem DEF Base
<1> QED
  BY <1>3

\* With no old trip left, no trip holds an old reserva.
LEMMA AntigaSolta ==
    ASSUME Base, DatasInv, NEW c \in Int, NadaAntigo("ciclo", c), NEW k \in De("reserva"), banco[k].data < c
    PROVE  Solta(k)
<1> SUFFICES ASSUME NEW a \in De("alocada"), k \in banco[a].ref PROVE FALSE
  BY DEF Solta
<1>1. a \in Linhas /\ banco[a].ref \subseteq Linhas /\ k[1] = "reserva" /\ k \in Linhas
  BY DEF Base, CatalogoInv, CatalogoTypeOK, De
<1>2. PICK x \in banco[a].ref : x[1] = "ciclo" /\ banco[x].data <= banco[k].data
  BY <1>1 DEF DatasInv
<1>3. x \in De("ciclo")
  BY <1>1, <1>2 DEF De
<1>4. banco[x].data \in Int /\ banco[k].data \in Int
  BY <1>1, <1>3 DEF Base, CatalogoInv, Esquema, LinhaValida, De
<1>5. ~(banco[x].data < c)
  BY <1>3 DEF NadaAntigo
<1> QED
  BY <1>2, <1>4, <1>5

LEMMA RemoverSegue ==
    ASSUME Tipo, Instrucao, LimpezaInv, Remover
    PROVE  LimpezaInv'
<1>1. Base /\ RetencaoTypeOK /\ DatasInv
  BY DEF Tipo, LimpezaInv
<1>2. PICK p, c, z : p = limpeza.passo /\ c = limpeza.corte /\ z = limpeza.saturado
  OBVIOUS
<1>3. p \in 1 .. 3 /\ c \in Int /\ z \in BOOLEAN
  BY <1>1, <1>2 DEF RetencaoTypeOK, Remover
<1>4. PICK L, s, r :
         /\ L \in Lotes(Antigas(Ordem[p], c)) /\ Excluir(L) /\ s = (z \/ Cardinality(L) >= Lote)
         /\ r = IF p # 3 THEN "nenhum" ELSE IF s THEN "saturado" ELSE "completo"
         /\ limpeza' = [limpeza EXCEPT !.saturado = s, !.passo = (@ + 1) % 4, !.resumo = r]
  <2>1. PICK L, s :
         /\ L \in Lotes(Antigas(Ordem[p], c)) /\ Excluir(L) /\ s = (z \/ Cardinality(L) >= Lote)
         /\ limpeza' = [limpeza EXCEPT
               !.saturado = s, !.passo = (@ + 1) % 4,
               !.resumo = IF p # 3 THEN "nenhum" ELSE IF s THEN "saturado" ELSE "completo"]
    BY <1>2 DEF Remover
  <2>2. PICK r : r = IF p # 3 THEN "nenhum" ELSE IF s THEN "saturado" ELSE "completo"
    OBVIOUS
  <2> QED
    BY <2>1, <2>2
<1>5. limpeza'.passo = (p + 1) % 4 /\ limpeza'.corte = c /\ limpeza'.saturado = s /\ limpeza'.resumo = r
  BY <1>1, <1>2, <1>4 DEF RetencaoTypeOK
<1>13. (1 + 1) % 4 = 2 /\ (2 + 1) % 4 = 3 /\ (3 + 1) % 4 = 0
  OBVIOUS
<1>14. p # 3 => r = "nenhum"
  BY <1>4
<1>6. DatasInv'
  BY <1>1, DatasSeguem
<1>7. ASSUME ~s PROVE ~z /\ ~(Cardinality(L) >= Lote)
  BY <1>4, <1>7
<1>8. Ordem[1] = "ciclo" /\ Ordem[2] = "reserva" /\ Ordem[3] = "execucao"
  BY DEF Ordem
<1>9. ASSUME NEW t \in Operada, NadaAntigo(t, c) PROVE NadaAntigo(t, c)'
  BY <1>1, <1>9, NadaAntigoSegue
<1>10. CASE p = 1
  <2>1. limpeza'.passo = 2 /\ limpeza'.resumo = "nenhum"
    BY <1>5, <1>10, <1>13, <1>14
  <2>2. ASSUME ~s PROVE NadaAntigo("ciclo", c)'
    <3>1. L \in Lotes(CiclosAntigos(c)) /\ CiclosAntigos(c) \subseteq Linhas
      BY <1>4, <1>8, <1>10 DEF Antigas, CiclosAntigos, De
    <3>2. \A k \in Linhas' : k \in Linhas /\ k \notin CiclosAntigos(c) /\ banco'[k] = banco[k]
      BY <1>1, <1>4, <1>7, <2>2, <3>1, LoteRemove
    <3> QED
      BY <3>2 DEF NadaAntigo, De, CiclosAntigos, Antiga
  <2> QED
    BY <1>5, <1>6, <2>1, <2>2 DEF LimpezaInv, NadaAntigo, De
<1>11. CASE p = 2
  <2>1. limpeza'.passo = 3 /\ limpeza'.resumo = "nenhum"
    BY <1>5, <1>11, <1>13, <1>14
  <2>2. ASSUME ~s PROVE NadaAntigo("ciclo", c)' /\ NadaAntigo("reserva", c)'
    <3>1. L \in Lotes(ReservasAntigas(c)) /\ ReservasAntigas(c) \subseteq Linhas
      BY <1>4, <1>8, <1>11 DEF Antigas, ReservasAntigas, De
    <3>2. \A k \in Linhas' : k \in Linhas /\ k \notin ReservasAntigas(c) /\ banco'[k] = banco[k]
      BY <1>1, <1>4, <1>7, <2>2, <3>1, LoteRemove
    <3>3. NadaAntigo("ciclo", c)
      BY <1>2, <1>7, <1>11, <2>2 DEF LimpezaInv
    <3>4. ASSUME NEW k \in De("reserva"), banco[k].data < c PROVE k \in ReservasAntigas(c)
      BY <1>1, <1>3, <3>3, <3>4, AntigaSolta DEF ReservasAntigas, Antiga, De
    <3>5. NadaAntigo("reserva", c)'
      BY <3>2, <3>4 DEF NadaAntigo, De
    <3> QED
      BY <1>9, <3>3, <3>5 DEF Operada
  <2> QED
    BY <1>5, <1>6, <2>1, <2>2 DEF LimpezaInv, NadaAntigo, De
<1>12. CASE p = 3
  <2>1. limpeza'.passo = 0
    BY <1>5, <1>12, <1>13
  <2>2. ASSUME ~s PROVE \A t \in {"ciclo", "reserva", "execucao"} : NadaAntigo(t, c)'
    <3>1. L \in Lotes(ExecucoesAntigas(c)) /\ ExecucoesAntigas(c) \subseteq Linhas
      BY <1>4, <1>8, <1>12 DEF Antigas, ExecucoesAntigas, De
    <3>2. \A k \in Linhas' : k \in Linhas /\ k \notin ExecucoesAntigas(c) /\ banco'[k] = banco[k]
      BY <1>1, <1>4, <1>7, <2>2, <3>1, LoteRemove
    <3>3. NadaAntigo("ciclo", c) /\ NadaAntigo("reserva", c)
      BY <1>2, <1>7, <1>12, <2>2 DEF LimpezaInv
    <3>4. NadaAntigo("execucao", c)'
      BY <3>2 DEF NadaAntigo, De, ExecucoesAntigas, Antiga
    <3> QED
      BY <1>9, <3>3, <3>4 DEF Operada
  <2>3. s => r = "saturado"
    BY <1>4, <1>12
  <2> QED
    BY <1>5, <1>6, <2>1, <2>2, <2>3 DEF LimpezaInv, NadaAntigo, De
<1> QED
  BY <1>3, <1>10, <1>11, <1>12

LEMMA LimpezaSegue ==
    ASSUME Tipo, LimpezaInv, [Next]_vars
    PROVE  LimpezaInv'
<1>1. Base /\ RetencaoTypeOK /\ DatasInv /\ Instrucao
  BY PassoInstrui DEF Tipo, LimpezaInv
<1>2. DatasInv'
  BY <1>1, DatasSeguem
<1>3. CASE limpeza' = limpeza
  <2>1. PICK c : c = limpeza.corte /\ c = limpeza'.corte
    BY <1>3
  <2>2. ASSUME NEW t \in Operada, NadaAntigo(t, c) PROVE NadaAntigo(t, c)'
    BY <1>1, <2>2, NadaAntigoSegue
  <2>3. /\ limpeza'.passo \in {2, 3} /\ ~limpeza'.saturado => NadaAntigo("ciclo", c)'
        /\ limpeza'.passo = 3 /\ ~limpeza'.saturado => NadaAntigo("reserva", c)'
        /\ limpeza'.resumo = "completo" =>
              \A t \in {"ciclo", "reserva", "execucao"} : NadaAntigo(t, c)'
    BY <1>3, <2>1, <2>2 DEF LimpezaInv, Operada
  <2> QED
    BY <1>2, <2>1, <2>3 DEF LimpezaInv, NadaAntigo, De
<1>4. SemLimpeza.passo = 0 /\ SemLimpeza.resumo = "nenhum"
      /\ SemLimpeza \in [passo : 0..3, corte : Int, saturado : BOOLEAN,
                         resumo : {"nenhum", "erro", "saturado", "completo"}]
  BY DEF SemLimpeza
<1>5. CASE Limpar
  <2>1. PICK c : limpeza' = [SemLimpeza EXCEPT !.passo = 1, !.corte = c]
    BY <1>5 DEF Limpar
  <2>2. limpeza'.passo = 1 /\ limpeza'.resumo = "nenhum"
    BY <1>4, <2>1
  <2> QED
    BY <1>2, <2>2 DEF LimpezaInv
<1>6. CASE FalharLimpeza
  <2>1. limpeza'.passo = 0 /\ limpeza'.resumo = "erro"
    BY <1>4, <1>6 DEF FalharLimpeza
  <2> QED
    BY <1>2, <2>1 DEF LimpezaInv
<1>7. CASE Remover
  BY <1>1, <1>7, RemoverSegue
<1>8. \/ limpeza' = limpeza \/ Limpar \/ FalharLimpeza \/ Remover
  BY DEF Next, DoCatalogo, DeDocumentos, DeRetencao, DeListagem, Amanhecer, retencao, vars
<1> QED
  BY <1>3, <1>5, <1>6, <1>7, <1>8

LEMMA LimpezaInicia ==
    ASSUME Init
    PROVE  LimpezaInv
<1>1. banco \in Anteriores /\ limpeza.passo = 0 /\ limpeza.resumo = "nenhum"
  BY DEF Init, CatalogoInit, RetencaoInit, SemLimpeza
<1>2. DatasInv
  BY <1>1, DatasAssumption DEF DatasInv, De, Linhas
<1> QED
  BY <1>1, <1>2 DEF LimpezaInv

\* No foreign key holds back what a statement chose.
LEMMA NadaRestringe ==
    ASSUME Base, NEW p \in 1 .. 3, NEW c, NEW L \in Lotes(Antigas(Ordem[p], c))
    PROVE  Removivel(L)
<1>1. Ordem[1] = "ciclo" /\ Ordem[2] = "reserva" /\ Ordem[3] = "execucao"
  BY DEF Ordem
<1>2. ASSUME NEW k \in Linhas, NEW r \in banco[k].ref PROVE <<k[1], r[1]>> \in Estrangeira
  BY DEF Base, CatalogoInv, Esquema, LinhaValida
<1>3. CASE p = 1
  <2>1. L \subseteq De("ciclo")
    BY <1>1, <1>3 DEF Lotes, Antigas, CiclosAntigos
  <2>2. ASSUME NEW r \in Fecho(L) PROVE r[1] \in {"ciclo", "alocada"}
    <3>1. CASE r \in L
      BY <2>1, <3>1 DEF De
    <3>2. CASE r \notin L
      <4>1. r \in Linhas /\ \E q \in banco[r].ref \cap L : <<r[1], q[1]>> \in Cascata
        BY <2>2, <3>2 DEF Fecho
      <4>2. PICK q \in L : <<r[1], q[1]>> \in Cascata
        BY <4>1
      <4> QED
        BY <2>1, <4>2 DEF Cascata, De
    <3> QED
      BY <3>1, <3>2
  <2> SUFFICES ASSUME NEW k \in Linhas, NEW r \in banco[k].ref \cap Fecho(L)
               PROVE  <<k[1], r[1]>> \in Cascata
    BY DEF Removivel
  <2> QED
    BY <1>2, <2>2 DEF Estrangeira, Cascata
<1>4. CASE p \in {2, 3}
  <2>1. \A l \in L : l[1] \in {"reserva", "execucao"} /\ (l[1] = "reserva" => Solta(l))
    BY <1>1, <1>4 DEF Lotes, Antigas, ReservasAntigas, ExecucoesAntigas, De
  <2>2. Fecho(L) = L
    BY <2>1 DEF Fecho, Cascata
  <2> SUFFICES ASSUME NEW k \in Linhas, NEW r \in banco[k].ref \cap L PROVE FALSE
    BY <2>2 DEF Removivel
  <2>3. r[1] = "reserva" /\ k[1] = "alocada"
    BY <1>2, <2>1 DEF Estrangeira
  <2> QED
    BY <2>1, <2>3 DEF Solta, De
<1> QED
  BY <1>3, <1>4

\* A clean-up that says that it was complete has left no row of before the cut, and no
\* foreign key refuses any of its statements, whatever happens between them.
THEOREM LimpezaSempreCompleta == Spec => []LimpezaCompleta
<1>1. Init => Tipo /\ LimpezaInv
  BY Inicia, LimpezaInicia
<1>2. Tipo /\ LimpezaInv /\ [Next]_vars => (Tipo /\ LimpezaInv)'
  BY PassoInstrui, LimpezaSegue
<1>3. Tipo /\ LimpezaInv => LimpezaCompleta
  <2> SUFFICES ASSUME Tipo, LimpezaInv PROVE LimpezaCompleta
    OBVIOUS
  <2>1. limpeza.resumo = "completo" => ~\E k \in Linhas : Antiga(k, limpeza.corte)
    BY DEF LimpezaInv, NadaAntigo, Antiga, De
  <2>2. limpeza.passo # 0 => limpeza.passo \in 1 .. 3
    BY DEF Tipo, RetencaoTypeOK
  <2>3. limpeza.passo # 0 =>
          \A L \in Lotes(Antigas(Ordem[limpeza.passo], limpeza.corte)) : Removivel(L)
    BY <2>2, NadaRestringe DEF Tipo
  <2> QED
    BY <2>1, <2>3 DEF LimpezaCompleta
<1> QED
  BY <1>1, <1>2, <1>3, PTL DEF Spec

-----------------------------------------------------------------------------
(* Listings *)

\* A[x] are the elements of S before x.
OrdemEstrita(S, A) ==
    /\ A \in [S -> SUBSET S]
    /\ \A x \in S : x \notin A[x]
    /\ \A x, y \in S : x = y \/ x \in A[y] \/ y \in A[x]
    /\ \A x, y \in S : x \in A[y] => A[x] \subseteq A[y]

\* The numbers of elements before them tell the elements apart, and are all
\* those from 0 on.
LEMMA Postos ==
    ASSUME NEW S, IsFiniteSet(S), NEW A, OrdemEstrita(S, A)
    PROVE  /\ Cardinality(S) \in Nat
           /\ \A x \in S : Cardinality(A[x]) \in 0 .. Cardinality(S) - 1
           /\ \A x, y \in S : x \in A[y] => Cardinality(A[x]) < Cardinality(A[y])
           /\ \A x, y \in S : Cardinality(A[x]) = Cardinality(A[y]) => x = y
           /\ \A i \in 0 .. Cardinality(S) - 1 : \E x \in S : Cardinality(A[x]) = i
<1> DEFINE n == Cardinality(S)
<1>1. n \in Nat
  BY FS_CardinalityType
<1>2. ASSUME NEW x \in S
      PROVE  IsFiniteSet(A[x]) /\ Cardinality(A[x]) \in 0 .. n - 1
  <2>1. A[x] \in SUBSET S /\ A[x] # S
    BY DEF OrdemEstrita
  <2>2. IsFiniteSet(A[x]) /\ Cardinality(A[x]) <= n /\ n # Cardinality(A[x])
    BY <2>1, FS_Subset
  <2>3. Cardinality(A[x]) \in Nat
    BY <2>2, FS_CardinalityType
  <2> QED
    BY <1>1, <2>2, <2>3
<1>3. ASSUME NEW x \in S, NEW y \in S, x \in A[y]
      PROVE  Cardinality(A[x]) < Cardinality(A[y])
  <2>1. A[x] \in SUBSET A[y] /\ A[y] # A[x]
    BY <1>3 DEF OrdemEstrita
  <2>2. Cardinality(A[x]) <= Cardinality(A[y]) /\ Cardinality(A[y]) # Cardinality(A[x])
    BY <2>1, <1>2, FS_Subset
  <2>3. Cardinality(A[x]) \in Int /\ Cardinality(A[y]) \in Int
    BY <1>2
  <2> QED
    BY <2>2, <2>3
<1>4. ASSUME NEW x \in S, NEW y \in S, Cardinality(A[x]) = Cardinality(A[y])
      PROVE  x = y
  <2>1. Cardinality(A[x]) \in Int /\ Cardinality(A[y]) \in Int
    BY <1>2
  <2>2. x \notin A[y] /\ y \notin A[x]
    BY <1>3, <1>4, <2>1
  <2> QED
    BY <2>2 DEF OrdemEstrita
<1>5. ASSUME NEW i \in 0 .. n - 1
      PROVE  \E x \in S : Cardinality(A[x]) = i
  <2> DEFINE f == [x \in S |-> Cardinality(A[x])]
             T == 0 .. n - 1
  <2>1. f \in Injection(S, T)
    <3>1. f \in [S -> T]
      BY <1>2
    <3>2. \A x, y \in S : f[x] = f[y] => x = y
      BY <1>4
    <3> QED
      BY <3>1, <3>2 DEF Injection, IsInjective
  <2>2. IsFiniteSet(T) /\ Cardinality(T) = n
    BY <1>1, FS_Interval
  <2>3. f \in Surjection(S, T)
    BY <2>1, <2>2, FS_Injection
  <2> QED
    BY <2>3 DEF Surjection
<1> QED
  BY <1>1, <1>2, <1>3, <1>4, <1>5

LEMMA Posicoes ==
    ASSUME Base, NEW t \in Listas, NEW k \in De(t)
    PROVE  /\ Posicao(k) \in Int \X Int
           /\ \A j \in De(t) : Posicao(j) = Posicao(k) => j = k
<1>1. /\ \A j \in De(t) : j \in Linhas /\ j \in Tabela \X Nat /\ j[1] = t
      /\ LinhaValida(k[1], banco[k]) /\ banco[k].ref \subseteq Linhas
      /\ \A j \in Linhas : LinhaValida(j[1], banco[j])
  BY DEF Base, CatalogoInv, CatalogoTypeOK, Esquema, De
<1>2. \A j \in De(t) : j = <<t, j[2]>> /\ j[2] \in Nat /\ -j[2] \in Int /\ j[2] \in Int
  BY <1>1
<1>3. \A i, j \in De(t) : i[2] = j[2] \/ -i[2] = -j[2] => i = j
  <2>1. \A x, y \in Nat : -x = -y => x = y
    OBVIOUS
  <2> QED
    BY <1>2, <2>1
<1>4. \A x, y : <<x, y>>[2] = y
  OBVIOUS
<1>5. ASSUME NEW j \in Linhas PROVE banco[j].data \in Int /\ -banco[j].data \in Int /\ banco[j].nome \in Int
  <2>1. banco[j].data \in Int /\ banco[j].nome \in Int
    BY <1>1 DEF LinhaValida
  <2> QED
    BY <2>1
<1>6. CASE t = "cliente"
  <2>1. \A j \in De(t) : Posicao(j) = <<0, -j[2]>>
    BY <1>1, <1>6 DEF Posicao, PosicaoDoCliente
  <2> QED
    BY <1>2, <1>3, <1>4, <2>1
<1>7. CASE t = "vinculo"
  <2>1. \A j \in De(t) : Posicao(j) = PosicaoDoVinculo(j)
    BY <1>1, <1>7 DEF Posicao
  <2>2. \A j \in De(t) : PosicaoDoVinculo(j)[2] = j[2]
    BY <1>4 DEF PosicaoDoVinculo
  <2>3. PosicaoDoVinculo(k) \in Int \X Int
    <3>1. PICK r : r = CHOOSE x \in banco[k].ref : x[1] = "cliente"
      OBVIOUS
    <3>2. \E x \in banco[k].ref : x[1] = "cliente"
      BY <1>1, <1>7 DEF LinhaValida
    <3>3. r \in Linhas
      BY <1>1, <3>1, <3>2
    <3>4. PosicaoDoVinculo(k) = <<banco[r].nome, k[2]>>
      BY <3>1 DEF PosicaoDoVinculo
    <3> QED
      BY <1>2, <1>5, <3>3, <3>4
  <2> QED
    BY <1>3, <2>1, <2>2, <2>3
<1>8. CASE t = "reserva"
  <2>1. \A j \in De(t) : Posicao(j) = <<-banco[j].data, -j[2]>>
    BY <1>1, <1>8 DEF Posicao, PosicaoDaReserva
  <2> QED
    BY <1>1, <1>2, <1>3, <1>4, <1>5, <2>1
<1>9. CASE t = "ciclo"
  <2>1. \A j \in De(t) : Posicao(j) = PosicaoDaViagem(j)
    BY <1>1, <1>9 DEF Posicao
  <2>2. CASE leitor.crescente
    <3>1. \A j \in De(t) : Posicao(j) = <<banco[j].data, j[2]>>
      BY <2>1, <2>2 DEF PosicaoDaViagem
    <3> QED
      BY <1>1, <1>2, <1>3, <1>4, <1>5, <3>1
  <2>3. CASE ~leitor.crescente
    <3>1. \A j \in De(t) : Posicao(j) = <<-banco[j].data, -j[2]>>
      BY <2>1, <2>3 DEF PosicaoDaViagem
    <3> QED
      BY <1>1, <1>2, <1>3, <1>4, <1>5, <3>1
  <2> QED
    BY <2>2, <2>3
<1> QED
  BY <1>6, <1>7, <1>8, <1>9 DEF Listas

LEMMA AntesOrdena ==
    /\ \A p \in Int \X Int : ~Antes(p, p)
    /\ \A p, q \in Int \X Int : p = q \/ Antes(p, q) \/ Antes(q, p)
    /\ \A p, q \in Int \X Int : ~(Antes(p, q) /\ Antes(q, p))
    /\ \A p, q, r \in Int \X Int : Antes(p, q) /\ Antes(q, r) => Antes(p, r)
<1>1. \A p \in Int \X Int : p = <<p[1], p[2]>> /\ p[1] \in Int /\ p[2] \in Int
  OBVIOUS
<1> QED
  BY <1>1 DEF Antes

\* The rows K of a table before row k in a listing.
AntesDe(K) == [k \in K |-> {j \in K : Antes(Posicao(j), Posicao(k))}]

LEMMA ListaOrdenada ==
    ASSUME Base, NEW t \in Listas, NEW K, K \subseteq De(t)
    PROVE  IsFiniteSet(K) /\ OrdemEstrita(K, AntesDe(K))
<1>1. IsFiniteSet(K)
  <2>1. K \subseteq Linhas
    BY DEF De
  <2> QED
    BY <2>1, FS_Subset DEF Base, CatalogoInv, Esquema
<1>2. \A k \in K : Posicao(k) \in Int \X Int
  BY Posicoes
<1>3. \A j, k \in K : Posicao(j) = Posicao(k) => j = k
  BY Posicoes
<1> DEFINE A == AntesDe(K)
<1>4. A \in [K -> SUBSET K] /\ \A j, k \in K : j \in A[k] <=> Antes(Posicao(j), Posicao(k))
  BY DEF AntesDe
<1> HIDE DEF A
<1>5. \A k \in K : k \notin A[k]
  BY <1>2, <1>4, AntesOrdena
<1>6. \A j, k \in K : j = k \/ j \in A[k] \/ k \in A[j]
  BY <1>2, <1>3, <1>4, AntesOrdena
<1>7. \A j, k \in K : j \in A[k] => A[j] \subseteq A[k]
  BY <1>2, <1>4, AntesOrdena
<1> QED
  BY <1>1, <1>4, <1>5, <1>6, <1>7 DEF OrdemEstrita, A

\* A page: either everything that is left, or what is not after its last row.
LEMMA Pagina ==
    ASSUME Base, NEW t \in Listas, NEW K, K \subseteq De(t), NEW n \in Nat \ {0}, NEW P, P = Primeiros(K, n)
    PROVE  /\ P \subseteq K /\ (Primeiros(K, n + 1) = P => P = K)
           /\ Primeiros(K, n + 1) # P =>
                 /\ Ultima(P) \in K
                 /\ \A k \in K : k \in P <=> ~Antes(Posicao(Ultima(P)), Posicao(k))
<1>1. IsFiniteSet(K) /\ OrdemEstrita(K, AntesDe(K))
  BY ListaOrdenada
<1> DEFINE A == AntesDe(K)
           c(k) == Cardinality(A[k])
           N == Cardinality(K)
<1>2. /\ N \in Nat /\ \A k \in K : c(k) \in 0 .. N - 1
      /\ \A j, k \in K : j \in A[k] => c(j) < c(k)
      /\ \A j, k \in K : c(j) = c(k) => j = k
      /\ \A i \in 0 .. N - 1 : \E k \in K : c(k) = i
  BY <1>1, Postos
<1>3. \A j, k \in K : j \in A[k] <=> Antes(Posicao(j), Posicao(k))
  BY DEF AntesDe
<1>4. \A m : Primeiros(K, m) = {k \in K : c(k) < m}
  BY DEF Primeiros, AntesDe
<1>5. \A j, k \in K : j = k \/ j \in A[k] \/ k \in A[j]
  BY <1>1 DEF OrdemEstrita
<1> HIDE DEF A
<1>6. ASSUME Primeiros(K, n + 1) = P PROVE P = K
  <2>1. ~\E k \in K : c(k) = n
    BY <1>2, <1>4, <1>6
  <2>2. N <= n
    BY <1>2, <2>1
  <2>3. \A k \in K : c(k) < n
    BY <1>2, <2>2
  <2> QED
    BY <1>4, <2>3
<1>7. ASSUME Primeiros(K, n + 1) # P
      PROVE  /\ Ultima(P) \in K
             /\ \A k \in K : k \in P <=> ~Antes(Posicao(Ultima(P)), Posicao(k))
  <2>1. PICK x \in K : c(x) = n
    <3>1. Primeiros(K, n + 1) = {k \in K : c(k) < n + 1} /\ P = {k \in K : c(k) < n}
      BY <1>4
    <3>2. \A k \in K : c(k) \in Int /\ (c(k) < n => c(k) < n + 1)
      BY <1>2
    <3>3. PICK x \in K : c(x) < n + 1 /\ ~(c(x) < n)
      BY <1>7, <3>1, <3>2
    <3> QED
      BY <3>2, <3>3
  <2>2. n - 1 \in 0 .. N - 1
    BY <1>2, <2>1
  <2>3. PICK u \in K : c(u) = n - 1
    BY <1>2, <2>2
  <2>4. u \in P /\ \A j \in P : j = u \/ Antes(Posicao(j), Posicao(u))
    <3>1. u \in P
      BY <1>4, <2>3
    <3>2. ASSUME NEW j \in P, j # u PROVE j \in A[u]
      <4>1. j \in K /\ c(j) < n /\ c(j) \in Int
        BY <1>2, <1>4
      <4>2. ~(c(u) < c(j))
        BY <2>3, <4>1
      <4> QED
        BY <1>2, <1>5, <3>2, <4>1, <4>2
    <3> QED
      BY <1>3, <1>4, <3>1, <3>2
  <2>5. Ultima(P) = u
    <3>1. ASSUME NEW k \in P, \A j \in P : j = k \/ Antes(Posicao(j), Posicao(k)) PROVE k = u
      <4> SUFFICES ASSUME k # u PROVE FALSE
        OBVIOUS
      <4>1. k \in A[u] /\ u \in A[k] /\ k \in K
        BY <1>3, <1>4, <2>4, <3>1
      <4>2. c(k) < c(u) /\ c(u) < c(k) /\ c(k) \in Int /\ c(u) \in Int
        BY <1>2, <4>1
      <4> QED
        BY <4>2
    <3> QED
      BY <2>4, <3>1 DEF Ultima
  <2>6. ASSUME NEW k \in K PROVE k \in P <=> ~(u \in A[k])
    <3>1. c(k) \in Int /\ (k \in P <=> c(k) < n)
      BY <1>2, <1>4
    <3>2. u \in A[k] => n - 1 < c(k)
      BY <1>2, <2>3
    <3>3. ~(u \in A[k]) => k = u \/ c(k) < c(u)
      BY <1>2, <1>5
    <3> QED
      BY <2>3, <3>1, <3>2, <3>3
  <2> QED
    BY <1>3, <2>5, <2>6
<1> QED
  BY <1>4, <1>6, <1>7

\* Where the screen is: of the rows that kept their place it has seen once those up to
\* the cursor, and none of the others.
ListagemInv ==
    /\ leitor.lista \in Listas \cup {"nenhuma", "fim"}
    /\ leitor.lista \in Listas =>
          /\ estaveis \subseteq De(leitor.lista)
          /\ leitor.cursor = SemCursor \/ leitor.cursor \in Int \X Int
          /\ \A k \in estaveis :
                /\ k \in leitor.vistos <=>
                      leitor.cursor # SemCursor /\ ~Antes(leitor.cursor, Posicao(k))
                /\ k \notin leitor.repetidos
    /\ ListagemCompleta

LEMMA MesmaPosicao ==
    ASSUME banco' = banco, leitor'.crescente = leitor.crescente, NEW k, k[1] \in Listas
    PROVE  Posicao(k)' = Posicao(k)
<1>1. CASE k[1] = "cliente"
  BY <1>1 DEF Posicao, PosicaoDoCliente
<1>2. CASE k[1] = "vinculo"
  <2>1. Posicao(k) = PosicaoDoVinculo(k) /\ Posicao(k)' = PosicaoDoVinculo(k)'
    BY <1>2 DEF Posicao
  <2>2. PosicaoDoVinculo(k)' = PosicaoDoVinculo(k)
    BY DEF PosicaoDoVinculo
  <2> QED
    BY <2>1, <2>2
<1>3. CASE k[1] = "reserva"
  BY <1>3 DEF Posicao, PosicaoDaReserva
<1>4. CASE k[1] = "ciclo"
  <2>1. Posicao(k) = PosicaoDaViagem(k) /\ Posicao(k)' = PosicaoDaViagem(k)'
    BY <1>4 DEF Posicao
  <2>2. PosicaoDaViagem(k)' = PosicaoDaViagem(k)
    BY DEF PosicaoDaViagem
  <2> QED
    BY <2>1, <2>2
<1> QED
  BY <1>1, <1>2, <1>3, <1>4 DEF Listas

LEMMA ComCursor ==
    ASSUME NEW p \in Int \X Int
    PROVE  p # SemCursor
<1>1. p = <<p[1], p[2]>>
  OBVIOUS
<1>2. DOMAIN <<p[1], p[2]>> = 1 .. 2 /\ DOMAIN <<>> = 1 .. 0
  OBVIOUS
<1> QED
  BY <1>1, <1>2 DEF SemCursor

LEMMA LerSegue ==
    ASSUME Base, ListagemInv, LerPagina
    PROVE  ListagemInv'
<1> DEFINE K == Seguintes
           P == Primeiros(K, Limite)
<1>1. PICK t \in Listas : t = leitor.lista
  BY DEF LerPagina
<1>2. /\ estaveis \subseteq De(t) /\ estaveis' = estaveis /\ banco' = banco
      /\ leitor.cursor = SemCursor \/ leitor.cursor \in Int \X Int
      /\ K = {k \in De(t) : leitor.cursor = SemCursor \/ Antes(leitor.cursor, Posicao(k))}
      /\ \A k \in estaveis :
            /\ k \in leitor.vistos <=>
                  leitor.cursor # SemCursor /\ ~Antes(leitor.cursor, Posicao(k))
            /\ k \notin leitor.repetidos
  BY <1>1 DEF ListagemInv, LerPagina, Seguintes, catalogo
<1>3. Limite \in Nat \ {0} /\ K \subseteq De(t)
  BY <1>2, ListagemAssumption
<1>4. /\ P \subseteq K /\ (Primeiros(K, Limite + 1) = P => P = K)
      /\ Primeiros(K, Limite + 1) # P =>
            /\ Ultima(P) \in K
            /\ \A k \in K : k \in P <=> ~Antes(Posicao(Ultima(P)), Posicao(k))
  BY <1>3, Pagina
<1>5. /\ leitor'.crescente = leitor.crescente
      /\ leitor'.vistos = leitor.vistos \cup P
      /\ leitor'.repetidos = leitor.repetidos \cup (P \cap leitor.vistos)
      /\ Primeiros(K, Limite + 1) = P => leitor'.lista = "fim"
      /\ Primeiros(K, Limite + 1) # P =>
            leitor'.lista = t /\ leitor'.cursor = Posicao(Ultima(P))
  BY <1>1 DEF LerPagina, Cursor
<1> HIDE DEF K, P
<1>6. ASSUME NEW k \in estaveis
      PROVE  /\ k \in K => k \notin leitor.vistos
             /\ k \notin K => k \in leitor.vistos
             /\ k \notin leitor'.repetidos
  BY <1>2, <1>4, <1>5
<1>7. CASE Primeiros(K, Limite + 1) = P
  <2>1. leitor'.lista = "fim" /\ leitor'.lista \notin Listas
    BY <1>5, <1>7 DEF Listas
  <2>2. \A k \in estaveis' : k \in leitor'.vistos /\ k \notin leitor'.repetidos
    BY <1>2, <1>4, <1>5, <1>6, <1>7
  <2> QED
    BY <2>1, <2>2 DEF ListagemInv, ListagemCompleta
<1>8. CASE Primeiros(K, Limite + 1) # P
  <2>1. PICK u \in K : u = Ultima(P)
    BY <1>4, <1>8
  <2>2. leitor'.lista = t /\ leitor'.cursor = Posicao(u) /\ t # "fim"
        /\ \A k \in K : k \in P <=> ~Antes(Posicao(u), Posicao(k))
    BY <1>4, <1>5, <1>8, <2>1 DEF Listas
  <2>3. \A k \in De(t) : Posicao(k) \in Int \X Int
    BY Posicoes
  <2>4. Posicao(u) \in Int \X Int /\ Posicao(u) # SemCursor
        /\ (leitor.cursor = SemCursor \/ Antes(leitor.cursor, Posicao(u)))
    BY <1>2, <1>3, <2>3, ComCursor
  <2>5. ASSUME NEW k \in estaveis
        PROVE  k \in leitor'.vistos <=> ~Antes(Posicao(u), Posicao(k))
    <3>1. CASE k \in K
      BY <1>5, <1>6, <2>2, <3>1
    <3>2. CASE k \notin K
      <4>1. leitor.cursor \in Int \X Int /\ ~Antes(leitor.cursor, Posicao(k))
            /\ Antes(leitor.cursor, Posicao(u))
        BY <1>2, <2>4, <3>2
      <4>2. ~Antes(Posicao(u), Posicao(k))
        BY <1>2, <2>3, <2>4, <4>1, AntesOrdena
      <4> QED
        BY <1>5, <1>6, <3>2, <4>2
    <3> QED
      BY <3>1, <3>2
  <2>6. \A k \in estaveis : Posicao(k)' = Posicao(k)
    <3>1. \A k \in estaveis : k[1] \in Listas
      BY <1>1, <1>2 DEF De
    <3> QED
      BY <1>2, <1>5, <3>1, MesmaPosicao
  <2>7. De(t)' = De(t)
    BY <1>2 DEF De, Linhas
  <2>8. \A k \in estaveis' :
          /\ k \in leitor'.vistos <=> leitor'.cursor # SemCursor /\ ~Antes(leitor'.cursor, Posicao(k)')
          /\ k \notin leitor'.repetidos
    BY <1>2, <1>6, <2>2, <2>4, <2>5, <2>6
  <2>9. estaveis' \subseteq De(leitor.lista)'
    BY <1>2, <2>2, <2>7 DEF De
  <2> QED
    BY <1>1, <2>2, <2>4, <2>8, <2>9 DEF ListagemInv, ListagemCompleta, Antes
<1> QED
  BY <1>7, <1>8

LEMMA AbrirListaSegue ==
    ASSUME AbrirLista
    PROVE  ListagemInv'
<1>1. PICK t \in Listas, c \in BOOLEAN :
        leitor' = [SemLeitor EXCEPT !.lista = t, !.crescente = c] /\ estaveis' = De(t)
  BY DEF AbrirLista
<1>2. leitor'.lista = t /\ leitor'.cursor = SemCursor /\ leitor'.vistos = {}
      /\ leitor'.repetidos = {} /\ t # "fim"
  BY <1>1 DEF SemLeitor, Listas
<1>3. De(t)' = De(t)
  BY DEF AbrirLista, catalogo, De, Linhas
<1>4. estaveis' \subseteq De(leitor.lista)'
  BY <1>1, <1>2, <1>3 DEF De
<1> QED
  BY <1>2, <1>4 DEF ListagemInv, ListagemCompleta

LEMMA AcompanharSegue ==
    ASSUME ListagemInv, Acompanhar
    PROVE  ListagemInv'
<1>1. leitor' = leitor /\ estaveis' \subseteq estaveis
      /\ \A k \in estaveis' : k \in Linhas' /\ Posicao(k)' = Posicao(k)
  BY DEF Acompanhar
<1>2. ASSUME leitor.lista \in Listas PROVE estaveis' \subseteq De(leitor.lista)'
  BY <1>1, <1>2 DEF ListagemInv, De
<1>3. ASSUME leitor.lista \in Listas, NEW k \in estaveis'
      PROVE  /\ k \in leitor'.vistos <=>
                   leitor'.cursor # SemCursor /\ ~Antes(leitor'.cursor, Posicao(k)')
             /\ k \notin leitor'.repetidos
  BY <1>1, <1>3 DEF ListagemInv
<1>4. ListagemCompleta'
  BY <1>1 DEF ListagemInv, ListagemCompleta
<1> QED
  BY <1>1, <1>2, <1>3, <1>4 DEF ListagemInv, Antes

LEMMA ListagemParada ==
    ASSUME ListagemInv, UNCHANGED <<catalogo, leitor, estaveis>>
    PROVE  ListagemInv'
  BY DEF ListagemInv, ListagemCompleta, catalogo, De, Linhas, Antes, Posicao, PosicaoDoCliente,
         PosicaoDoVinculo, PosicaoDaReserva, PosicaoDaViagem

\* However rows come, go, change their name or move between the pages, a listing that
\* has ended showed once every row that was there, in its place, from its first page to
\* its last.
THEOREM ListagemSempreCompleta == Spec => []ListagemCompleta
<1>1. Init => Tipo /\ ListagemInv
  <2>1. Init => ListagemInv
    BY DEF Init, ListagemInit, SemLeitor, ListagemInv, ListagemCompleta, Listas
  <2> QED
    BY <2>1, Inicia
<1>2. Tipo /\ ListagemInv /\ [Next]_vars => (Tipo /\ ListagemInv)'
  <2> SUFFICES ASSUME Tipo, ListagemInv, [Next]_vars PROVE Tipo' /\ ListagemInv'
    OBVIOUS
  <2>1. Tipo' /\ Base
    BY PassoInstrui DEF Tipo
  <2>2. CASE Acompanhar
    BY <2>1, <2>2, AcompanharSegue
  <2>3. CASE AbrirLista
    BY <2>1, <2>3, AbrirListaSegue
  <2>4. CASE LerPagina
    BY <2>1, <2>4, LerSegue
  <2>5. CASE UNCHANGED vars
    BY <2>1, <2>5, ListagemParada DEF vars
  <2> QED
    BY <2>1, <2>2, <2>3, <2>4, <2>5 DEF Next, DoCatalogo, DeDocumentos, DeRetencao, DeListagem
<1>3. ListagemInv => ListagemCompleta
  BY DEF ListagemInv
<1> QED
  BY <1>1, <1>2, <1>3, PTL DEF Spec
=============================================================================
