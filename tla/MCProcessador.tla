--------------------------- MODULE MCProcessador ---------------------------
(* Small instances of ProcessadorPlanejamento, and of its refinement of
   RegistroExecucao, for TLC. *)
EXTENDS ProcessadorRegistro, TLC

CONSTANTS k1, k2, c1, c2, c3

\* All the keys of an instance leave at the same instant.
MCPartida == [k \in Chave |-> AntecedenciaFechamento + 1]
Simetria == Permutations(Chamada)
=============================================================================
