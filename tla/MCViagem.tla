------------------------------ MODULE MCViagem ------------------------------
(* Two cities share the fleet.  City 1 has three students outbound, one of   *)
(* whom has two vinculos and so two reservas back; city 2 has one student.   *)
(* Its plan needs an executivo and an escolar, or what is left of them.      *)
EXTENDS Viagem

MCLugares   == [executivo |-> 2, escolar |-> 1, carro |-> 1]
MCChave     == {1, 2}
MCVeiculo   == 1 .. 5
MCCategoria == <<"executivo", "executivo", "executivo", "escolar", "carro">>
MCEdicoes   == {<<1, [categoria |-> "escolar", ativo |-> TRUE]>>,
                <<5, [categoria |-> "executivo", ativo |-> TRUE]>>,
                <<2, [categoria |-> "executivo", ativo |-> FALSE]>>}
MCMotorista == 1 .. 5
MCCidade    == <<1, 1, 1, 1, 2>>
MCReserva   == 1 .. 7
MCCliente   == <<"ana", "bia", "caio", "ana", "ana", "bia", "duda">>
MCSentido   == <<"ida", "ida", "ida", "volta", "volta", "volta", "ida">>
MCChaveDe   == <<1, 1, 1, 1, 1, 1, 2>>
MCFrota     == <<"executivo", "executivo", "escolar", "escolar", "carro">>
MCDestino   == <<1, 1, 1, 1, 2, 1, 3>>
=============================================================================
