------------------------------- MODULE MCRota -------------------------------
(* Ten-minute units: planning 30 minutes ahead, the worker between 60 and 30. *)
(* Two trips, one with two passengers, leave at 0:50 unless the admin moves   *)
(* the departure to 1:20.                                                     *)
EXTENDS RotaDinamica, TLC

CONSTANTS v1, v2, r1, r2, r3, d1, d2

MCViagemDe  == r1 :> v1 @@ r2 :> v1 @@ r3 :> v2
MCDestinoDe == r1 :> d1 @@ r2 :> d2 @@ r3 :> d1
MCHorarios  == {5, 8}
MCDuracoes  == {1, 4}
=============================================================================
