----------------------------- MODULE MCIOWorker -----------------------------
(***************************************************************************)
(* Model-checking instance of IOWorker: two connections (so one can be     *)
(* live while the other is still in the pipe), both of the type picked, so *)
(* the pick list holds two entries, and two closures (so one can share a   *)
(* batch with the stop closure while the other races it).                  *)
(***************************************************************************)
EXTENDS IOWorker

CONSTANTS c1, c2, f1, f2

MCConns == {c1, c2}
MCFns == {f1, f2}

=============================================================================
