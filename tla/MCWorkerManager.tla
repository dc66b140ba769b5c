--------------------------- MODULE MCWorkerManager ---------------------------
(* Handles are 8 bits wide here; the chosen ones sit at both ends of each  *)
(* half, where ToInt32 changes sign.                                       *)
EXTENDS WorkerManager

MCHandles == {0, 127, 128, 255}
====
