----------------------------- MODULE MCChannel -----------------------------
(* Channel for TLC: the values its semaphores are constructed with.    *)
EXTENDS Channel

MCInitialValue == [s \in Semaphores |-> IF s = "idle" THEN buffer_size ELSE 0]
=============================================================================
