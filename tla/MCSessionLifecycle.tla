------------------------- MODULE MCSessionLifecycle -------------------------
(* One session (sessions share no state), one tool call, two goroutines.   *)
EXTENDS SessionLifecycle

CONSTANTS w1, w2

MCWorker == {w1, w2}
MCSess == {"s"}
MCCall == {"c"}
MCCallSess == [c \in MCCall |-> "s"]
=============================================================================
