----------------------------- MODULE EventLedger -----------------------------
(***************************************************************************)
(* What the daemon promises about an event it has taken from a log or a    *)
(* socket: it is written to the database, or it goes down with the one     *)
(* transaction that failed; and the database is not closed before every    *)
(* event taken has met one of these fates.  Neither channels, goroutines   *)
(* nor the order of shutdown appear here.                                  *)
(***************************************************************************)
CONSTANT Event

VARIABLES
  fate,  \* where each event is
  open   \* the database may still be used

vars == <<fate, open>>

Init ==
  /\ fate = [e \in Event |-> "unread"]
  /\ open = TRUE

Take(e) ==
  /\ open /\ fate[e] = "unread"
  /\ fate' = [fate EXCEPT ![e] = "taken"]
  /\ UNCHANGED open

\* One transaction settles the events it covers, all with the same outcome.
Settle(E) ==
  /\ open /\ E # {} /\ \A e \in E : fate[e] = "taken"
  /\ \E outcome \in {"stored", "lost"} :
       fate' = [e \in Event |-> IF e \in E THEN outcome ELSE fate[e]]
  /\ UNCHANGED open

Close ==
  /\ open /\ \A e \in Event : fate[e] # "taken"
  /\ open' = FALSE
  /\ UNCHANGED fate

Next ==
  \/ \E e \in Event : Take(e)
  \/ \E E \in SUBSET Event : Settle(E)
  \/ Close

\* Every event that is taken is settled in the end.
Fairness ==
  \A e \in Event : WF_vars(\E E \in SUBSET Event : e \in E /\ Settle(E))

Spec == Init /\ [][Next]_vars /\ Fairness
=============================================================================
