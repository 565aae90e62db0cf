------------------------------ MODULE Delivery ------------------------------
(* What the event stream promises a client (ADR 0028), whatever happens to  *)
(* the run, to its connections and to the server's buffers: it is given     *)
(* every event of the log from the one it asked for, once and in the order  *)
(* of the log, and it is told to stop only when the log is over and it has  *)
(* them all.                                                                *)
EXTENDS Naturals, Sequences, Filtering

CONSTANTS Client, First   \* First[c]: the first id the client wants

VARIABLES log, over, view, stopped

deliveryVars == <<log, over, view, stopped>>

Wanted(c) == Without(log, 0 .. First[c] - 1)

DeliveryInit ==
  /\ log = <<>> /\ over = FALSE
  /\ view = [c \in Client |-> <<>>]
  /\ stopped = {}

(* The event that ends the log may be the one appended. *)
Extend ==
  /\ ~over /\ over' \in BOOLEAN
  /\ Len(log') = Len(log) + 1
  /\ SubSeq(log', 1, Len(log)) = log
  /\ \A i \in DOMAIN log : log[i] < log'[Len(log')]
  /\ UNCHANGED <<view, stopped>>

Close == ~over /\ over' = TRUE /\ UNCHANGED <<log, view, stopped>>

Deliver(c) ==
  /\ c \notin stopped
  /\ LET wanted == Wanted(c)
         next == Len(view[c]) + 1
     IN /\ next \in DOMAIN wanted
        /\ view' = [view EXCEPT ![c] = Append(@, wanted[next])]
  /\ UNCHANGED <<log, over, stopped>>

Stop(c) ==
  /\ over /\ view[c] = Wanted(c)
  /\ stopped' = stopped \cup {c}
  /\ UNCHANGED <<log, over, view>>

DeliveryNext ==
  Extend \/ Close \/ \E c \in Client : Deliver(c) \/ Stop(c)

DeliverySpec == DeliveryInit /\ [][DeliveryNext]_deliveryVars
=============================================================================
