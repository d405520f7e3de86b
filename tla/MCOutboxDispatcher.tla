-------------------------- MODULE MCOutboxDispatcher --------------------------
(* OutboxDispatcher on small sets, for TLC. *)
EXTENDS OutboxDispatcher

CONSTANTS e1, e2, a, b, t1, t2, t3

\* Replica a, whose timer may fire while its last callback is draining, and replica b.
Timers == [t \in Ticks |-> IF t = t3 THEN b ELSE a]
=============================================================================
