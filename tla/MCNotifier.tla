----------------------------- MODULE MCNotifier -----------------------------
(* An instance of Notifier: an event, an approval, the daemon and a command. *)
EXTENDS Notifier

CONSTANTS e1, a1, daemon, once

Severities == [n \in Notes |-> IF n = e1 THEN 1 ELSE 0]
=============================================================================
