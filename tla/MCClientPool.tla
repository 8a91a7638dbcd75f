-------------------------- MODULE MCClientPool --------------------------
(* A small instance of ClientPool: one chat and one system key.  No action *)
(* of a key reads the state of another one, so a behaviour is cut where it *)
(* would move a second key.                                                *)
EXTENDS ClientPool

CONSTANTS chat, system

OneChat == {chat}
OneSystem == {system}

Untouched(k) ==
  /\ query[k] = NoQuery /\ client[k] = NoClient /\ saved[k] = 0 /\ override[k] = 0
  /\ settings[k] = 0 /\ task[k] = << >> /\ owed[k] = 0
  /\ k \notin doomed
OneKeyMoves == \E k \in Keys : \A other \in Keys \ {k} : Untouched(other)

\* What is unread and what was announced only the findings' properties ask: injections and
\* harness changes are followed in a key without a switch or a raise.
InjectionsApart == \A k \in Keys : client[k].unread => settings[k] = 0 /\ override[k] = 0
HarnessApart == \A k \in Keys : announced[k] # 0 => settings[k] = 1 /\ override[k] = 0
=============================================================================
