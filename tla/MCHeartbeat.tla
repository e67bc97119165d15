---------------------------- MODULE MCHeartbeat -----------------------------
(* A clock with two characters for the seconds and one for the             *)
(* milliseconds, two instants a second; it starts at the last instant      *)
(* before all three characters change at once, as at 09:59:59.             *)
EXTENDS Heartbeat

MCPart(n, p) ==
  CASE p = "tens"  -> (n + 3) \div 4
    [] p = "ones"  -> ((n + 3) \div 2) % 2
    [] p = "milli" -> (n + 3) % 2

\* From left to right.
MCTurn(S) ==
  CASE "tens" \in S -> {"tens"} [] "ones" \in S -> {"ones"} [] OTHER -> S
=============================================================================
