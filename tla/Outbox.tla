------------------------------- MODULE Outbox -------------------------------
(***************************************************************************)
(* What the store-and-forward path promises (SendData and recover_proc of  *)
(* src/DatahubEdge.c), without its threads, its queries and its flag.      *)
(*                                                                         *)
(* An accepted message is handed to the MQTT client at once, or stored, or *)
(* lost if the store refuses it.  From time to time the oldest stored      *)
(* messages, at most Limit of them, are taken in hand and handed over one  *)
(* by one, oldest first; after each of them up to Limit messages may leave *)
(* the store, and none leaves it otherwise.  The last message in hand may  *)
(* be given up.  A crash loses everything but the store.                   *)
(***************************************************************************)
EXTENDS Integers, SequencesExt

CONSTANT Limit  \* messages taken in hand at a time, and removals after each

VARIABLES
  accepted,  \* number of messages accepted: the newest one
  sending,   \* messages accepted and neither handed over nor stored yet
  stored,    \* messages in the store, oldest first
  hand,      \* messages taken from the store that are still to be handed over
  budget,    \* removals from the store that are still allowed
  handed     \* messages the client has taken

vars == <<accepted, sending, stored, hand, budget, handed>>

Init ==
  /\ accepted = 0 /\ sending = {} /\ stored = << >>
  /\ hand = << >> /\ budget = 0 /\ handed = {}

\* One message at a time is accepted.
Accept ==
  /\ sending = {}
  /\ accepted' = accepted + 1
  /\ sending' = {accepted + 1}
  /\ UNCHANGED <<stored, hand, budget, handed>>

\* The client may refuse what it is handed; nobody tries again.
Send ==
  /\ sending # {}
  /\ sending' = {}
  /\ handed' \in {handed, handed \union sending}
  /\ UNCHANGED <<accepted, stored, hand, budget>>

\* The message is stored, or lost.
Store ==
  /\ sending # {}
  /\ sending' = {}
  /\ stored' \in {stored} \union {Append(stored, m) : m \in sending}
  /\ UNCHANGED <<accepted, hand, budget, handed>>

Take ==
  /\ hand = << >> /\ budget = 0
  /\ \E n \in 1..Limit : n <= Len(stored) /\ hand' = SubSeq(stored, 1, n)
  /\ UNCHANGED <<accepted, sending, stored, budget, handed>>

\* Nothing is handed over while removals go on.
HandOver ==
  /\ hand # << >> /\ budget = 0
  /\ handed' \in {handed, handed \union {Head(hand)}}
  /\ hand' = Tail(hand)
  /\ budget' = Limit
  /\ UNCHANGED <<accepted, sending, stored>>

RemoveStored ==
  /\ budget > 0
  /\ \E k \in DOMAIN stored : stored' = RemoveAt(stored, k)
  /\ budget' = budget - 1
  /\ UNCHANGED <<accepted, sending, hand, handed>>

\* A removal is refused, or there is nothing left to remove.
Forgo ==
  /\ budget > 0
  /\ budget' \in 0..budget - 1
  /\ UNCHANGED <<accepted, sending, stored, hand, handed>>

GiveUp ==
  /\ Len(hand) = 1
  /\ hand' = << >>
  /\ UNCHANGED <<accepted, sending, stored, budget, handed>>

Crash ==
  /\ sending' = {} /\ hand' = << >> /\ budget' = 0
  /\ UNCHANGED <<accepted, stored, handed>>

Next ==
  Accept \/ Send \/ Store \/ Take \/ HandOver \/ RemoveStored \/ Forgo \/ GiveUp \/ Crash

Spec == Init /\ [][Next]_vars
=============================================================================
