----------------------------- MODULE FifoChannel -----------------------------
(***************************************************************************)
(* What a core's inbox promises: every payload sent to it is handed to the *)
(* owning core once, in the order in which the sends took effect.          *)
(***************************************************************************)
EXTENDS Integers, Sequences

CONSTANTS
  Inboxes,  \* the cores that receive
  Payloads  \* what may be sent

VARIABLES
  sent,  \* sent[i]: payloads sent to i so far
  got    \* got[i]: payloads handed to i so far

Init ==
  /\ sent = [i \in Inboxes |-> <<>>]
  /\ got = [i \in Inboxes |-> <<>>]

Send(i, m) ==
  /\ sent' = [sent EXCEPT ![i] = Append(@, m)]
  /\ UNCHANGED got

Receive(i) ==
  /\ Len(got[i]) < Len(sent[i])
  /\ got' = [got EXCEPT ![i] = Append(@, sent[i][Len(got[i]) + 1])]
  /\ UNCHANGED sent

Next == \E i \in Inboxes : Receive(i) \/ \E m \in Payloads : Send(i, m)

Spec == Init /\ [][Next]_<<sent, got>>
=============================================================================
