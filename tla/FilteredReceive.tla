--------------------------- MODULE FilteredReceive ---------------------------
(***************************************************************************)
(* What the preloaded mq_receive of ipc_multiplex.c promises to dispatch:  *)
(* it behaves like the original mq_receive on a queue in which the dropped *)
(* packets never were.  Mirroring is invisible and never holds it up.      *)
(***************************************************************************)
EXTENDS Sequences

CONSTANT Packet

VARIABLE inbox   (* packets still to be received *)

Init == inbox = <<>>

Send(p) == inbox' = Append(inbox, p)

Receive ==
  /\ inbox # <<>>
  /\ inbox' = Tail(inbox)

Next == (\E p \in Packet : Send(p)) \/ Receive

Spec == Init /\ [][Next]_inbox /\ WF_inbox(Receive)
=============================================================================
