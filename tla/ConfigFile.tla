----------------------------- MODULE ConfigFile -----------------------------
(***************************************************************************)
(* What the writers of a configuration file promise together: the file     *)
(* changes only by one writer's whole request at a time, made to the file  *)
(* as it is then.                                                          *)
(***************************************************************************)
CONSTANTS
  Writer, Change, None,
  Over(_, _, _)  \* Over(w, c, f): what w makes of the file f when asked for c

VARIABLES conf, request

FileInit == request = [w \in Writer |-> None]

Ask(w, c) ==
  /\ request[w] = None
  /\ request' = [request EXCEPT ![w] = c] /\ UNCHANGED conf

Commit(w) ==
  /\ request[w] \in Change
  /\ conf' = Over(w, request[w], conf)
  /\ request' = [request EXCEPT ![w] = None]

(* A writer refuses, fails or is killed.                                   *)
Drop(gone) ==
  /\ request' = [w \in Writer |-> IF w \in gone THEN None ELSE request[w]] /\ UNCHANGED conf

FileNext ==
  \/ \E w \in Writer : Commit(w) \/ \E c \in Change : Ask(w, c)
  \/ \E gone \in SUBSET Writer : Drop(gone)

FileSpec == FileInit /\ [][FileNext]_<<conf, request>>
=============================================================================
