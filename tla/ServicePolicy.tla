--------------------------- MODULE ServicePolicy ---------------------------
(***************************************************************************)
(* What script/service.sh promises about stopping, without saying how: a   *)
(* service held down (by an explicit stop or by privacy) is not launched,  *)
(* and once the command that holds it has settled it is down and stays     *)
(* down until it is allowed again.                                         *)
(***************************************************************************)
CONSTANT Service

VARIABLES
  up,        (* services with a running daemon                             *)
  held,      (* services an explicit stop or privacy forbids               *)
  settling   (* held services whose stopping has not been completed        *)

vars == <<up, held, settling>>

Init == up = {} /\ held = {} /\ settling = {}

Hold(S) ==
  /\ held' = held \cup S
  /\ settling' = settling \cup S
  /\ UNCHANGED up

Allow(S) ==
  /\ held' = held \ S
  /\ settling' = settling \ S
  /\ UNCHANGED up

(* Only what is down can settle. *)
Settle(s) ==
  /\ s \notin up
  /\ settling' = settling \ {s}
  /\ UNCHANGED <<up, held>>

Launch(s) ==
  /\ s \notin held
  /\ up' = up \cup {s}
  /\ UNCHANGED <<held, settling>>

Die(s) ==
  /\ up' = up \ {s}
  /\ UNCHANGED <<held, settling>>

Next ==
  \/ \E S \in SUBSET Service : Hold(S) \/ Allow(S)
  \/ \E s \in Service : Settle(s) \/ Launch(s) \/ Die(s)

Spec == Init /\ [][Next]_vars

(* A held service whose stop has settled is not running. *)
HeldAreDown == up \cap held \subseteq settling
=============================================================================
