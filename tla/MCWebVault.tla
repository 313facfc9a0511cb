----------------------------- MODULE MCWebVault -----------------------------
(* Small instances of WebVault for TLC. *)
EXTENDS WebVault

CONSTANTS strict, loose, zeroAddress, small, large

(* The strict rules permit the small payout only; a list with the zero     *)
(* address passes the form and is refused by the machine.                  *)
MCPermits == {<<r, i>> \in Rules \X Intents : r = loose \/ (r = strict /\ i = small)}

(* One session of one machine: no reload, disconnect or restart once there *)
(* is a task, and no connection attempt under way once there are two.  A   *)
(* bound on three overlapping tasks.                                       *)
OneSession ==
  /\ restartedAt = 0
  /\ tasks # <<>> => vaultState = "live"
  /\ Len(tasks) > 1 => probes = 0

(* The user waits until a click is over before making the next one, and no *)
(* key is refused: what goes wrong then is not a matter of overlap.        *)
OneAtATime ==
  /\ OneSession
  /\ Cardinality({t \in DOMAIN tasks : InFlight(t)}) <= 1
  /\ \A i \in DOMAIN instructions :
        instructions[i].op = "updateKey" => answers[i] # "refused"
=============================================================================
