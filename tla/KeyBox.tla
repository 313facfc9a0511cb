-------------------------------- MODULE KeyBox --------------------------------
(***************************************************************************)
(* What the Go extension promises: one box holding one key, on which every *)
(* request acts alone and at once.  There is no lock, no decryption in     *)
(* flight and no hex here, and the order is whatever order the requests    *)
(* took effect in.                                                         *)
(***************************************************************************)
EXTENDS Sequences

CONSTANTS
  Key,     (* the keys the box can hold *)
  Text,    (* what it can sign          *)
  NoKey    (* the empty box             *)

VARIABLES
  key,     (* the key in the box                        *)
  given    (* what requests were given since boot        *)

vars == <<key, given>>

Init == key = NoKey /\ given = <<>>

Give(what, k, text) == given' = Append(given, [what |-> what, key |-> k,
                                               text |-> text])

Install(k) == key' = k /\ Give("installed", k, NoKey)

Sign(text) ==
  /\ key # NoKey
  /\ Give("signed", key, text)
  /\ UNCHANGED key

Report == Give("reported", key, NoKey) /\ UNCHANGED key

Refuse == Give("refused", NoKey, NoKey) /\ UNCHANGED key

(* A restart forgets everything. *)
Forget == key' = NoKey /\ given' = <<>>

Next ==
  \/ \E k \in Key : Install(k)
  \/ \E t \in Text : Sign(t)
  \/ Report \/ Refuse \/ Forget

Spec == Init /\ [][Next]_vars
===============================================================================
