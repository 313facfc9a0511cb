------------------------------ MODULE VaultGate ------------------------------
(***************************************************************************)
(* What the vault extension promises, with neither queue, nor decryption   *)
(* in flight, nor error texts: requests take effect one at a time, each in *)
(* a single step, and a signature is given exactly when a key and a policy *)
(* are held and the policy permits the intent at that moment.  A key       *)
(* update may fail for reasons of its own (the node cannot decrypt it).    *)
(***************************************************************************)
EXTENDS VaultData

VARIABLES
  key,      (* the signing key held, or None                               *)
  policy,   (* the policy in force, or None                                *)
  log,      (* what was answered since boot, in order                      *)
  now       (* the clock                                                   *)

vars == <<key, policy, log, now>>

Init == key = None /\ policy = None /\ log = <<>> /\ now = 1

Entry(r, verdict, k, p, t) ==
  [request |-> r, verdict |-> verdict, key |-> k, policy |-> p, at |-> t]

Grant(r, k, p) == log' = Append(log, Entry(r, "granted", k, p, now))

Refuse(r) == log' = Append(log, Entry(r, "refused", None, None, now))

UpdateKey(r) ==
  /\ r.op = "UPDATE"
  /\ \/ r.msg \in Keys /\ key' = r.msg /\ Grant(r, None, None)
     \/ UNCHANGED key /\ Refuse(r)
  /\ UNCHANGED <<policy, now>>

SetPolicy(r) ==
  /\ r.op = "SET_POLICY"
  /\ \/ r.msg \in ValidPolicies /\ policy' = r.msg /\ Grant(r, None, None)
     \/ /\ r.msg \notin ValidPolicies
        /\ UNCHANGED policy /\ Refuse(r)
  /\ UNCHANGED <<key, now>>

Permitted(intent) ==
  /\ key # None /\ policy # None
  /\ intent \in IntentMessages
  /\ Allows(policy, intent, now)

Sign(r) ==
  /\ r.op = "SIGN"
  /\ \/ Permitted(r.msg) /\ Grant(r, key, None)
     \/ ~ Permitted(r.msg) /\ Refuse(r)
  /\ UNCHANGED <<key, policy, now>>

Report(r) ==
  /\ r.op = "STATE"
  /\ Grant(r, key, policy)
  /\ UNCHANGED <<key, policy, now>>

Serve(r) == UpdateKey(r) \/ SetPolicy(r) \/ Sign(r) \/ Report(r)

(* A restart forgets everything. *)
Forget ==
  /\ key' = None /\ policy' = None /\ log' = <<>>
  /\ UNCHANGED now

Tick == now' = now + 1 /\ UNCHANGED <<key, policy, log>>

Next == (\E r \in Request : Serve(r)) \/ Forget \/ Tick

Spec == Init /\ [][Next]_vars
=============================================================================
