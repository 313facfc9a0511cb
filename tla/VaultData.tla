------------------------------ MODULE VaultData ------------------------------
(***************************************************************************)
(* The data that flows into the vault extension (tee/typescript/src): the  *)
(* payloads of the three instructions, and what makes a policy valid and   *)
(* an intent permitted.  Keys, addresses and payloads are values of small  *)
(* sets; what the ABI and hex decoders cannot read is one value,           *)
(* Undecodable, and an absent message is another, Empty.                   *)
(***************************************************************************)
EXTENDS Naturals, Sequences

CONSTANTS
  Keys,            (* private keys parsePrivateKey accepts                 *)
  BadKey,          (* decrypted bytes that are no secp256k1 private key    *)
  Addresses,       (* recipient addresses; comparisons ignore letter case  *)
  ZeroAddress,     (* 0x0000000000000000000000000000000000000000           *)
  PolicyMessages,  (* SET_POLICY payloads that ABI-decode to a policy      *)
  IntentMessages,  (* SIGN payloads that ABI-decode to an intent           *)
  Undecodable,     (* a payload the hex or ABI decoder rejects             *)
  Empty,           (* no originalMessage and no message                    *)
  None,            (* null                                                 *)
  AllowLimit       (* longest allowlist accepted: 5 in the code            *)

ASSUME DataAssumption ==
  /\ ZeroAddress \in Addresses
  /\ \A p \in PolicyMessages :
        /\ p \in [allowedRecipients : Seq(Addresses),
                  maxAmount : Nat, expiresAt : Nat]
  /\ IntentMessages \subseteq
        [recipient : Addresses, amount : Nat, deadline : Nat]
  /\ BadKey \notin Keys
  /\ Undecodable \notin PolicyMessages \cup IntentMessages \cup Keys
  /\ Empty \notin PolicyMessages \cup IntentMessages \cup Keys \cup {BadKey}
  /\ None \notin PolicyMessages \cup Keys
  /\ AllowLimit \in Nat

-----------------------------------------------------------------------------
(* The requests the extension's HTTP server queues: POST /action for one of *)
(* the registered commands, and GET /state.                                 *)

Commands == {"UPDATE", "SET_POLICY", "SIGN"}

Payloads(op) ==
  CASE op = "UPDATE"     -> Keys \cup {BadKey, Undecodable, Empty}
    [] op = "SET_POLICY" -> PolicyMessages \cup {Undecodable, Empty}
    [] op = "SIGN"       -> IntentMessages \cup {Undecodable, Empty}
    [] op = "STATE"      -> {Empty}

Request == UNION {[op : {c}, msg : Payloads(c)] : c \in Commands \cup {"STATE"}}

-----------------------------------------------------------------------------
(* What handleSetPolicy refuses, as one predicate. *)

Occurs(a, list) == \E i \in DOMAIN list : list[i] = a

ValidPolicies ==
  {p \in PolicyMessages :
     /\ Len(p.allowedRecipients) \in 1 .. AllowLimit
     /\ ~ Occurs(ZeroAddress, p.allowedRecipients)}

(* A time limit of 0 means "no limit"; the limit itself is still in time. *)
InTime(limit, t) == limit = 0 \/ t <= limit

(* What an intent must satisfy to be signed under a policy at time t. *)
Allows(p, intent, t) ==
  /\ InTime(p.expiresAt, t)
  /\ InTime(intent.deadline, t)
  /\ Occurs(intent.recipient, p.allowedRecipients)
  /\ intent.amount <= p.maxAmount
=============================================================================
