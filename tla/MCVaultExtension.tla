-------------------------- MODULE MCVaultExtension --------------------------
(* Small instances of VaultExtension for TLC. *)
EXTENDS VaultExtension

CONSTANTS alice, bob, zero

MCAddresses == {alice, bob, zero}

Policy(allow, max, expiry) ==
  [allowedRecipients |-> allow, maxAmount |-> max, expiresAt |-> expiry]

Intent(to, amount, deadline) ==
  [recipient |-> to, amount |-> amount, deadline |-> deadline]

(* Every way a policy can be refused once decoded, and two good ones. *)
WidePolicies ==
  {Policy(<<alice>>, 1, 0), Policy(<<alice, bob>>, 2, 1),
   Policy(<<>>, 1, 0), Policy(<<alice, alice, bob>>, 1, 0),
   Policy(<<bob, zero>>, 1, 0)}

WideIntents ==
  {Intent(alice, 1, 0), Intent(alice, 2, 1), Intent(bob, 1, 0)}

(* A strict and a loose policy, an intent only the loose one permits. *)
DeepPolicies == {Policy(<<alice>>, 1, 0), Policy(<<bob>>, 2, 1)}

DeepIntents == {Intent(bob, 2, 0)}
=============================================================================
