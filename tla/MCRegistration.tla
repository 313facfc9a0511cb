--------------------------- MODULE MCRegistration ---------------------------
(* Small instances of Registration for TLC. *)
EXTENDS Registration

Env(signers, threshold) == [signers |-> signers, threshold |-> threshold]

(* Nothing set: the owner alone, with threshold 1. *)
DefaultEnv == Env(<<>>, 0)

(* Also an explicit set the node does not know, and an unsatisfiable one.  *)
ThreeEnvs == {DefaultEnv, Env(<<"a", "b">>, 2), Env(<<"a">>, 2)}

(* The default, and runs of some steps only. *)
SomeSteps == {{"r", "a", "p"}, {"r"}, {"a", "p"}, {"p"}}
=============================================================================
