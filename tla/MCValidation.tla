------------------------------ MODULE MCValidation ------------------------------
(* A small instance of Validation. *)
EXTENDS Validation

Env(changes) ==
  [n \in EnvNames |-> IF n \in DOMAIN changes THEN changes[n] ELSE ""]

(* A public deployment whose key is not set yet: the case V2 warns of. *)
MCEnvironments ==
  {Env("LOCAL_MODE" :> "false" @@ "SIMULATED_TEE" :> "true"
       @@ "EXT_PROXY_URL" :> "set" @@ "NORMAL_PROXY_URL" :> "set")}

MCNoDotEnv == {Env(<<>>)}

(* No file; a file that names an extension, one without ids, bad ones. *)
MCConfigs ==
  {NoFile}
  \cup [exists : {TRUE}, id : 0 .. 1, sender : {"s1"}]
  \cup [exists : {TRUE}, id : {NoId}, sender : {""}]
  \cup [exists : {TRUE}, id : {0}, sender : {"malformed"}]
  \cup [exists : {TRUE}, id : {Malformed}, sender : {"s1"}]

MCManagers == {"unreadable", "zero", "no-code", "code"}

MCFilters == {{}}

MCAllSteps == {"deploy", "register", "services", "tee-version", "tee-machine",
               "test", "all"}
=============================================================================
