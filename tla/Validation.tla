------------------------------- MODULE Validation -------------------------------
(***************************************************************************)
(* verify-deploy: the checks of pkg/validate, in the order a run makes     *)
(* them, while the chain, config/extension.env and the services go on      *)
(* changing under it.  A report is no snapshot: each call to the chain     *)
(* node and each reading of the file is a step of its own.  Only R7 makes  *)
(* its many calls in one step: it asks for the senders of extensions that  *)
(* were registered before, and those do not change any more.               *)
(*                                                                         *)
(* A result is a pair of a check and its status.  The checks that share an *)
(* id in the code (D5, D7, R2) have names of their own here, and "R" is    *)
(* the result with id R1-R7 that stands for all the registration checks.   *)
(*                                                                         *)
(* A definition named Op_Bug is Op with a bug the code might have had.  No *)
(* action uses it.                                                         *)
(***************************************************************************)
EXTENDS Integers, Sequences, FiniteSets, SequencesExt

CONSTANTS
  Environments,   (* the environments verify-deploy may be run in           *)
  DotEnvs,        (* what the .env of its working directory may say         *)
  Configs,        (* what config/extension.env may say                      *)
  Managers,       (* what the addresses file may say of FlareTeeManager     *)
  Senders,        (* the addresses extensions may be registered with        *)
  Steps,          (* the values of -step in use                             *)
  Filters,        (* the values of --checks in use, {} for none             *)
  Services,       (* the services that may start and stop                   *)
  MayHush,        (* the node may take a call and never answer it           *)
  MaxExtensions,  (* bound on the extensions                                *)
  MaxMoves        (* bound on what changes and on the calls that fail       *)

(* An environment says of each variable what it holds, "" for nothing. *)
EnvNames == {"DEPLOYMENT_PRIVATE_KEY", "EXTENSION_OWNER_KEY", "LOCAL_MODE",
             "SIMULATED_TEE", "EXT_PROXY_URL", "NORMAL_PROXY_URL",
             "PROXY_PRIVATE_KEY"}

(* What -step accepts; main exits with 1 on anything else. *)
StepNames == {"deploy", "register", "services", "tee-version", "tee-machine",
              "test", "all"}

ASSUME ValidationAssumption ==
  /\ Environments \cup DotEnvs \subseteq [EnvNames -> STRING]
  /\ Configs \subseteq [exists : BOOLEAN, id : Int, sender : STRING]
  /\ Steps \subseteq StepNames /\ Filters \subseteq SUBSET STRING
  /\ Managers \subseteq {"unreadable", "zero", "no-code", "code"}
  /\ MayHush \in BOOLEAN
  /\ MaxExtensions \in Nat /\ MaxMoves \in Nat

VARIABLES
  extensions,  (* the registry; id i is entry i + 1                         *)
  manager,     (* FlareTeeManager, as the addresses file has it             *)
  balance,     (* the deployer's, in units of MinDeployBalance              *)
  config,      (* config/extension.env                                      *)
  exported,    (* the environment verify-deploy is run in                   *)
  dotenv,      (* the .env of its working directory                         *)
  up,          (* the services that answer                                  *)
  silent,      (* the chain node takes calls and does not answer            *)
  run,         (* the run: its flags, environment, and what it has read     *)
  todo,        (* the checks it has yet to make                             *)
  report,      (* Report.Results, as a set                                  *)
  exit,        (* "connecting", "running", or how the run ended: "0", "1";  *)
               (* "not-started" before the first                            *)
  missed,      (* the ids R7 got no answer for (the code keeps no record)   *)
  moves

chain == <<extensions, manager, balance>>

files == <<config, exported, dotenv>>

vars == <<chain, files, up, silent, run, todo, report, exit, missed, moves>>

-----------------------------------------------------------------------------
(* What the files and the chain say.                                       *)

(* config.id is an id, or one of these; config.sender an address, "" for   *)
(* none or "malformed".                                                    *)
NoId == -1
Malformed == -2

NoFile == [exists |-> FALSE, id |-> NoId, sender |-> ""]

(* parseExtensionEnv, which makes nothing of a file that is not there. *)
ParseExtensionEnv == config

WellFormed(c) == [id |-> c.id >= 0, sender |-> c.sender \notin {"", "malformed"}]

NextPublicExtensionId == Len(extensions)

(* A call to the registry's getters: an extension nobody registered, or no *)
(* code where the registry should be, is an error or a zero value, and     *)
(* either fails the check.                                                 *)
Registered(id) == manager = "code" /\ id \in 0 .. NextPublicExtensionId - 1

Extension(id) == extensions[id + 1]

(* InstructionSender.setExtensionId binds the first that names it. *)
FirstNaming(s) ==
  CHOOSE id \in 0 .. NextPublicExtensionId - 1 :
    /\ Extension(id).sender = s
    /\ \A d \in 0 .. id - 1 : Extension(d).sender # s

(* DefaultPrivateKey. *)
DefaultPrivateKey(env) ==
  IF env["DEPLOYMENT_PRIVATE_KEY"] = "" THEN "PrvWithFunds"
  ELSE env["DEPLOYMENT_PRIVATE_KEY"]

LocalMode(env) == env["LOCAL_MODE"] \in {"true", ""}

MinDeployBalance == 1

-----------------------------------------------------------------------------
(* The checks of each step.                                                *)

DeployChecks == <<"D1", "D5-funds", "D6", "D7">>

RegistrationChecks == <<"R", "R1", "R2", "R3", "R4", "R7">>

LaterChecks == <<"services", "tee-version", "tee-machine", "test">>

Order(step) ==
  CASE step = "deploy" -> DeployChecks
    [] step = "register" -> RegistrationChecks
    [] step = "all" -> DeployChecks \o RegistrationChecks \o LaterChecks
    [] OTHER -> <<step>>

StepsNeedingChain == {"deploy", "register", "all"}

(* The id a result is filtered by. *)
IdOf(check) ==
  CASE check \in {"D5-key", "D5-funds"} -> "D5"
    [] check \in {"D7-sender", "D7-id"} -> "D7"
    [] check = "R2-format" -> "R2"
    [] check = "R" -> "R1-R7"
    [] OTHER -> check

HasFailures(results) == \E r \in results : r[2] = "FAIL"

(* D3 and D1: the address, and code at it when it is not zero. *)
AddressChecks(answered) ==
  IF manager = "zero" THEN {<<"D3", "FAIL">>}
  ELSE {<<"D3", "PASS">>,
        <<"D1", IF answered /\ manager = "code" THEN "PASS" ELSE "FAIL">>}

CheckDeployerKeySource(env) ==
  {<<"D5-key", IF env["DEPLOYMENT_PRIVATE_KEY"] = "" /\ ~ LocalMode(env)
               THEN "WARN" ELSE "PASS">>}

KeyHasFunds == balance >= MinDeployBalance

(* D7, with a parser of its own.  S2, V4 and E1 read the file again, each  *)
(* unless run without -config.                                             *)
CheckExtensionEnvFormat(path) ==
  LET ok == WellFormed(config)
      Verdict(good) == IF good THEN "PASS" ELSE "FAIL"
  IN IF ~ config.exists THEN {<<"D7", "SKIP">>}
     ELSE {<<"D7-sender", Verdict(ok.sender)>>, <<"D7-id", Verdict(ok.id)>>}

Reachable(check, url, service, env) ==
  {<<check, IF env[url] = "" THEN "SKIP"
            ELSE IF service \in up THEN "PASS" ELSE "WARN">>}

RegisterServicesChecks(env) ==
  {<<"S2", IF ~ run.given THEN "SKIP"
           ELSE IF WellFormed(ParseExtensionEnv).id THEN "PASS" ELSE "FAIL">>,
   <<"S5", IF "extension" \in up THEN "WARN" ELSE "PASS">>,
   <<"S7", "PASS">>,
   <<"S10", IF env["LOCAL_MODE"] = "false" /\ env["PROXY_PRIVATE_KEY"] = ""
            THEN "WARN" ELSE "PASS">>}
  \cup Reachable("S9", "EXT_PROXY_URL", "ext-proxy", env)

RegisterTeeVersionChecks_NoStat(env) ==
  {<<"V2", IF /\ env["EXTENSION_OWNER_KEY"] = ""
              /\ env["DEPLOYMENT_PRIVATE_KEY"] = ""
              /\ ~ LocalMode(env)
           THEN "WARN" ELSE "PASS">>,
   <<"V4", IF ~ run.given \/ ParseExtensionEnv.id = NoId THEN "SKIP"
           ELSE IF WellFormed(ParseExtensionEnv).id THEN "PASS" ELSE "FAIL">>}
  \cup Reachable("V6", "EXT_PROXY_URL", "ext-proxy", env)

RegisterTeeVersionChecks(env) ==
  {<<"V2", IF /\ env["EXTENSION_OWNER_KEY"] = ""
              /\ env["DEPLOYMENT_PRIVATE_KEY"] = ""
              /\ ~ LocalMode(env)
           THEN "WARN" ELSE "PASS">>,
   <<"V4", IF ~ run.given \/ ~ config.exists THEN "SKIP"
           ELSE IF WellFormed(ParseExtensionEnv).id THEN "PASS" ELSE "FAIL">>}
  \cup Reachable("V6", "EXT_PROXY_URL", "ext-proxy", env)

RegisterTeeMachineChecks(env) ==
  {<<"T1", IF env["SIMULATED_TEE"] = "true" /\ env["LOCAL_MODE"] = "false"
           THEN "WARN" ELSE "PASS">>}
  \cup Reachable("T5", "NORMAL_PROXY_URL", "normal-proxy", env)
  \cup Reachable("T10", "EXT_PROXY_URL", "ext-proxy", env)

RegisterTestChecks(env) ==
  {<<"E1", IF ~ run.given \/ ~ config.exists THEN "SKIP"
           ELSE IF WellFormed(ParseExtensionEnv).sender THEN "PASS" ELSE "FAIL">>,
   <<"E6", "PASS">>}
  \cup Reachable("E3", "EXT_PROXY_URL", "ext-proxy", env)

-----------------------------------------------------------------------------
(* A run.                                                                  *)

(* given: -config was, and names the file; it is not unless it is said.    *)
NoRun == [step |-> "none", given |-> FALSE, filter |-> {},
          env |-> [n \in EnvNames |-> ""], dotenv |-> [n \in EnvNames |-> ""],
          id |-> NoId, sender |-> "", counter |-> -1, rewritten |-> FALSE]

Init ==
  /\ extensions = <<>>
  /\ manager \in Managers
  /\ balance = MinDeployBalance
  /\ config \in Configs
  /\ exported \in Environments /\ dotenv \in DotEnvs
  /\ up = Services /\ silent = FALSE
  /\ run = NoRun /\ todo = <<>> /\ report = {} /\ exit = "not-started"
  /\ missed = {} /\ moves = 0

Moves == moves < MaxMoves /\ moves' = moves + 1

Loaded_NoDotEnv == exported

(* godotenv.Load does not override what is exported.  Only the steps that  *)
(* need the chain load .env: DefaultPrivateKey does it.                    *)
Loaded == [n \in EnvNames |-> IF exported[n] # "" THEN exported[n] ELSE dotenv[n]]

(* DefaultSupport: the addresses file, then the key ... *)
DefaultSupport == manager # "unreadable" /\ DefaultPrivateKey(Loaded) # "malformed"

Ongoing == {"connecting", "running"}

(* verify-deploy reads its flags and, for some steps, sets its tools up. *)
StartVerify(step, filter, given) ==
  LET needsChain == step \in StepsNeedingChain IN
  /\ exit \notin Ongoing
  /\ run' = [NoRun EXCEPT !.step = step, !.filter = filter, !.given = given,
                          !.dotenv = dotenv,
                          !.env = IF needsChain THEN Loaded ELSE exported]
  /\ report' = {} /\ missed' = {}
  /\ todo' = IF needsChain THEN <<>> ELSE Order(step)
  /\ exit' = IF ~ needsChain THEN "running"
             ELSE IF DefaultSupport THEN "connecting" ELSE "1"
  /\ UNCHANGED <<chain, files, up, silent, moves>>

(* ... and the chain id, asked without a deadline, *)
Connect ==
  /\ exit = "connecting" /\ ~ silent
  /\ exit' = "running" /\ todo' = Order(run.step)
  /\ UNCHANGED <<chain, files, up, silent, run, report, missed, moves>>

(* which the node may also refuse. *)
ConnectFails ==
  /\ exit = "connecting" /\ Moves
  /\ exit' = "1"
  /\ UNCHANGED <<chain, files, up, silent, run, todo, report, missed>>

At(check) == todo # <<>> /\ Head(todo) = check

(* The check adds its results and the next one begins. *)
Says(results) ==
  /\ report' = report \cup results
  /\ todo' = Tail(todo)
  /\ UNCHANGED <<chain, files, up, silent, exit>>

(* RegisterRegistrationChecks returns early. *)
Returns(results) ==
  /\ report' = report \cup results
  /\ todo' = IF run.step = "all" THEN LaterChecks ELSE <<>>
  /\ UNCHANGED <<chain, files, up, silent, exit>>

Timed_NotFunds(check) == check = "D6" \/ (check = "D1" /\ manager # "zero")

(* The checks that call the node under rpcTimeout; "D1" when it calls. *)
Timed(check) == check \in {"D5-funds", "D6"} \/ (check = "D1" /\ manager # "zero")

(* What a deploy check says when the node answers, and when it does not. *)
DeployResults(check, answered) ==
  CASE check = "D1" -> AddressChecks(answered) \cup CheckDeployerKeySource(run.env)
    [] check = "D5-funds" -> {<<"D5-funds", IF answered /\ KeyHasFunds
                                            THEN "PASS" ELSE "FAIL">>}
    [] check = "D6" -> {<<"D6", IF answered THEN "PASS" ELSE "FAIL">>}

Deploy(check) ==
  /\ At(check)
  /\ ~ silent \/ (check = "D1" /\ manager = "zero")
  /\ Says(DeployResults(check, TRUE))
  /\ UNCHANGED <<run, missed, moves>>

TimesOut(check) ==
  /\ At(check) /\ Timed(check) /\ silent
  /\ Says(DeployResults(check, FALSE))
  /\ UNCHANGED <<run, missed, moves>>

ReadConfig ==
  /\ At("D7")
  /\ Says(IF run.given THEN CheckExtensionEnvFormat(config) ELSE {})
  /\ run' = [run EXCEPT !.rewritten = FALSE]
  /\ UNCHANGED <<missed, moves>>

(* The registration checks read the file once, at their beginning. *)
ReadRegistration ==
  /\ At("R")
  /\ LET c == IF run.given THEN ParseExtensionEnv ELSE NoFile IN
     /\ run' = [run EXCEPT !.id = c.id, !.sender = c.sender]
     /\ IF c.id = NoId /\ c.sender = "" THEN Returns({<<"R", "SKIP">>})
        ELSE Says({})
  /\ UNCHANGED <<missed, moves>>

(* R1, then the format of EXTENSION_ID, which ends the checks when bad. *)
Formatted(results) ==
  IF run.id >= 0 THEN Says(results)
  ELSE Returns(results \cup {<<"R2-format", "FAIL">>})

CheckCounter ==
  /\ At("R1") /\ ~ silent
  /\ IF manager = "code"
     THEN /\ run' = [run EXCEPT !.counter = NextPublicExtensionId]
          /\ Formatted({<<"R1", IF NextPublicExtensionId = 0 THEN "WARN" ELSE "PASS">>})
     ELSE run' = run /\ Formatted({<<"R1", "FAIL">>})
  /\ UNCHANGED <<missed, moves>>

Holds_AnyOwner(check) ==
  /\ Registered(run.id)
  /\ CASE check = "R2" -> Extension(run.id).sender = run.sender
       [] check = "R3" -> Extension(run.id).owners # {}
       [] check = "R4" -> Extension(run.id).evm

(* What R2, R3 and R4 ask of the chain. *)
Holds(check) ==
  /\ Registered(run.id)
  /\ CASE check = "R2" -> Extension(run.id).sender = run.sender
       [] check = "R3" -> DefaultPrivateKey(run.env) \in Extension(run.id).owners
       [] check = "R4" -> Extension(run.id).evm

(* R2 is left out, without a result, when the sender is no address. *)
CheckRegistered(check) ==
  /\ At(check) /\ check \in {"R2", "R3", "R4"}
  /\ IF check = "R2" /\ ~ WellFormed(run).sender THEN Says({})
     ELSE ~ silent /\ Says({<<check, IF Holds(check) THEN "PASS" ELSE "FAIL">>})
  /\ UNCHANGED <<run, missed, moves>>

(* The ids R7 looks at. *)
Counted_OneLess == 0 .. run.counter - 2

Counted == 0 .. run.counter - 1

(* R7 counts the extensions with this sender among those R1 counted, and   *)
(* goes on when a call for one of them fails.                              *)
CheckUnique ==
  /\ At("R7")
  /\ IF run.counter > 0 /\ WellFormed(run).sender
     THEN \E unanswered \in SUBSET Counted :
            LET matching == {id \in Counted \ unanswered :
                               Extension(id).sender = run.sender}
            IN /\ ~ silent
               /\ moves + Cardinality(unanswered) <= MaxMoves
               /\ moves' = moves + Cardinality(unanswered)
               /\ missed' = unanswered
               /\ Says({<<"R7", IF Cardinality(matching) > 1
                                THEN "WARN" ELSE "PASS">>})
     ELSE Says({}) /\ UNCHANGED <<moves, missed>>
  /\ UNCHANGED run

(* A call to the node ends with an error. *)
CallFails(check) ==
  /\ At(check)
  /\ Moves
  /\ \/ Timed(check) /\ Says(DeployResults(check, FALSE))
     \/ check = "R1" /\ Formatted({<<"R1", "FAIL">>})
     \/ check = "R2" /\ WellFormed(run).sender /\ Says({<<"R2", "FAIL">>})
     \/ check \in {"R3", "R4"} /\ Says({<<check, "FAIL">>})
  /\ UNCHANGED <<run, missed>>

(* The steps that call no node. *)
CheckLocally ==
  /\ todo # <<>>
  /\ \/ At("services") /\ Says(RegisterServicesChecks(run.env))
     \/ At("tee-version") /\ Says(RegisterTeeVersionChecks(run.env))
     \/ At("tee-machine") /\ Says(RegisterTeeMachineChecks(run.env))
     \/ At("test") /\ Says(RegisterTestChecks(run.env))
  /\ UNCHANGED <<run, missed, moves>>

Finish_AtFirstFailure ==
  /\ exit = "running" /\ (todo = <<>> \/ HasFailures(report))
  /\ report' = {r \in report : run.filter = {} \/ IdOf(r[1]) \in run.filter}
  /\ exit' = IF HasFailures(report') THEN "1" ELSE "0"
  /\ UNCHANGED <<chain, files, up, silent, run, todo, missed, moves>>

(* --checks hides results, failures too, before the exit code is decided. *)
Finish ==
  /\ exit = "running" /\ todo = <<>>
  /\ report' = {r \in report : run.filter = {} \/ IdOf(r[1]) \in run.filter}
  /\ exit' = IF HasFailures(report') THEN "1" ELSE "0"
  /\ UNCHANGED <<chain, files, up, silent, run, todo, missed, moves>>

-----------------------------------------------------------------------------
(* What goes on meanwhile.                                                 *)

Keys == {"PrvWithFunds", "own"}

(* The registry may grant some permissions by itself. *)
RegisterExtension ==
  /\ Moves /\ manager = "code" /\ Len(extensions) < MaxExtensions
  /\ \E s \in Senders, owners \in {{}} \cup {{k} : k \in Keys} :
       extensions' = Append(extensions, [sender |-> s, owners |-> owners,
                                         evm |-> owners # {}])
  /\ UNCHANGED <<manager, balance, files, up, silent, run, todo, report, exit,
                 missed>>

(* Permissions are given one by one and never taken back. *)
Grant ==
  /\ Moves
  /\ \E i \in DOMAIN extensions :
       extensions' \in {[extensions EXCEPT ![i].owners = @ \cup {k}] : k \in Keys}
                     \cup {[extensions EXCEPT ![i].evm = TRUE]}
  /\ UNCHANGED <<manager, balance, files, up, silent, run, todo, report, exit,
                 missed>>

(* pre-build.sh, or the operator, writes config/extension.env. *)
WriteConfig ==
  /\ Moves
  /\ config' \in Configs \ {config}
  /\ run' = [run EXCEPT !.rewritten = TRUE]
  /\ UNCHANGED <<chain, exported, dotenv, up, silent, todo, report, exit,
                 missed>>

(* The operator does as V2 says: "Set EXTENSION_OWNER_KEY or               *)
(* DEPLOYMENT_PRIVATE_KEY in .env".                                        *)
SetKeyInDotEnv ==
  /\ Moves /\ exit \notin Ongoing
  /\ <<"V2", "WARN">> \in report
  /\ dotenv' = [dotenv EXCEPT !["DEPLOYMENT_PRIVATE_KEY"] = "own"]
  /\ UNCHANGED <<chain, config, exported, up, silent, run, todo, report, exit,
                 missed>>

(* Services start and stop, the deployer pays, the node falls silent ... *)
Others ==
  /\ Moves
  /\ \/ \E s \in Services :
          up' = (up \ {s}) \cup ({s} \ up) /\ UNCHANGED <<balance, silent>>
     \/ balance' = 1 - balance /\ UNCHANGED <<up, silent>>
     \/ MayHush /\ silent' = TRUE /\ UNCHANGED <<up, balance>>
  /\ UNCHANGED <<extensions, manager, files, run, todo, report, exit, missed>>

(* ... and answers again. *)
NodeRecovers ==
  /\ silent /\ silent' = FALSE
  /\ UNCHANGED <<chain, files, up, run, todo, report, exit, missed, moves>>

World ==
  RegisterExtension \/ Grant \/ WriteConfig \/ SetKeyInDotEnv \/ Others \/ NodeRecovers

Verify ==
  \/ Connect
  \/ \E check \in {"D1", "D5-funds", "D6"} : Deploy(check) \/ TimesOut(check)
  \/ ReadConfig \/ ReadRegistration \/ CheckCounter
  \/ \E check \in {"R2", "R3", "R4"} : CheckRegistered(check)
  \/ CheckUnique \/ CheckLocally \/ Finish

Next ==
  \/ \E step \in Steps, filter \in Filters, given \in BOOLEAN :
       StartVerify(step, filter, given)
  \/ Verify \/ ConnectFails
  \/ \E check \in {"D1", "D5-funds", "D6", "R1", "R2", "R3", "R4"} : CallFails(check)
  \/ World

Spec == Init /\ [][Next]_vars

(* verify-deploy is a process the operator leaves to itself. *)
FairSpec == Spec /\ WF_vars(Verify)

-----------------------------------------------------------------------------
Statuses == {"PASS", "WARN", "FAIL", "SKIP"}

Ended(steps) == exit \in {"0", "1"} /\ run.step \in steps

(* The types of the variables, and: a report is kept only of a run. *)
TypeOK ==
  /\ Len(extensions) <= MaxExtensions
  /\ \A i \in DOMAIN extensions :
       extensions[i] \in [sender : Senders, owners : SUBSET Keys, evm : BOOLEAN]
  /\ manager \in Managers /\ balance \in {0, 1}
  /\ config \in Configs /\ exported \in Environments
  /\ dotenv \in DotEnvs \cup {[d EXCEPT !["DEPLOYMENT_PRIVATE_KEY"] = "own"] : d \in DotEnvs}
  /\ silent \in BOOLEAN
  /\ exit \in {"not-started", "0", "1"} \cup Ongoing
  /\ exit # "running" => todo = <<>>
  /\ \A r \in report : r[2] \in Statuses
  /\ missed \subseteq 0 .. MaxExtensions - 1
  /\ moves \in 0 .. MaxMoves

(* An exit code 0 with the sender checked (R2) means that the extension    *)
(* named by extension.env, as the registration checks read it, is          *)
(* registered with that sender, lets this deployer own machines and takes  *)
(* EVM keys - although each was asked in a call of its own, while others   *)
(* were registering, granting and rewriting the file.                      *)
CleanReportIsTrue ==
  Ended({"register", "all"}) /\ exit = "0" /\ run.filter = {}
  /\ <<"R2", "PASS">> \in report
    => /\ Extension(run.id).sender = run.sender
       /\ DefaultPrivateKey(run.env) \in Extension(run.id).owners
       /\ Extension(run.id).evm

(* R2 and R7 both pass ("instruction sender is unique across registered    *)
(* extensions"), for an extension that was there when R1 counted:          *)
(* setExtensionId binds, or has bound, the sender to that extension,       *)
(* whoever registers what while R7 looks.  But R7 passes over an extension *)
(* whose lookup fails, and does not say so: then it may bind elsewhere.    *)
UniqueSenderBinds ==
  {<<"R2", "PASS">>, <<"R7", "PASS">>} \subseteq report
  /\ run.id < run.counter /\ missed = {}
    => FirstNaming(run.sender) = run.id

(* The results that are about extension.env. *)
Readers == {"D7", "D7-sender", "D7-id", "R", "R1", "R2-format", "R2", "R3",
            "R4", "R7", "S2", "V4", "E1"}

(* Five places read or parse extension.env.  When -config names the file,  *)
(* and it did not change during a report, they agree on it, and its        *)
(* failing is never hidden.  Without -config, which is the default, none   *)
(* of them says anything of the file, be it malformed: each result is SKIP *)
(* and no registration check is made.                                      *)
ReadersAgree ==
  Ended({"all"}) /\ run.filter = {} /\ ~ run.rewritten /\ config.exists
  /\ report # {}
    => IF run.given
       THEN /\ {c \in {"D7-id", "S2", "V4"} : <<c, "FAIL">> \in report}
                 \in {{}, {"D7-id", "S2", "V4"}}
            /\ {c \in {"D7-sender", "E1"} : <<c, "FAIL">> \in report}
                 \in {{}, {"D7-sender", "E1"}}
            /\ <<"R2-format", "FAIL">> \in report => <<"S2", "FAIL">> \in report
            /\ <<"R", "SKIP">> \in report => exit = "1"
       ELSE \A r \in report : r[1] \in Readers => r[2] = "SKIP"

(* A run always ends, but for two places: rpcTimeout "is the timeout for   *)
(* all RPC calls" (validate.go), and yet the chain id, before any check,   *)
(* and R1 to R7 are asked without a deadline.  Only there can a silent     *)
(* node keep a run waiting; a run that calls no node, and the deploy       *)
(* checks of one that was connected, always end.                           *)
ReportEnds ==
  []<>(\/ exit \notin Ongoing
       \/ silent /\ exit = "connecting"
       \/ silent /\ todo # <<>> /\ Contains(RegistrationChecks, Head(todo)))

(* The fix V2 prints, once made, is seen by the next run of all steps.  (A *)
(* run of the step tee-version alone does not load .env.)                  *)
FixIsSeen ==
  run.step = "all" /\ run.dotenv["DEPLOYMENT_PRIVATE_KEY"] # ""
    => <<"V2", "WARN">> \notin report
=============================================================================
