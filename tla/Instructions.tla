------------------------------ MODULE Instructions ------------------------------
(***************************************************************************)
(* Instructions sent by the Go tools, and the end-to-end test run-test:    *)
(* SetExtensionId, SendUpdateKey, ActionResult, SendSign, ActionResult,    *)
(* and the recovery of the signer.  Several tests may run at once, all     *)
(* with the same fixed key, and the machine, its stack and its             *)
(* registration may change under them.  An instruction goes to one machine *)
(* of the active set, drawn by the registry; its result is kept by that    *)
(* machine's proxy, and a test asks one proxy only.                        *)
(*                                                                         *)
(* The registry, the chain and the machines are external: they are         *)
(* modelled from how InstructionSender.sol and the tools use them.  What a *)
(* machine makes of an instruction is what the extension of its language   *)
(* makes of it.                                                            *)
(*                                                                         *)
(* A definition named Op_Bug is Op with a bug the code might have had.  No *)
(* action uses it.                                                         *)
(***************************************************************************)
EXTENDS Naturals, Sequences, FiniteSets

CONSTANTS
  Tests,       (* the runs of run-test                                      *)
  Identities,  (* the TEE identities a stack may start with                 *)
  None,
  Deployments, (* the extension and the RPC node there may be               *)
  MaxTests,    (* bound on the tests begun                                  *)
  MaxFaults    (* bound on restarts, failed calls and impatience            *)

ASSUME InstructionsAssumption ==
  /\ None \notin Identities /\ Identities # {}
  /\ MaxTests \in Nat /\ MaxFaults \in Nat \ {0}

ASSUME DeploymentsAssumption ==
  Deployments \subseteq
    [language : {"go", "typescript"},
     estimate : {"error data", "error text", "stripped"},
     call : {"error data", "error text", "result", "stripped"}]

VARIABLES
  deployed,   (* LANGUAGE of docker-compose.yaml: which extension runs; and *)
              (* how the RPC node reports a call that reverts               *)
  bound,      (* InstructionSender: its _extensionId is set                 *)
  active,     (* the machines in production                                 *)
  running,    (* the machine behind the proxy                               *)
  hasKey,     (* the test key is in the running machine                     *)
  txs,        (* the transactions, in the order they were sent              *)
  results,    (* what the proxy keeps: instruction -> result                *)
  pc,         (* where each test is                                         *)
  awaiting,   (* the transaction, then the instruction, it waits for        *)
  ciphertext, (* the machine whose key its private key is encrypted under   *)
  ready,      (* the tests begun when the running machine was registered    *)
  astray,     (* those one of whose instructions another machine drew       *)
  begun,      (* the number of tests begun                                  *)
  faults

vars == <<deployed, bound, active, running, hasKey, txs, results, pc, awaiting,
          ciphertext, ready, astray, begun, faults>>

machine == <<active, running, hasKey, results>>

(* The node puts the reason of a failed gas estimate, and that of a failed *)
(* eth_call, in the data of its error, in the text only, nowhere, or in    *)
(* the result of the call.                                                 *)
Init ==
  /\ deployed \in Deployments
  /\ bound = FALSE /\ active = {} /\ running = None /\ hasKey = FALSE
  /\ txs = <<>> /\ results = <<>>
  /\ pc = [t \in Tests |-> "idle"]
  /\ awaiting = [t \in Tests |-> 0]
  /\ ciphertext = [t \in Tests |-> None]
  /\ ready = {} /\ astray = {} /\ begun = 0 /\ faults = 0

Fault == faults < MaxFaults /\ faults' = faults + 1

-----------------------------------------------------------------------------
(* Why a call reverts: the reasons InstructionSender.sol and the registry  *)
(* give.                                                                   *)
Refusal(op) ==
  CASE op = "setExtensionId" -> IF bound THEN "already set" ELSE ""
    [] op \in {"updateKey", "sign"} ->
         IF ~ bound THEN "not set" ELSE IF active = {} THEN "TooMany" ELSE ""

(* The transactions are mined in order.  An instruction draws its machine. *)
Mine ==
  \E i \in DOMAIN txs :
    /\ txs[i].receipt = "pending"
    /\ \A j \in 1 .. i - 1 : txs[j].receipt # "pending"
    /\ \/ /\ Refusal(txs[i].op) # ""
          /\ txs' = [txs EXCEPT ![i].receipt = "reverted"]
          /\ UNCHANGED <<bound, astray>>
       \/ /\ Refusal(txs[i].op) = "" /\ txs[i].op = "setExtensionId"
          /\ txs' = [txs EXCEPT ![i].receipt = "ok"]
          /\ bound' = TRUE
          /\ UNCHANGED astray
       \/ /\ Refusal(txs[i].op) = "" /\ txs[i].op # "setExtensionId"
          /\ \E m \in active :
               /\ txs' = [txs EXCEPT ![i].receipt = "ok", ![i].to = m]
               /\ astray' = astray \cup
                              {t \in Tests : awaiting[t] = i /\ m # running}
          /\ UNCHANGED bound
    /\ UNCHANGED <<deployed, machine, pc, awaiting, ciphertext, ready, begun,
                   faults>>

(* The running machine executes an instruction meant for it; instructions  *)
(* of different rounds may reach it in any order.  The TypeScript          *)
(* extension signs nothing for run-test: no policy was set, and the text   *)
(* to sign is no payment intent.                                           *)
Execute ==
  \E i \in DOMAIN txs :
    LET ok == IF txs[i].op = "updateKey" THEN txs[i].message = running
              ELSE hasKey /\ deployed.language = "go"
    IN
    /\ running # None
    /\ txs[i].receipt = "ok" /\ txs[i].to = running
    /\ i \notin DOMAIN results
    /\ hasKey' = (hasKey \/ (ok /\ txs[i].op = "updateKey"))
    /\ results' = [j \in DOMAIN results \cup {i} |->
                     IF j = i THEN [op |-> txs[i].op, ok |-> ok]
                     ELSE results[j]]
    /\ UNCHANGED <<deployed, bound, active, running, txs, pc, awaiting,
                   ciphertext, ready, astray, begun, faults>>

(* docker compose down and up: another identity, the results are lost.     *)
StartStack ==
  \E m \in Identities \ (active \cup {running}) :
    /\ running' = m /\ hasKey' = FALSE /\ results' = <<>>
    /\ IF running = None THEN UNCHANGED faults ELSE Fault
    /\ UNCHANGED <<deployed, bound, active, txs, pc, awaiting, ciphertext,
                   ready, astray, begun>>

(* The extension alone restarts: restart: on-failure. *)
RestartExtension ==
  /\ running # None /\ Fault
  /\ hasKey' = FALSE
  /\ UNCHANGED <<deployed, bound, active, running, txs, results, pc, awaiting,
                 ciphertext, ready, astray, begun>>

PostBuild_Unchecked ==
  /\ running \notin active
  /\ active' = active \cup {running}
  /\ UNCHANGED <<deployed, bound, running, hasKey, txs, results, pc, awaiting,
                 ciphertext, ready, astray, begun, faults>>

(* post-build.sh: the running machine goes into production.  Nothing is    *)
(* said of the others.                                                     *)
PostBuild ==
  /\ running # None /\ running \notin active
  /\ active' = active \cup {running}
  /\ UNCHANGED <<deployed, bound, running, hasKey, txs, results, pc, awaiting,
                 ciphertext, ready, astray, begun, faults>>

(* The machine of another stack goes into production for the extension: it *)
(* is drawn like any other and has a proxy of its own.                     *)
AnotherMachine ==
  \E m \in Identities \ (active \cup {running}) :
    /\ active' = active \cup {m}
    /\ UNCHANGED <<deployed, bound, running, hasKey, txs, results, pc, awaiting,
                   ciphertext, ready, astray, begun, faults>>

-----------------------------------------------------------------------------
(* DecodeRevertReason: the reason, if the error carries it as data. *)
DecodeRevertReason(where, reason) ==
  IF where = "error data" THEN reason ELSE ""

(* What the text of an error says of the reason. *)
ErrorText(where, reason) == IF where = "error text" THEN reason ELSE ""

SimulateAndDecodeRevert_ErrorOnly(op) ==
  DecodeRevertReason(deployed.call, Refusal(op))

(* SimulateAndDecodeRevert: what eth_call says now, in the data of its     *)
(* error, in its result, or, as a last resort, in the text of its error.   *)
SimulateAndDecodeRevert(op) ==
  LET reason == DecodeRevertReason(deployed.call, Refusal(op)) IN
  IF deployed.call = "result" THEN Refusal(op)
  ELSE IF reason = "" THEN ErrorText(deployed.call, Refusal(op)) ELSE reason

(* What SetExtensionId's error says of a refused gas estimate: it quotes   *)
(* the error of the estimate, and the reason decoded or simulated.         *)
EstimateReason(op) ==
  LET decoded == DecodeRevertReason(deployed.estimate, Refusal(op))
      reason == IF decoded = "" THEN SimulateAndDecodeRevert(op) ELSE decoded
  IN
  IF reason = "" THEN ErrorText(deployed.estimate, Refusal(op)) ELSE reason

Goes(t, where) == pc' = [pc EXCEPT ![t] = where]

Reset(t) ==
  /\ awaiting' = [awaiting EXCEPT ![t] = 0]
  /\ ciphertext' = [ciphertext EXCEPT ![t] = None]

Fails(t) == Goes(t, "failed") /\ Reset(t)

Sends(t, op, message) ==
  /\ Refusal(op) = ""
  /\ txs' = Append(txs, [op |-> op, message |-> message, to |-> None,
                         receipt |-> "pending"])
  /\ awaiting' = [awaiting EXCEPT ![t] = Len(txs) + 1]

Receipt(t) == IF awaiting[t] = 0 THEN "none" ELSE txs[awaiting[t]].receipt

Elsewhere == UNCHANGED <<deployed, bound, machine, ready, astray, begun>>

Begin(t) ==
  /\ pc[t] \in {"idle", "failed", "passed"} /\ begun < MaxTests
  /\ Goes(t, "setExtensionId")
  /\ begun' = begun + 1
  /\ ready' = IF running \in active THEN ready \cup {t} ELSE ready \ {t}
  /\ astray' = astray \ {t}
  /\ UNCHANGED <<deployed, bound, machine, txs, awaiting, ciphertext, faults>>

AlreadySet(reason) == reason = "already set"

(* Step 1, refused by the estimate: run-test goes on if the id was set. *)
SetExtensionIdRefused(t) ==
  /\ pc[t] = "setExtensionId" /\ awaiting[t] = 0
  /\ Refusal("setExtensionId") # ""
  /\ Goes(t, IF AlreadySet(EstimateReason("setExtensionId")) THEN "info"
             ELSE "failed")
  /\ Elsewhere /\ UNCHANGED <<txs, awaiting, ciphertext, faults>>

SetExtensionId(t) ==
  /\ pc[t] = "setExtensionId" /\ awaiting[t] = 0
  /\ Sends(t, "setExtensionId", None)
  /\ Elsewhere /\ UNCHANGED <<pc, ciphertext, faults>>

(* Mined, or reverted because another test was first: then the reason is   *)
(* that of a simulation on the state there is now.                         *)
ExtensionIdSet(t) ==
  /\ pc[t] = "setExtensionId"
  /\ \/ Receipt(t) = "ok" /\ Goes(t, "info")
     \/ /\ Receipt(t) = "reverted"
        /\ Goes(t, IF AlreadySet(SimulateAndDecodeRevert("setExtensionId"))
                   THEN "info" ELSE "failed")
  /\ Reset(t)
  /\ Elsewhere /\ UNCHANGED <<txs, faults>>

(* Step 2: the public key of the machine behind the proxy. *)
FetchInfo(t) ==
  /\ pc[t] = "info"
  /\ \/ /\ running = None
        /\ Fails(t)
     \/ /\ running # None
        /\ Goes(t, "updateKey")
        /\ ciphertext' = [ciphertext EXCEPT ![t] = running]
        /\ UNCHANGED awaiting
  /\ Elsewhere /\ UNCHANGED <<txs, faults>>

Send(t, op) ==
  /\ pc[t] = op /\ awaiting[t] = 0
  /\ \/ /\ Sends(t, op, ciphertext[t])
        /\ UNCHANGED <<pc, ciphertext>>
     \/ /\ Refusal(op) # ""
        /\ Fails(t)
        /\ UNCHANGED txs
  /\ Elsewhere /\ UNCHANGED faults

SendUpdateKey(t) == Send(t, "updateKey")
SendSign(t) == Send(t, "sign")

(* WaitMined has no deadline here. *)
InstructionMined(t, op, next) ==
  /\ pc[t] = op
  /\ \/ Receipt(t) = "ok" /\ Goes(t, next) /\ UNCHANGED <<awaiting, ciphertext>>
     \/ Receipt(t) = "reverted" /\ Fails(t)
  /\ Elsewhere /\ UNCHANGED <<txs, faults>>

Found(t) == awaiting[t] \in DOMAIN results

(* ActionResult: the result under the instruction's own id. *)
Response(t) == results[awaiting[t]]

(* Step 4. *)
UpdateKeyResult(t) ==
  /\ pc[t] = "poll key" /\ Found(t)
  /\ \/ ~ Response(t).ok /\ Fails(t)
     \/ Response(t).ok /\ Goes(t, "sign") /\ Reset(t)
  /\ Elsewhere /\ UNCHANGED <<txs, faults>>

(* Step 6: what is recovered from a result that is no signature is not the *)
(* expected signer.                                                        *)
SignResult(t) ==
  /\ pc[t] = "poll signature" /\ Found(t)
  /\ \/ /\ Response(t).ok /\ Response(t).op = "sign"
        /\ Goes(t, "passed") /\ Reset(t)
     \/ ~ (Response(t).ok /\ Response(t).op = "sign") /\ Fails(t)
  /\ Elsewhere /\ UNCHANGED <<txs, faults>>

(* Fifteen polls, two seconds apart, none of which found it.  It is no     *)
(* fault when the result cannot come any more.                             *)
Hopeless(t) == txs[awaiting[t]].to # running

GiveUp_Never(t) ==
  /\ pc[t] = "poll key" /\ ~ Found(t)
  /\ Fault
  /\ Fails(t)
  /\ Elsewhere /\ UNCHANGED txs

GiveUp(t) ==
  /\ pc[t] \in {"poll key", "poll signature"} /\ ~ Found(t)
  /\ IF Hopeless(t) \/ faults = MaxFaults THEN UNCHANGED faults ELSE Fault
  /\ Fails(t)
  /\ Elsewhere /\ UNCHANGED txs

(* A poll, like every call to the proxy and to the chain, waits as long as *)
(* the other side keeps the connection open: nothing sets a deadline.      *)
Hangs(t) ==
  /\ pc[t] \notin {"idle", "failed", "passed", "hung"}
  /\ Goes(t, "hung") /\ Reset(t)
  /\ Elsewhere /\ UNCHANGED <<txs, faults>>

(* A kill, or a call to the chain or the proxy that fails. *)
Interrupted(t) ==
  /\ pc[t] \notin {"idle", "failed", "passed"} /\ Fault
  /\ Fails(t)
  /\ Elsewhere /\ UNCHANGED txs

Step(t) ==
  \/ SetExtensionIdRefused(t) \/ SetExtensionId(t) \/ ExtensionIdSet(t)
  \/ FetchInfo(t)
  \/ SendUpdateKey(t) \/ InstructionMined(t, "updateKey", "poll key")
  \/ UpdateKeyResult(t)
  \/ SendSign(t) \/ InstructionMined(t, "sign", "poll signature")
  \/ SignResult(t)
  \/ GiveUp(t)

Next ==
  \/ Mine \/ Execute \/ StartStack \/ RestartExtension \/ PostBuild
  \/ AnotherMachine
  \/ \E t \in Tests : Begin(t) \/ Step(t) \/ Hangs(t) \/ Interrupted(t)

Spec == Init /\ [][Next]_vars

(* The chain mines; a test whose calls return goes on.  No machine is      *)
(* assumed to execute anything, and no call to return: a test may hang.    *)
FairSpec == Spec /\ WF_vars(Mine) /\ \A t \in Tests : WF_vars(Step(t))

-----------------------------------------------------------------------------
TypeOK ==
  /\ deployed \in Deployments
  /\ bound \in BOOLEAN /\ hasKey \in BOOLEAN
  /\ active \subseteq Identities /\ running \in Identities \cup {None}
  /\ \A i \in DOMAIN txs :
        /\ txs[i].op \in {"setExtensionId", "updateKey", "sign"}
        /\ txs[i].receipt \in {"pending", "ok", "reverted"}
        /\ {txs[i].to, txs[i].message} \subseteq Identities \cup {None}
  /\ DOMAIN results \subseteq {i \in DOMAIN txs : txs[i].op # "setExtensionId"}
  /\ pc \in [Tests -> {"idle", "setExtensionId", "info", "updateKey",
                       "poll key", "sign", "poll signature", "passed", "failed",
                       "hung"}]
  /\ awaiting \in [Tests -> 0 .. Len(txs)]
  /\ ciphertext \in [Tests -> Identities \cup {None}]
  /\ ready \subseteq Tests /\ astray \subseteq Tests
  /\ begun \in 0 .. MaxTests /\ faults \in 0 .. MaxFaults

(* "setExtensionId on the deployed InstructionSender (idempotent)"         *)
(* (run-test/main.go), and the rest of the test besides: with the machine  *)
(* registered, nothing restarted and no poll given up, a test of the Go    *)
(* extension fails only when the registry drew another machine for one of  *)
(* its instructions, however many tests run at once or ran before.  The    *)
(* node may report a revert in any way the tools know; one whose eth_call  *)
(* gives no reason fails the test that was mined second.                   *)
TestsPass ==
  faults = 0 /\ deployed.language = "go" /\ deployed.call # "stripped" =>
    \A t \in ready : pc[t] = "failed" => t \in astray

(* Every test ends, or hangs in a call that the chain or the proxy never   *)
(* answers: no machine and no other test can keep it waiting, as long as   *)
(* transactions are mined.                                                 *)
TestsEnd ==
  \A t \in Tests :
    pc[t] = "setExtensionId" ~> pc[t] \in {"passed", "failed", "hung"}
=============================================================================
