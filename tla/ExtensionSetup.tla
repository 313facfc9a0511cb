----------------------------- MODULE ExtensionSetup -----------------------------
(***************************************************************************)
(* Setting an extension up: scripts/pre-build.sh, which runs               *)
(* deploy-contract and register-extension and writes config/extension.env; *)
(* register-extension by hand; the services started from that file; the    *)
(* machine registered from them (module Registration has the details); the *)
(* binding of the InstructionSender that run-test makes; and what          *)
(* check-tee-state says of all this.                                       *)
(*                                                                         *)
(* Contracts and extensions are numbered in the order they were made: an   *)
(* id i stands for FIRST_PUBLIC_EXTENSION_ID + i - 1, and 0 for none.       *)
(*                                                                         *)
(* A definition named Op_Bug is Op with a bug the code might have had.  No *)
(* action uses it.                                                         *)
(***************************************************************************)
EXTENDS Naturals, Sequences

CONSTANTS
  MaxForced, (* bound on the runs of pre-build.sh --force                  *)
  MaxByHand, (* bound on the runs of register-extension by hand            *)
  NoConfig,  (* there is no config/extension.env                           *)
  Torn,      (* it has no EXTENSION_ID line: its writer was killed         *)
  MaxFaults  (* bound on these, crashes, failed calls, impatience, pauses  *)

ASSUME SetupAssumption ==
  /\ MaxForced \in Nat /\ MaxByHand \in Nat /\ MaxFaults \in Nat

VARIABLES
  txs,         (* the deployer's transactions, by nonce                      *)
  extensions,  (* the registry: each extension's sender and permissions      *)
  senders,     (* the InstructionSenders deployed: _extensionId of each      *)
  record,      (* the on-chain record of the TEE that runs                   *)
  node,        (* the extension id the TEE was started with                  *)
  config,      (* config/extension.env                                       *)
  run,         (* the run under way: its script, sender and extension        *)
  pc,          (* where it is, or "idle"                                     *)
  awaiting,    (* the transaction it waits for, 0 when there is none         *)
  forced,      (* the runs with --force so far                               *)
  byHand,      (* the runs by hand so far                                    *)
  faults

vars == <<txs, extensions, senders, record, node, config, run, pc, awaiting,
          forced, byHand, faults>>

odd == <<forced, byHand>>

world == <<extensions, senders, record, node>>

NoRecord == [extension |-> 0, status |-> "NONE"]

NoRun == [script |-> "none", sender |-> 0, extension |-> 0]

Init ==
  /\ txs = <<>> /\ extensions = <<>> /\ senders = <<>>
  /\ record = NoRecord /\ node = 0
  /\ config = NoConfig
  /\ run = NoRun /\ pc = "idle" /\ awaiting = 0
  /\ forced = 0 /\ byHand = 0 /\ faults = 0

Fault == faults < MaxFaults /\ faults' = faults + 1

-----------------------------------------------------------------------------
(* The chain.                                                              *)

Permissions == {"machineOwners", "projectOwners", "keyType"}

(* InstructionSender.setExtensionId: the first extension that names it. *)
FirstNaming(s) ==
  IF \E e \in DOMAIN extensions : extensions[e].sender = s
  THEN CHOOSE e \in DOMAIN extensions :
         /\ extensions[e].sender = s
         /\ \A d \in 1 .. e - 1 : extensions[d].sender # s
  ELSE 0

(* setExtensionId reverts when it was called before or finds nothing. *)
Accepts(kind, arg) ==
  kind = "setExtensionId" => senders[arg] = 0 /\ FirstNaming(arg) # 0

(* The next transaction by nonce is mined.  The registry may allow some of *)
(* what the tool would ask for by itself: the tool looks before it asks.   *)
Mine ==
  \E i \in DOMAIN txs, granted \in {{}, {"machineOwners", "keyType"}} :
    LET tx == txs[i]
        ok == Accepts(tx.kind, tx.arg)
    IN
    /\ tx.receipt = "pending"
    /\ \A j \in 1 .. i - 1 : txs[j].receipt # "pending"
    /\ txs' = [txs EXCEPT ![i].receipt = IF ok THEN "ok" ELSE "reverted",
                          ![i].logs = CASE tx.kind = "deploy" -> Len(senders) + 1
                                        [] tx.kind = "register" -> Len(extensions) + 1
                                        [] OTHER -> 0]
    /\ senders' =
         CASE tx.kind = "deploy" -> Append(senders, 0)
           [] tx.kind = "setExtensionId" /\ ok ->
                [senders EXCEPT ![tx.arg] = FirstNaming(tx.arg)]
           [] OTHER -> senders
    /\ extensions' =
         CASE tx.kind = "register" ->
                Append(extensions, [sender |-> tx.arg, allowed |-> granted])
           [] tx.kind \in Permissions ->
                [extensions EXCEPT ![tx.arg].allowed = @ \cup {tx.kind}]
           [] OTHER -> extensions
    /\ UNCHANGED <<record, node, config, run, pc, awaiting, faults, odd>>

-----------------------------------------------------------------------------
(* How the tools run.                                                      *)

Submit(kind, arg) ==
  /\ txs' = Append(txs, [kind |-> kind, arg |-> arg, receipt |-> "pending",
                         logs |-> 0])
  /\ awaiting' = Len(txs) + 1

At(where) == pc = where /\ awaiting = 0

(* CheckTx, or WaitMined, returns a receipt that is no failure. *)
Mined(where) == pc = where /\ awaiting # 0 /\ txs[awaiting].receipt = "ok"

(* The process ends, with an error or because it is done. *)
Ends == pc' = "idle" /\ awaiting' = 0 /\ run' = NoRun

(* An error from CheckTx or DeployInstructionSender: two minutes have      *)
(* passed.  SetExtensionId waits for ever, and fails only for a revert,    *)
(* which run-test takes for an id already set or dies of.                  *)
WaitFails ==
  /\ awaiting # 0
  /\ \/ txs[awaiting].receipt = "reverted" /\ UNCHANGED faults
     \/ txs[awaiting].receipt = "pending" /\ pc # "bind" /\ Fault
  /\ Ends
  /\ UNCHANGED <<txs, world, config, odd>>

Interrupted_WritesFile ==
  /\ run.script = "pre-build" /\ Fault
  /\ config' = [extension |-> run.extension, sender |-> run.sender]
  /\ Ends
  /\ UNCHANGED <<txs, world, odd>>

(* A kill, or a call to the chain that fails. *)
Interrupted ==
  /\ pc # "idle" /\ Fault
  /\ Ends
  /\ UNCHANGED <<txs, world, config, odd>>

Begins(script, sender, where) ==
  /\ pc = "idle" /\ pc' = where
  /\ run' = [NoRun EXCEPT !.script = script, !.sender = sender]
  /\ UNCHANGED <<txs, world, config, awaiting>>

(* grep -q "^EXTENSION_ID=" config/extension.env *)
HasExtension == config \notin {NoConfig, Torn}

PreBuild_FileExists ==
  /\ config = NoConfig
  /\ Begins("pre-build", 0, "deploy")
  /\ UNCHANGED <<odd, faults>>

PreBuild_NoGuard ==
  /\ Begins("pre-build", 0, "deploy")
  /\ UNCHANGED <<odd, faults>>

(* pre-build.sh: reuses the extension it has ... *)
PreBuild ==
  /\ ~ HasExtension
  /\ Begins("pre-build", 0, "deploy")
  /\ UNCHANGED <<odd, faults>>

(* ... unless forced. *)
PreBuildForced ==
  /\ HasExtension /\ forced < MaxForced
  /\ forced' = forced + 1 /\ Fault
  /\ Begins("pre-build", 0, "deploy")
  /\ UNCHANGED byHand

(* register-extension by hand, for a sender that has code. *)
RegisterByHand ==
  /\ byHand < MaxByHand /\ byHand' = byHand + 1 /\ Fault
  /\ \E s \in DOMAIN senders : Begins("by hand", s, "register")
  /\ UNCHANGED forced

DeployContract_ReusesLast ==
  /\ At("deploy")
  /\ IF senders = <<>>
     THEN Submit("deploy", 0) /\ UNCHANGED <<run, pc>>
     ELSE /\ run' = [run EXCEPT !.sender = Len(senders)]
          /\ pc' = "register" /\ UNCHANGED <<txs, awaiting>>
  /\ UNCHANGED <<world, config, faults, odd>>

(* deploy-contract: always a new InstructionSender. *)
DeployContract ==
  /\ At("deploy")
  /\ Submit("deploy", 0)
  /\ UNCHANGED <<world, config, run, pc, faults, odd>>

ContractDeployed ==
  /\ Mined("deploy")
  /\ run' = [run EXCEPT !.sender = txs[awaiting].logs]
  /\ pc' = "register" /\ awaiting' = 0
  /\ UNCHANGED <<txs, world, config, faults, odd>>

(* SetupExtension, step 1: always a new extension. *)
RegisterExtension ==
  /\ At("register")
  /\ Submit("register", run.sender)
  /\ UNCHANGED <<world, config, run, pc, faults, odd>>

ExtensionRegistered ==
  /\ Mined("register")
  /\ run' = [run EXCEPT !.extension = txs[awaiting].logs]
  /\ pc' = "machineOwners" /\ awaiting' = 0
  /\ UNCHANGED <<txs, world, config, faults, odd>>

(* Steps 2 to 4. *)
After(step) ==
  CASE step = "machineOwners" -> "projectOwners"
    [] step = "projectOwners" -> "keyType"
    [] step = "keyType" -> "write"

Allowed(step) == step \in extensions[run.extension].allowed

AlreadyAllowed(step) ==
  /\ At(step) /\ Allowed(step)
  /\ pc' = After(step)
  /\ UNCHANGED <<txs, world, config, run, awaiting, faults, odd>>

Allow(step) ==
  /\ At(step) /\ ~ Allowed(step)
  /\ Submit(step, run.extension)
  /\ UNCHANGED <<world, config, run, pc, faults, odd>>

AllowMined_WithoutWaiting(step) ==
  /\ pc = step /\ awaiting # 0
  /\ pc' = After(step) /\ awaiting' = 0
  /\ UNCHANGED <<txs, world, config, run, faults, odd>>

AllowMined(step) ==
  /\ Mined(step)
  /\ pc' = After(step) /\ awaiting' = 0
  /\ UNCHANGED <<txs, world, config, run, faults, odd>>

Written == [extension |-> run.extension, sender |-> run.sender]

(* pre-build.sh writes the file.  One who registered by hand may write it  *)
(* himself from what the tool printed.                                     *)
WriteConfig ==
  /\ At("write")
  /\ \/ config' = Written
     \/ run.script = "by hand" /\ UNCHANGED config
  /\ Ends
  /\ UNCHANGED <<txs, world, faults, odd>>

(* The shell truncates the file before it writes it. *)
CrashInWrite ==
  /\ At("write") /\ run.script = "pre-build"
  /\ Fault
  /\ config' = Torn
  /\ Ends
  /\ UNCHANGED <<txs, world, odd>>

-----------------------------------------------------------------------------
(* What follows pre-build.sh.                                              *)

(* start-services.sh: docker compose up -d --build.  A container whose      *)
(* environment or image changed, or that was down, is made anew, with a    *)
(* new identity unless the TEE keeps its key.                              *)
StartServices ==
  /\ pc = "idle" /\ HasExtension
  /\ node' = config.extension
  /\ record' \in {record, NoRecord}
  /\ UNCHANGED <<txs, extensions, senders, config, run, pc, awaiting, faults, odd>>

(* post-build.sh: the machine is registered with the extension its node    *)
(* reports, for good, if the deployer may own machines of that extension.  *)
RegisterTee ==
  /\ pc = "idle" /\ node # 0
  /\ record = NoRecord
  /\ "machineOwners" \in extensions[node].allowed
  /\ record' = [extension |-> node, status |-> "INITIALIZED"]
  /\ UNCHANGED <<txs, extensions, senders, node, config, run, pc, awaiting,
                 faults, odd>>

ToProduction ==
  /\ pc = "idle" /\ node = record.extension
  /\ record.status \in {"INITIALIZED", "PAUSED"}
  /\ record' = [record EXCEPT !.status = "PRODUCTION"]
  /\ UNCHANGED <<txs, extensions, senders, node, config, run, pc, awaiting,
                 faults, odd>>

Pause ==
  /\ record.status = "PRODUCTION" /\ Fault
  /\ record' = [record EXCEPT !.status = "PAUSED"]
  /\ UNCHANGED <<txs, extensions, senders, node, config, run, pc, awaiting, odd>>

(* run-test's first step: SetExtensionId.  What the node's gas estimate    *)
(* says would revert is not sent.                                          *)
SetExtensionId ==
  /\ pc = "idle" /\ HasExtension
  /\ Accepts("setExtensionId", config.sender)
  /\ Submit("setExtensionId", config.sender)
  /\ pc' = "bind"
  /\ run' = [NoRun EXCEPT !.script = "run-test", !.sender = config.sender]
  /\ UNCHANGED <<world, config, faults, odd>>

ExtensionIdSet ==
  /\ Mined("bind")
  /\ Ends
  /\ UNCHANGED <<txs, world, config, faults, odd>>

-----------------------------------------------------------------------------
SetupTools ==
  \/ DeployContract \/ ContractDeployed
  \/ RegisterExtension \/ ExtensionRegistered
  \/ \E step \in Permissions :
        AlreadyAllowed(step) \/ Allow(step) \/ AllowMined(step)
  \/ WriteConfig \/ CrashInWrite
  \/ ExtensionIdSet
  \/ WaitFails \/ Interrupted

Next ==
  \/ Mine
  \/ PreBuild \/ PreBuildForced \/ RegisterByHand
  \/ SetupTools
  \/ StartServices \/ RegisterTee \/ ToProduction \/ Pause \/ SetExtensionId

Spec == Init /\ [][Next]_vars

(* Transactions are mined, processes run, and the operator goes through    *)
(* full-setup.sh --test again and again.                                   *)
FairSpec ==
  /\ Spec
  /\ WF_vars(Mine) /\ WF_vars(SetupTools)
  /\ SF_vars(PreBuild) /\ SF_vars(StartServices) /\ SF_vars(RegisterTee)
  /\ SF_vars(ToProduction) /\ SF_vars(SetExtensionId)

-----------------------------------------------------------------------------
(* check-tee-state.                                                        *)

(* The sender's extension is not the one of the machine's record. *)
SenderMismatch == senders[config.sender] # record.extension

QuickFix_OfLatest == extensions[Len(extensions)].sender

(* "Quick fix: set INSTRUCTION_SENDER=...": the sender registered for the  *)
(* extension of the TEE.                                                   *)
QuickFix == extensions[record.extension].sender

(* What test.sh needs: the sender's extension has this TEE in its active   *)
(* set.                                                                    *)
Reaches(s) == senders[s] = record.extension /\ record.status = "PRODUCTION"

-----------------------------------------------------------------------------
(* Type invariant.  Ids name what exists. *)
Ids(seq) == 0 .. Len(seq)

TypeOK ==
  /\ \A i \in DOMAIN txs :
        /\ txs[i].kind \in {"deploy", "register", "setExtensionId"} \cup Permissions
        /\ txs[i].arg \in Ids(senders) \cup Ids(extensions)
        /\ txs[i].receipt \in {"pending", "ok", "reverted"}
  /\ \A e \in DOMAIN extensions : /\ extensions[e].sender \in DOMAIN senders
                                  /\ extensions[e].allowed \subseteq Permissions
  /\ \A s \in DOMAIN senders : senders[s] \in Ids(extensions)
  /\ record.extension \in Ids(extensions)
  /\ record.status \in {"NONE", "INITIALIZED", "PRODUCTION", "PAUSED"}
  /\ node \in Ids(extensions)
  /\ HasExtension => /\ config.extension \in DOMAIN extensions
                     /\ config.sender \in DOMAIN senders
  /\ run.script \in {"none", "pre-build", "by hand", "run-test"}
  /\ run.sender \in Ids(senders) /\ run.extension \in Ids(extensions)
  /\ pc \in {"idle", "deploy", "register", "write", "bind"} \cup Permissions
  /\ awaiting \in 0 .. Len(txs)
  /\ forced \in 0 .. MaxForced /\ byHand \in 0 .. MaxByHand
  /\ faults \in 0 .. MaxFaults

(* What config/extension.env names was set up to the end, and belongs      *)
(* together: no run that died half way, and no transaction mined after its *)
(* tool gave up, leaves a file that names a half made extension.           *)
ConfigIsSetUp ==
  HasExtension => /\ extensions[config.extension].sender = config.sender
                  /\ extensions[config.extension].allowed = Permissions

(* setExtensionId takes the first extension that names the sender: that is *)
(* the one in config/extension.env, however many extensions earlier runs   *)
(* of pre-build.sh left behind, forced or not.                             *)
BoundAsConfigured ==
  (HasExtension /\ byHand = 0) =>
                  /\ FirstNaming(config.sender) = config.extension
                  /\ senders[config.sender] \in {0, config.extension}

(* "the idempotent default is to REUSE the existing extension"             *)
(* (pre-build.sh): without --force a registered machine stays the machine  *)
(* of the extension in the file, and its sender is or will be bound to it. *)
NeverOrphaned ==
  (record # NoRecord /\ odd = <<0, 0>>) =>
    /\ HasExtension
    /\ config.extension = record.extension /\ node = record.extension
    /\ FirstNaming(config.sender) = record.extension

(* "Quick fix: set INSTRUCTION_SENDER=... (this is the sender registered   *)
(* against the TEE's ext ...)" (check-tee-state/main.go): when --force has  *)
(* left the machine with an extension that is not the one in the file,     *)
(* instructions sent through that sender reach the machine's extension,    *)
(* now or once it is bound.  One that register-extension by hand has named *)
(* for two extensions is bound to the first, for good: then the fix fails. *)
QuickFixWorks ==
  (HasExtension /\ record # NoRecord /\ byHand = 0) =>
    (SenderMismatch /\ QuickFix # config.sender =>
       \/ senders[QuickFix] = record.extension
       \/ senders[QuickFix] = 0 /\ FirstNaming(QuickFix) = record.extension)

(* Run full-setup.sh --test again until it succeeds, never with --force or *)
(* anything by hand: whatever half made extensions the failures leave,     *)
(* instructions get to the TEE.                                            *)
EventuallyReached ==
  <>(odd # <<0, 0>> \/ (HasExtension /\ Reaches(config.sender)))
=============================================================================
