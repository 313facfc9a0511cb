----------------------------- MODULE Registration -----------------------------
(***************************************************************************)
(* Registering a TEE machine on chain: scripts/post-build.sh, which runs   *)
(* allow-tee-version, set-governance and register-tee, and register-tee    *)
(* run by hand, with or without -resume.  register-tee walks through the   *)
(* steps r, R, a and p of RegisterNode and keeps a state file of those it  *)
(* has done.  Around it: the chain, which mines the deployer's             *)
(* transactions in the order of their nonces, perhaps long after the tool  *)
(* gave up waiting for one; the FTDC network, which proves availability    *)
(* checks; the reward epochs.                                              *)
(*                                                                         *)
(* A transaction is named by its place in txs, and so is the instruction   *)
(* it emits.                                                               *)
(*                                                                         *)
(* A definition named Op_Bug is Op with a bug the code might have had.  No *)
(* action uses it.                                                         *)
(***************************************************************************)
EXTENDS Naturals, Sequences

CONSTANTS
  Machines,     (* the TEEs an operator registers, one after the other     *)
  Commands,     (* the sets of steps -command may name                     *)
  Environments, (* GOVERNANCE_SIGNERS and GOVERNANCE_THRESHOLD, as read    *)
  NodeEnv,      (* those the TEE node was started with                     *)
  DefaultOwner, (* INITIAL_OWNER, or the deployer when it is not set       *)
  NoFile,       (* there is no state file                                  *)
  Torn,         (* a state file that does not parse                        *)
  None,
  MaxEpoch,     (* bound on the reward epochs                              *)
  MaxFaults     (* bound on crashes, failed calls, expiries, impatience,   *)
                (* unusual runs and changes of epoch together              *)

Steps == {"r", "R", "a", "p"}

ASSUME RegistrationAssumption ==
  /\ Commands \subseteq SUBSET Steps
  /\ Environments \subseteq [signers : Seq(STRING), threshold : Nat]
  /\ NodeEnv \in Environments
  /\ MaxEpoch \in Nat /\ MaxFaults \in Nat

VARIABLES
  (* The chain and the FTDC network. *)
  txs,         (* the deployer's transactions, by nonce                     *)
  machines,    (* GetTeeMachineStatus of each machine                       *)
  version,     (* the extension supports the code hash and platform         *)
  governance,  (* the governance set for the extension, or None             *)
  spent,       (* attestations whose challenge was used or has expired      *)
  proofs,      (* availability checks the network has proved                *)
  rejected,    (* availability checks it has rejected                       *)
  epoch,       (* getCurrentRewardEpochId                                   *)
  policy,      (* LastSigningPolicyID of the FTDC proxy                     *)
  (* The tools. *)
  file,        (* register-tee.state                                        *)
  run,         (* the run under way: its machine, flags and environment     *)
  pc,          (* where it is, or "idle"                                    *)
  awaiting,    (* the transaction CheckTx waits for, 0 when there is none   *)
  state,       (* RegisterNode's copy of the state file                     *)
  attest,      (* teeAttestInstructionID                                    *)
  check,       (* instructionID                                             *)
  outcome,     (* the last run that succeeded, or None                      *)
  faults

chain == <<txs, machines, version, governance, spent, proofs, rejected,
           epoch, policy>>

vars == <<txs, machines, version, governance, spent, proofs, rejected,
          epoch, policy, file, run, pc, awaiting, state, attest, check,
          outcome, faults>>

local == <<run, state, attest, check>>

NoState == [steps |-> {}, attest |-> 0, check |-> 0]

NoRun == [machine |-> None, command |-> {}, resume |-> FALSE,
          instruction |-> 0, env |-> NodeEnv, first |-> 0, loaded |-> {}]

Init ==
  /\ txs = <<>> /\ machines = [m \in Machines |-> "NONE"]
  /\ version = FALSE /\ governance = None
  /\ spent = {} /\ proofs = {} /\ rejected = {}
  /\ epoch = 0 /\ policy = 0
  /\ file = NoFile /\ run = NoRun /\ pc = "idle" /\ awaiting = 0
  /\ state = NoState /\ attest = 0 /\ check = 0
  /\ outcome = None /\ faults = 0

Fault == faults < MaxFaults /\ faults' = faults + 1

-----------------------------------------------------------------------------
(* The governance a tool makes of the environment: the owner alone when no *)
(* signer is named, a threshold of 1 when it is unset, 0 or no number.     *)
Governance(env) ==
  [signers |-> IF env.signers = <<>> THEN <<DefaultOwner>> ELSE env.signers,
   threshold |-> IF env.threshold = 0 THEN 1 ELSE env.threshold]

GovernanceValid(g) == g.threshold \in 1 .. Len(g.signers)

IsAttestation(i) ==
  /\ i \in DOMAIN txs
  /\ txs[i].kind \in {"register", "attest"} /\ txs[i].receipt = "ok"

(* What the contracts accept, as the comments and diagnostics of the tools *)
(* describe it: a version once, a machine once and only with the allowed   *)
(* code and the governance of its node, a challenge once and in time, a    *)
(* proof only for a machine that is initialized.                           *)
Accepts(kind, m, arg) ==
  CASE kind = "version"      -> version = FALSE
    [] kind = "governance"   -> TRUE
    [] kind = "register"     -> /\ machines[m] = "NONE" /\ version = TRUE
                                /\ governance = Governance(NodeEnv)
    [] kind = "attest"       -> machines[m] # "NONE"
    [] kind = "check"        -> /\ IsAttestation(arg) /\ txs[arg].machine = m
                                /\ arg \notin spent
    [] kind = "toProduction" -> machines[m] = "INITIALIZED" /\ arg \in proofs

Status(kind) == IF kind = "register" THEN "INITIALIZED" ELSE "PRODUCTION"

(* The next transaction by nonce is mined, and reverts if by now the       *)
(* contracts do not accept it.                                             *)
Mine ==
  \E i \in DOMAIN txs :
    /\ txs[i].receipt = "pending"
    /\ \A j \in 1 .. i - 1 : txs[j].receipt # "pending"
    /\ LET tx == txs[i]
           ok == Accepts(tx.kind, tx.machine, tx.arg)
           does(kinds) == ok /\ tx.kind \in kinds
       IN
       /\ txs' = [txs EXCEPT ![i].receipt = IF ok THEN "ok" ELSE "reverted"]
       /\ version' = (version \/ does({"version"}))
       /\ governance' = IF does({"governance"}) THEN tx.arg ELSE governance
       /\ machines' = IF does({"register", "toProduction"})
                      THEN [machines EXCEPT ![tx.machine] = Status(tx.kind)]
                      ELSE machines
       /\ spent' = IF does({"check"}) THEN spent \cup {tx.arg} ELSE spent
    /\ UNCHANGED <<proofs, rejected, epoch, policy, file, run, pc, awaiting,
                   state, attest, check, outcome, faults>>

ChallengeExpires ==
  /\ Fault
  /\ \E i \in DOMAIN txs :
        /\ IsAttestation(i) /\ i \notin spent
        /\ spent' = spent \cup {i}
  /\ UNCHANGED <<txs, machines, version, governance, proofs, rejected, epoch,
                 policy, file, run, pc, awaiting, state, attest, check,
                 outcome>>

InSync_Exact == policy = epoch

(* policyInSync: the proxy may be one epoch ahead. *)
InSync == policy = epoch \/ policy = epoch + 1

IsOpenCheck(i) ==
  /\ txs[i].kind = "check" /\ txs[i].receipt = "ok"
  /\ i \notin proofs \cup rejected

(* The data providers cosign a check when the proxy's policy is in sync    *)
(* with the epoch, and answer 404 "no round" when it is not.               *)
Cosign ==
  /\ \E i \in DOMAIN txs :
        /\ IsOpenCheck(i)
        /\ \/ InSync /\ proofs' = proofs \cup {i} /\ UNCHANGED rejected
           \/ ~ InSync /\ rejected' = rejected \cup {i} /\ UNCHANGED proofs
  /\ UNCHANGED <<txs, machines, version, governance, spent, epoch, policy,
                 file, run, pc, awaiting, state, attest, check, outcome,
                 faults>>

EpochAdvances ==
  /\ Fault
  /\ epoch < MaxEpoch /\ epoch' = epoch + 1
  /\ UNCHANGED <<txs, machines, version, governance, spent, proofs, rejected,
                 policy, file, run, pc, awaiting, state, attest, check,
                 outcome>>

(* A policy is initialized before its epoch starts. *)
ProxyAdvances ==
  /\ policy <= epoch /\ policy' = policy + 1
  /\ UNCHANGED <<txs, machines, version, governance, spent, proofs, rejected,
                 epoch, file, run, pc, awaiting, state, attest, check,
                 outcome, faults>>

-----------------------------------------------------------------------------
(* How the tools run.                                                      *)

Fails_KeepsWaiting ==
  /\ pc' = "idle" /\ run' = NoRun
  /\ state' = NoState /\ attest' = 0 /\ check' = 0
  /\ UNCHANGED <<outcome, awaiting>>

(* The process ends with an error: what it held in memory is gone. *)
Fails ==
  /\ pc' = "idle" /\ awaiting' = 0 /\ run' = NoRun
  /\ state' = NoState /\ attest' = 0 /\ check' = 0
  /\ UNCHANGED outcome

(* Send a transaction and wait for it; what the node's gas estimate says   *)
(* would revert is not sent, and ends the run.                             *)
Submit(m, kind, arg) ==
  \/ /\ Accepts(kind, m, arg)
     /\ txs' = Append(txs, [kind |-> kind, machine |-> m, arg |-> arg,
                            receipt |-> "pending"])
     /\ awaiting' = Len(txs) + 1
     /\ UNCHANGED <<local, pc, outcome>>
  \/ /\ ~ Accepts(kind, m, arg)
     /\ Fails
     /\ UNCHANGED txs

At(where) == pc = where /\ awaiting = 0

Mined_WithoutWaiting(where) == pc = where /\ awaiting # 0

(* CheckTx returns the receipt. *)
Mined(where) == pc = where /\ awaiting # 0 /\ txs[awaiting].receipt = "ok"

(* CheckTx returns an error: the transaction reverted, or two minutes have *)
(* passed and it may still be mined.                                       *)
CheckTxFails ==
  /\ awaiting # 0
  /\ \/ txs[awaiting].receipt = "reverted" /\ UNCHANGED faults
     \/ txs[awaiting].receipt = "pending" /\ Fault
  /\ Fails
  /\ UNCHANGED <<chain, file>>

(* A kill, a crash, or any call to the chain or a proxy that fails. *)
Interrupted ==
  /\ pc # "idle" /\ Fault
  /\ Fails
  /\ UNCHANGED <<chain, file>>

Goto(where) == pc' = where /\ UNCHANGED awaiting

Unsent == UNCHANGED chain

Sent == UNCHANGED <<machines, version, governance, spent, proofs, rejected,
                    epoch, policy>>

(* The usual run is post-build.sh with the node's own environment, for a   *)
(* machine not in production.  The others are counted with the faults, and *)
(* so is one started while the proxy is out of sync.                       *)
Begins(where, usual) ==
  /\ pc = "idle" /\ pc' = where
  /\ IF usual /\ InSync THEN UNCHANGED faults ELSE Fault
  /\ UNCHANGED <<chain, file, awaiting, state, attest, check, outcome>>

(* scripts/post-build.sh. *)
PostBuild(m, env) ==
  /\ Begins("version", env = NodeEnv /\ machines[m] # "PRODUCTION")
  /\ run' = [machine |-> m, command |-> Steps, resume |-> FALSE,
             instruction |-> 0, env |-> env, first |-> Len(txs) + 1,
             loaded |-> {}]

(* register-tee by hand. *)
StartRegisterTee(m, resume) ==
  \E command \in Commands :
    \E i \in IF "a" \in command THEN {0} ELSE DOMAIN txs :
      /\ Begins("start", FALSE)
      /\ run' = [machine |-> m, command |-> command, resume |-> resume,
                 instruction |-> i, env |-> NodeEnv, first |-> Len(txs) + 1,
                 loaded |-> {}]

-----------------------------------------------------------------------------
(* allow-tee-version first asks whether the version is there.              *)
AllowTeeVersion ==
  /\ At("version")
  /\ Goto(IF version THEN "governance" ELSE "addVersion")
  /\ Unsent /\ UNCHANGED <<file, local, outcome, faults>>

(* AddTeeVersion.  The transaction of an earlier run may have been mined   *)
(* since the look: an error whose text says VersionAlreadyExists is        *)
(* passed over, any other one ends the run.                                *)
AddTeeVersion ==
  /\ At("addVersion")
  /\ \/ Submit(run.machine, "version", 0) /\ Sent
     \/ /\ version = TRUE
        /\ Goto("governance")
        /\ Unsent /\ UNCHANGED <<local, outcome>>
  /\ UNCHANGED <<file, faults>>

TeeVersionAllowed ==
  /\ Mined("addVersion")
  /\ pc' = "governance" /\ awaiting' = 0
  /\ UNCHANGED <<chain, file, local, outcome, faults>>

GovernanceIsSet(g) == governance = g

(* set-governance and SetTeeGovernance.  A failed read of the current hash *)
(* is as one that differs: the governance is set again.                    *)
SetTeeGovernance ==
  LET g == Governance(run.env) IN
  /\ At("governance")
  /\ \/ /\ ~ GovernanceValid(g)
        /\ Fails
        /\ Unsent /\ UNCHANGED faults
     \/ /\ GovernanceValid(g) /\ GovernanceIsSet(g)
        /\ Goto("start")
        /\ Unsent /\ UNCHANGED <<local, outcome, faults>>
     \/ /\ GovernanceValid(g)
        /\ IF GovernanceIsSet(g) THEN Fault ELSE UNCHANGED faults
        /\ Submit(run.machine, "governance", g)
        /\ Sent
  /\ UNCHANGED file

TeeGovernanceSet ==
  /\ Mined("governance")
  /\ pc' = "start" /\ awaiting' = 0
  /\ UNCHANGED <<chain, file, local, outcome, faults>>

-----------------------------------------------------------------------------
(* register-tee without -resume removes the state file; if it cannot, it   *)
(* warns and goes on.                                                      *)
RemoveStale ==
  \/ run.resume = TRUE /\ UNCHANGED <<file, faults>>
  \/ run.resume = FALSE /\ file' = NoFile /\ UNCHANGED faults
  \/ run.resume = FALSE /\ file # NoFile /\ UNCHANGED file /\ Fault

RegisterTeeStarts ==
  /\ At("start") /\ pc' = "load"
  /\ RemoveStale
  /\ UNCHANGED <<chain, local, awaiting, outcome>>

(* RegisterNode: loadState. *)
LoadState ==
  /\ At("load")
  /\ \/ /\ file = Torn
        /\ Fails
     \/ LET loaded == IF file = NoFile THEN NoState ELSE file IN
        /\ file # Torn
        /\ state' = loaded
        /\ run' = [run EXCEPT !.loaded = loaded.steps]
        /\ Goto("r")
        /\ UNCHANGED <<attest, check, outcome>>
  /\ UNCHANGED <<chain, file, faults>>

Wanted(step) == step \in run.command
Done(step) == step \in state.steps

(* saveState.  A write that fails only warns; a crash inside it leaves     *)
(* what does not parse, for os.WriteFile truncates first.                  *)
SaveState(s) ==
  \/ file' = s /\ UNCHANGED faults
  \/ UNCHANGED file /\ Fault

CrashInSave ==
  /\ \E step \in {"r", "R", "request"} : Mined(step)
  /\ Fault
  /\ file' = Torn
  /\ Fails
  /\ UNCHANGED chain

(* An attestation step already done, or not asked for. *)
SkipAttestation(step, next) ==
  /\ At(step) /\ (Done(step) \/ ~ Wanted(step))
  /\ attest' = IF Wanted(step) THEN state.attest ELSE attest
  /\ Goto(next)
  /\ UNCHANGED <<chain, file, run, state, check, outcome, faults>>

AttestationMined(step, next) ==
  LET s == [state EXCEPT !.steps = @ \cup {step}, !.attest = awaiting] IN
  /\ Mined(step)
  /\ state' = s /\ attest' = awaiting
  /\ SaveState(s)
  /\ pc' = next /\ awaiting' = 0
  /\ UNCHANGED <<chain, run, check, outcome>>

KnownMachine == machines[run.machine] # "NONE"

StepR_KeepsOldAttestation ==
  /\ At("r") /\ Wanted("r") /\ ~ Done("r")
  /\ \/ /\ KnownMachine
        /\ attest' = CHOOSE i \in DOMAIN txs :
                        IsAttestation(i) /\ txs[i].machine = run.machine
        /\ Goto("R")
        /\ Unsent /\ UNCHANGED <<run, state, check, outcome>>
     \/ ~ KnownMachine /\ Submit(run.machine, "register", 0) /\ Sent
  /\ UNCHANGED <<file, faults>>

(* Step r: a machine already registered is only attested afresh.  If its   *)
(* record cannot be read it is taken for unregistered.                     *)
StepR ==
  /\ At("r") /\ Wanted("r") /\ ~ Done("r")
  /\ \/ KnownMachine /\ Submit(run.machine, "attest", 0) /\ UNCHANGED faults
     \/ ~ KnownMachine /\ Submit(run.machine, "register", 0) /\ UNCHANGED faults
     \/ KnownMachine /\ Submit(run.machine, "register", 0) /\ Fault
  /\ Sent /\ UNCHANGED file

(* Step R: RequestTeeAttestation, whatever r did. *)
StepReattest ==
  /\ At("R") /\ Wanted("R") /\ ~ Done("R")
  /\ Submit(run.machine, "attest", 0)
  /\ Sent /\ UNCHANGED <<file, faults>>

-----------------------------------------------------------------------------
(* Step a done before, or not asked for: then -i names the instruction. *)
SkipCheck ==
  /\ At("a") /\ (Done("a") \/ ~ Wanted("a"))
  /\ check' = IF Wanted("a") THEN state.check ELSE run.instruction
  /\ Goto("p")
  /\ UNCHANGED <<chain, file, run, state, attest, outcome, faults>>

(* CheckFTDCProxyPolicyConsistency: only a mismatch it has read stops it. *)
CheckPolicy ==
  /\ At("a") /\ Wanted("a") /\ ~ Done("a")
  /\ \/ /\ IF InSync THEN UNCHANGED faults ELSE Fault
        /\ Goto("request")
        /\ UNCHANGED <<local, outcome>>
     \/ /\ ~ InSync
        /\ Fails
        /\ UNCHANGED faults
  /\ UNCHANGED <<chain, file>>

(* Step a: RequestFTDCAvailabilityCheck. *)
RequestCheck ==
  /\ At("request")
  /\ Submit(run.machine, "check", attest)
  /\ Sent /\ UNCHANGED <<file, faults>>

CheckMined ==
  LET s == [state EXCEPT !.steps = @ \cup {"a"}, !.check = awaiting] IN
  /\ Mined("request")
  /\ state' = s /\ check' = awaiting
  /\ SaveState(s)
  /\ pc' = "p" /\ awaiting' = 0
  /\ UNCHANGED <<chain, run, attest, outcome>>

-----------------------------------------------------------------------------
(* RegisterNode returns nil.  The removal of the state file may fail, in   *)
(* silence.                                                                *)
Finishes ==
  /\ pc' = "idle" /\ awaiting' = 0
  /\ outcome' = [machine |-> run.machine, command |-> run.command,
                 loaded |-> run.loaded]
  /\ run' = NoRun /\ state' = NoState /\ attest' = 0 /\ check' = 0
  /\ \/ file' = NoFile /\ UNCHANGED faults
     \/ file # NoFile /\ UNCHANGED file /\ Fault

NoProductionWanted ==
  /\ At("p") /\ ~ Wanted("p")
  /\ Finishes
  /\ UNCHANGED chain

(* GetFTDCAvailabilityCheckResult polls ActionResult 15 times. *)
FetchProof ==
  /\ At("p") /\ Wanted("p")
  /\ \/ /\ check \in proofs
        /\ Goto("production")
        /\ UNCHANGED <<local, outcome, faults>>
     \/ /\ check \notin proofs
        /\ IF check \in DOMAIN txs /\ IsOpenCheck(check) THEN Fault
           ELSE UNCHANGED faults
        /\ Fails
  /\ UNCHANGED <<chain, file>>

(* The machine the proof is about, not the one this run registers. *)
Proved == txs[check].machine

AlreadyInProduction_WrongStatus ==
  /\ At("production")
  /\ machines[Proved] = "INITIALIZED"
  /\ Finishes
  /\ UNCHANGED chain

(* ToProduction, when the status says there is nothing left to do. *)
AlreadyInProduction ==
  /\ At("production")
  /\ machines[Proved] = "PRODUCTION"
  /\ Finishes
  /\ UNCHANGED chain

(* ToProduction otherwise, or when the status cannot be read. *)
ToProduction ==
  /\ At("production")
  /\ IF machines[Proved] = "PRODUCTION" THEN Fault ELSE UNCHANGED faults
  /\ Submit(Proved, "toProduction", check)
  /\ Sent /\ UNCHANGED file

ProductionMined ==
  /\ Mined("production")
  /\ Finishes
  /\ UNCHANGED chain

-----------------------------------------------------------------------------
RegisterTee ==
  \/ RegisterTeeStarts \/ LoadState
  \/ SkipAttestation("r", "R") \/ StepR \/ AttestationMined("r", "R")
  \/ SkipAttestation("R", "a") \/ StepReattest \/ AttestationMined("R", "a")
  \/ SkipCheck \/ CheckPolicy \/ RequestCheck \/ CheckMined
  \/ NoProductionWanted \/ FetchProof \/ AlreadyInProduction
  \/ ToProduction \/ ProductionMined

Tools ==
  \/ AllowTeeVersion \/ AddTeeVersion \/ TeeVersionAllowed
  \/ SetTeeGovernance \/ TeeGovernanceSet
  \/ RegisterTee \/ CheckTxFails \/ Interrupted \/ CrashInSave

World == Mine \/ ChallengeExpires \/ Cosign \/ EpochAdvances \/ ProxyAdvances

Next ==
  \/ World
  \/ \E m \in Machines, env \in Environments : PostBuild(m, env)
  \/ \E m \in Machines, resume \in BOOLEAN : StartRegisterTee(m, resume)
  \/ Tools

Spec == Init /\ [][Next]_vars

(* Transactions are mined, the network decides, the proxy catches up, a    *)
(* process that can run runs.  Nothing is assumed about faults, but that   *)
(* they are at most MaxFaults.                                             *)
Progress ==
  WF_vars(Mine) /\ WF_vars(Cosign) /\ WF_vars(ProxyAdvances) /\ WF_vars(Tools)

(* For each machine, an operator runs post-build.sh again and again.       *)
FairSpec ==
  Spec /\ Progress /\ \A m \in Machines : SF_vars(PostBuild(m, NodeEnv))

-----------------------------------------------------------------------------
(* Type invariant. *)
Kinds == {"version", "governance", "register", "attest", "check",
          "toProduction"}

Governances == {Governance(env) : env \in Environments}

States == [steps : SUBSET (Steps \ {"p"}), attest : Nat, check : Nat]

TypeOK ==
  /\ \A i \in DOMAIN txs :
        /\ txs[i].kind \in Kinds /\ txs[i].machine \in Machines
        /\ txs[i].arg \in IF txs[i].kind = "governance" THEN Governances ELSE Nat
        /\ txs[i].receipt \in {"pending", "ok", "reverted"}
  /\ machines \in [Machines -> {"NONE", "INITIALIZED", "PRODUCTION"}]
  /\ version \in BOOLEAN /\ (governance = None \/ governance \in Governances)
  /\ spent \subseteq DOMAIN txs
  /\ proofs \subseteq DOMAIN txs /\ rejected \subseteq DOMAIN txs
  /\ epoch \in 0 .. MaxEpoch /\ policy \in 0 .. MaxEpoch + 1
  /\ file \in {NoFile, Torn} \/ file \in States
  /\ state \in States
  /\ pc \in {"idle", "version", "addVersion", "governance", "start", "load",
             "r", "R", "a", "request", "p", "production"}
  /\ awaiting \in 0 .. Len(txs)
  /\ attest \in 0 .. Len(txs) /\ check \in 0 .. Len(txs)
  /\ (pc = "idle") => (run = NoRun /\ awaiting = 0)
  /\ faults \in 0 .. MaxFaults

(* "request a FRESH attestation to get a valid challenge" (registration.go) *)
(* : a run that resumes nothing asks for its availability check with an    *)
(* attestation of its own machine, requested since it began, whatever      *)
(* earlier runs left on the chain or in the mempool.                       *)
FreshRunsAttestAfresh ==
  /\ pc \in {"a", "request"}
  /\ run.loaded = {} /\ run.command \cap {"r", "R"} # {}
  => /\ attest >= run.first /\ IsAttestation(attest)
     /\ txs[attest].machine = run.machine

(* Where the state file says a step is done, it was done: the instruction  *)
(* it names was mined and accepted.  What a resumed run skips has happened,*)
(* even when runs died between sending, waiting and saving.                *)
FileTellsTruth ==
  file \notin {NoFile, Torn} =>
    /\ file.steps \cap {"r", "R"} # {} => IsAttestation(file.attest)
    /\ "a" \in file.steps => /\ txs[file.check].kind = "check"
                             /\ txs[file.check].receipt = "ok"

(* A whole run that resumes nothing and reports success leaves its machine *)
(* in production, also when it found the work already done.  A run that    *)
(* resumes may not: the state file names no machine, and step p puts the   *)
(* machine into production that the proof is about.                        *)
SuccessMeansProduction ==
  outcome # None =>
    (outcome.loaded = {} /\ {"a", "p"} \subseteq outcome.command
       => machines[outcome.machine] = "PRODUCTION")

Registered == \A m \in Machines : machines[m] = "PRODUCTION"

(* Run post-build.sh again until it succeeds: whatever was lost, late,     *)
(* expired or half done before, and whenever the epoch changed, each       *)
(* machine gets into production.  This takes an operator who does not      *)
(* resume: a rejected check, a spent challenge or a torn file would be     *)
(* found again by each resumed run.                                        *)
RetriesReachProduction == <>Registered
=============================================================================
