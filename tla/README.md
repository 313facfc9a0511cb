# CipherSign: formal model

CipherSign keeps a signing key inside a trusted execution environment (TEE) on
Flare and signs payment intents only if a policy, also kept inside, permits
them. This directory models the system in TLA+, checks it on small instances
with TLC, and proves theorems about it with TLAPS. Paths below are relative to
the repository.

## 1. Inventory

| Part | State | Operations |
|---|---|---|
| **TEE vault extension, TypeScript** `tee/typescript/src/` | `privateKey`, `policy` (`app/handlers.ts`), the promise chain `handlerQueue` (`base/server.ts`) | `POST /action` with UPDATE, SET_POLICY or SIGN; `GET /state` |
| **TEE vault extension, Go** `tee/go/internal/` | `privateKey`, a mutex | UPDATE and SIGN only; it keeps no policy |
| **TEE node and proxy** (not in the repository) | the machine's identity and decryption key; the queue of instructions and their results | `/decrypt` for the extension, `/direct` and `/action/result/{id}` for the UI |
| **InstructionSender contract** `tee/contracts/InstructionSender.sol` | `_extensionId`, bound once | `setExtensionId`, `updateKey`, `setPolicy`, `sign`; each sends to one machine drawn at random |
| **Sponsor API** `api/instruct.js` | none | sends a caller's instruction from the sponsor's account and waits for the receipt |
| **Web vault UI** `web/src/` | the connection, the view shown, the last policy and proof it saw, the activity list, the flag `policyLocking` and the state of the buttons | connect, disconnect, navigate, apply a template, lock rules, approve a payout, try a bad one |
| **Registration tools** `tee/go/tools/pkg/fccutils/registration.go` and `policy_consistency.go`, `governance.go` | a state file with the ids of the instructions already sent | pre-register, attest, FTDC availability check, to production; resumable |
| **Extension setup** `fccutils/extension.go`, `tee/scripts/pre-build.sh` and others | `config/extension.env`, the registry on chain | deploy, register the extension, bind its id, write the config |
| **Deployment validation** `tee/go/tools/pkg/validate/` | none; reads the chain, the proxy and the files | a report of passed and failed checks |

How they meet. The UI encodes a policy or an intent and sends it through the
sponsor API, which makes it a transaction of InstructionSender (and encrypts
the key of a key update itself); scripts send straight to the proxy
(`/direct`). The contract asks the registry for a random
machine of the extension and emits an instruction for it. The proxy hands the
instruction to the TEE node, which forwards it as `POST /action` to the
extension on the same machine and publishes the result; for a key update the
extension calls back into the node (`/decrypt`) in the middle of its handler.
The UI polls the proxy for the result.

### What is hard

* **Interleaving.** The extension runs handlers one at a time, but a key update
  waits in the middle for the node. The UI has no such chain: connection
  attempts, locks, approvals, a disconnect and navigation interleave at every
  `await`.
* **Failure.** The key and the policy are lost with the process. A poll can
  time out although the machine answers later; a transaction can be mined
  although the API reports an error; a registration or a setup can stop half
  way and be run again.
* **Boundaries.** Expiry and deadline in the second they name, 0 as "no
  limit", an amount equal to the maximum, an allowlist at its limit.
* **Waiting.** `decryptViaNode` has no timeout. A node that keeps the
  connection open and does not answer stops the chain, `/state` included.

### What makes each part correct

* *Extension*: every signature is permitted by the last accepted policy and
  made with the last accepted key; nothing permitted is refused; state reports
  are current; failures change nothing; answers keep the order of arrival; a
  rejected decryption does not stop the chain.
* *Contract and sponsor API*: the extension id is bound at most once, to an
  extension that names this sender; one user action leads to at most one
  instruction, or the caller learns that there may be two.
* *UI*: at most one lock in flight, its button never stuck; what it announces
  and shows is what the machine did for that click; a key is loaded before a
  payout; no click keeps its button for ever while the services it asks answer it.
* *Registration and setup*: files never claim what did not happen; the config
  names an extension that is complete, and the sender that is bound to it;
  whatever was interrupted, running the scripts again ends with a machine that
  instructions reach.
* *Instructions and the end-to-end test*: tests that run at once do not fail
  each other, and none waits for another.
* *Validation*: a deployment reported good satisfies what the later steps need.

## 2. Plan

| # | Module | Status |
|---|---|---|
| 1 | `VaultData`, `VaultGate`, `VaultExtension`: the TypeScript extension and what it promises | **done**: checked, proved (section 3) |
| 2 | `WebVault`: the UI's asynchronous tasks over its globals, with the machine's answers, timeouts, disconnects | **done**: checked, proved (section 4) |
| 3 | `GoExtension`, `KeyBox`: the mutex server and what it promises | **done**: checked, proved (section 5) |
| 4 | `ExtensionSetup`: `pre-build.sh`, `SetupExtension`, `setExtensionId`, re-runs, and the fix `check-tee-state` proposes | **done**: checked, proved (section 6) |
| 5 | `Registration`: `post-build.sh` and `RegisterNode` with state file, crash, resume, epochs | **done**: checked, proved (section 7) |
| 6 | `Instructions`: the contract's routing, the Go tools that send instructions, `run-test` | **done**: checked, proved (section 8) |
| 7 | `Validation`: `verify-deploy` while the world changes under it | **done**: checked, proved (section 9) |

## 3. The extension: modules

* `VaultData.tla`: the payloads, what a valid policy is (`ValidPolicies`) and
  what a policy permits (`Allows`). Keys, addresses and messages are elements
  of constant sets. A payload that the hex or ABI decoder rejects is
  `Undecodable`; an absent message is `Empty`.
* `VaultExtension.tla`: the program. `privateKey` and `policy` are the globals
  of `handlers.ts`; `handlerQueue` holds every request chained since the
  process started, `started` how many of their handlers have begun, `results`
  what each got, and `decrypting` the key update that awaits the node. Settled
  requests stay in the queue so that properties can speak of the past; no
  action reads them.
* `VaultGate.tla`: what the extension promises. An atomic vault with a log of
  answers: no queue, no await, no error texts.
* `MCVaultExtension.tla`: payload sets for TLC.
* `VaultExtensionProofs.tla`: the theorems, the refinement last.

| Action | Code |
|---|---|
| `Receive` | `server.ts` `processAction`, `processState` up to the chaining; replies 400, 405 and 501 come before it and change nothing |
| `HandleKeyUpdate` | `handlers.ts` `handleKeyUpdate` up to the `await` |
| `DecryptResolves` | the rest of it, after the node returned bytes |
| `DecryptRejects` | `decryptViaNode` rejecting: error status, unreadable body, broken connection |
| `HandleSetPolicy` | `handleSetPolicy`, its checks in `PolicyVerdict` in the order of the early returns |
| `HandleKeySign` | `handleKeySign`, its checks in `SignVerdict`; the clock is read in the same step because there is no `await` |
| `ReportState` | `reportState` run by the chain |
| `Crash`, `Restart` | the process dies at any moment, by itself (a message that is JSON `null` ends in an unhandled rejection) or not; `docker-compose.yaml` `restart: on-failure` |
| `Tick` | `Date.now()` in whole seconds; it starts at 1 because the time is never 0, the value that means "no limit" |

Definitions named `Op_Bug` (`Crash_KeepsPolicy`) are `Op` with a bug the code
might have had. No action uses them. Substituted for `Op`, each makes TLC find
a property violated, which shows that the property notices such a bug.

### Properties

| Property | Says |
|---|---|
| `TypeOK` | types; the stored policy passes every check of `handleSetPolicy` |
| `SignaturesAuthorized` | a signature was permitted, at the time of the answer, by the last policy accepted before its request, and made with the last key accepted before it |
| `RefusalsJustified` | the converse: a refused SIGN was not permitted |
| `ReportsCurrent` | `GET /state` shows what the requests before it left |
| `AnswersInOrder` | no answer overtakes an earlier request |
| `ErrorsChangeNothing` | a step that answers with an error changes neither key nor policy |
| `EveryRequestAnswered` | if the node keeps settling the decryptions, every request is answered unless the process dies first |
| `ImplementsGate` | the extension is a `VaultGate` |

"Before" is the order of arrival: the properties look at the queue and the
results, never at the handlers' variables, and so say what a client can expect
who knows only what was sent and answered.

### Runs

| Run | Bounds | Why they are enough |
|---|---|---|
| `extension_wide` | 1 key, 5 policies, 3 intents, bad payloads of every kind, 4 requests, allowlist limit 2, clock up to 2 | every early return fires; limits below, at and above the clock; a key, a policy, a second policy or key and a SIGN fit in a queue of 4; an allowlist of 3 exceeds the limit |
| `extension_deep` | 2 keys, 2 policies, 1 intent, 4 requests, `FairSpec` | rotation of key and policy around a SIGN, with the await and a crash anywhere; a request behind several key updates |

`MaxRequests` bounds the requests between two restarts, `MaxTime` the clock;
the number of crashes is not bounded. Deadlock is checked: the model can always
crash or restart.

**Fairness.** Weak fairness of `Handle` (the event loop runs the next link of
the chain once the previous promise resolved) and of `Restart` (the container
runtime). None for the node's answers: the code sets no timeout, so
`EveryRequestAnswered` assumes them in its antecedent instead, and without that
assumption it does not hold.

### Proofs

`TypeCorrect` shows `TypeOK` inductive. The safety properties are not: that a
signature is permitted by what was accepted before it says nothing of what the
variables `privateKey` and `policy` hold now. The inductive invariant

    IInv == TypeOK /\ ChainInv /\ MemoryInv /\ AnswersInv

adds that the only request begun and not answered is the last one begun, a key
update (`ChainInv`), and that `privateKey` and `policy` are exactly what the
last accepted requests among the finished ones carried (`MemoryInv`).
`AnswersInv` is the conjunction of the three properties on answers. Every action that answers is
reduced to one shape, `Settles(n, r)` (request `n`, the next one, gets `r`),
and the lemmas `SettleStep`, `MemoryStep` and `AnswerStable` treat that shape
once. From `[]IInv` follow `SignaturesAreAuthorized`, `RefusalsAreJustified`,
`ReportsAreCurrent` and `AnsweredInOrder`; `ErrorsLeaveMemory` follows from
`TypeCorrect` alone.

`ExtensionImplementsGate` is the refinement: the log of the gate is `AnswerLog`,
the finished requests with their answers. A step that settles a request appends
one entry (`LogStep`) and is a `Serve` of the gate; receiving a request and
sending a ciphertext to the node are stutters; a crash is `Forget`.

The proofs assume only `DataAssumption` and `BoundAssumption`: policies and
intents have the fields they have, the special payloads are none of the
ordinary ones, the bounds are natural numbers. TLC evaluates both assumptions
in every run. The number of keys, addresses, payloads, requests and the length
of the clock are arbitrary.

`EveryRequestAnswered` is model-checked only: liveness under fairness is beyond
the proof system.

## 4. The web UI: module

`WebVault.tla` is the page with what it talks to. Its variables are the globals
of `main.ts`, one entry of `tasks` for each click on Lock or Approve with the
`await` it is at (`step`), the requests the sponsor API works on (`calls`), the
mined `instructions` with the machine's `answers`, and what the machine holds.
The number of an instruction stands for its id and its transaction, so `proof`
and `receipt` can say whose signature and whose transaction they show. The
machine is the vault of section 3 reduced to what the page can tell apart: rules
and payouts are values related by `Permits`, and time is left out. There is one
machine. The registry may draw another one of the extension for an instruction
(`InstructionSender.sol` 64); that machine's result is kept by its own proxy,
which the page does not ask, so for the page this is an instruction that is never
executed, and the model has those. What the other machine then holds is not
modelled. Two history
variables are read by properties only: `restartedAt` and `reopened`.

| Action | Code (`web/src/main.ts` unless named) |
|---|---|
| `Connect`, `ConnectFails`, `Connected` | `connectVault` before and after `probeVault` |
| `Disconnect` | `disconnectVault`, also called by a failed approval |
| `Navigate`, `ApplyScenario` | `showView`, `applyScenario` |
| `Reload` | the page is loaded again: `initVault` |
| `Lock`, `Approve` | the click handlers up to their first request |
| `KeySent`, `KeyLoaded`, `KeyRefused` | `ensureVaultKeyLoaded` |
| `Sent` | the sponsor API replied to setPolicy or sign |
| `LockAnswered` | the rest of the Lock handler, its finally block included |
| `ProofShown`, `ProofVerified` | `showProof` before and after `verifyApproval`, then the rest of the Approve handler |
| `PayoutBlocked` | a refused payout |
| `CallFails`, `PollFails` | catch and finally blocks, after an error of `api/instruct.js` or of `fcc.ts` `pollActionResult`; whether `humanizeError`'s title starts with "Vault", which also disconnects, is a choice |
| `Hangs` | a `fetch` of the sponsor API or of `pollActionResult` that is never answered: neither has an `AbortSignal` |
| `Mine` | the transaction of `api/instruct.js` is mined, perhaps after an error |
| `Execute` | `handlers.ts` on the machine; instructions may be executed in any order |
| `MachineRestarts` | the machine loses key and policy |

### Properties

| Property | Says |
|---|---|
| `TypeOK` | types; an activity entry names a mined instruction; the machine holds acceptable rules |
| `AppNeedsVault` | nothing but the landing page without a connection, though attempts overlap |
| `LockNeverStuck` | `policyLocking` is set only while a lock is under way |
| `LocksExclude` | at most one lock under way, unless Rules was opened meanwhile. `showView` then clears the flag the lock still holds, so the condition is necessary |
| `ShowsWhatHappened` | rules, payouts and refusals announced are the machine's answers to that click; rules and signature on display were accepted |
| `KeyLoadedFirst` | a payout lacks a key only if the machine restarted after the click |
| `TasksEnd` | every click is eventually over, whatever the machine does, unless one of its fetches hangs |

Three properties state what a document or the page promises, and do not hold:

| Property | How it fails |
|---|---|
| `ReceiptNamesItsTransaction` | `showProof` awaits `verifyApproval`, then builds the receipt from `lastTxHash`. Another approval, a lock or a disconnect in between leaves the receipt with another payout's transaction or none |
| `TransactionsListed` | a poll times out; the catch block lists the error without the transaction it knew |
| `PayoutsFollowShownRules` | a lock times out on the page and is executed after the next lock was answered: the page shows the second rules, the machine enforces the first. One click at a time suffices |

### Runs

| Run | Bounds | Why they are enough |
|---|---|---|
| `web_two` | 2 clicks, 1 connection attempt at a time, rules the machine accepts and rules it refuses, 1 payout (refused when the machine has lost key or rules), `FairSpec` | every pair of overlapping tasks with everything else at any moment; liveness of each while the other interferes or hangs |
| `web_three` | 3 clicks, 2 connection attempts at once, payouts the rules permit and forbid, one session (`OneSession`: no disconnect or restart once there is a click, no connection attempt under way once there are two) | an attempt that fails after another opened the application, also during a click; a lock followed by two overlapping approvals, or two locks and an approval |
| `web_receipt`, `web_listed`, `web_shown` | 3, 1 and 3 clicks; `web_shown` one at a time (`OneAtATime`) | one counterexample each |

`MaxTasks` bounds the clicks of a behaviour, `MaxProbes` the connection attempts
under way; disconnects, reloads, navigation and restarts are not bounded.

**Fairness.** Weak fairness of each task's next step, but not of a task whose
fetch hangs: `pollActionResult` (`fcc.ts` 106-107) looks at its time between two
fetches only and the request to `/api/instruct` has no limit either, so a service
that takes a request and stays silent keeps the click for ever (`Hangs`, which
may happen to any task that awaits a service). A poll whose fetches return ends
by its own clock, a verification by computing. None of `Mine`, `Execute` or the
user.

### Proofs

`WebVaultProofs.tla` and `WebScreenProofs.tla` prove all six safety properties
for any number of clicks, connection attempts, rules and payouts, from
`WebAssumption` alone. `TypeOK` is not inductive: that a task shows an answer it
can show depends on what it sent before. The invariant

    IInv == TypeOK /\ ChainInv /\ TaskInv

adds that nothing is sent that no click asked for and no key twice
(`ChainInv`), and that a task awaits its key while its own instruction does not
exist yet, and then that instruction (`TaskInv`). Each step of a task has one of
a few shapes (it moves on, it ends, the page is reloaded, a click adds a task),
and each shape is treated once (`MoveKeeps`, `ReloadKeeps`, `ClickKeeps`,
`MineKeeps`, `ExecuteKeeps`).

On it rest three smaller invariants. `LockInv`: unless Rules was opened
meanwhile, the flag `policyLocking` is set exactly while a lock is under way;
from it follow `LockNeverStuck` and `LocksExclude`. `KeyInv`: once a click got
its key accepted or its payout sent, the machine holds a key or restarted after
the click; from it follows `KeyLoadedFirst`. `ShowsWhatHappened` follows because
an answer given stays (`Stable`), so what was true when it was announced still
is. `AppNeedsVault` is inductive by itself.

`TasksEnd` is model-checked only, being liveness; so are the three properties
that do not hold.

## 5. The Go extension

`tee/docker-compose.yaml` builds the Go extension by default. `GoExtension.tla`
is its HTTP server with one goroutine per request. `inbox` holds the requests
received since boot, `replies` what each was answered, `mu` the request that
keeps the mutex across the node's decryption (a handler that does not call the
node takes and releases the mutex in one step), `locked` the requests that took
it, in that order. The order of arrival and the order of the mutex differ:
that is what sets this server apart from the TypeScript one. `KeyBox.tla` says
what it promises.

| Action | Code (`tee/go/internal/` unless named) |
|---|---|
| `Boot` | `tee/go/cmd/docker/main.go`; a server that cannot listen leaves the process running and deaf |
| `ReceiveAction`, `ReceiveMalformed`, `ReceiveState` | `base/server.go` up to the mutex: method, body, JSON and hex refused with 400, no handler with 501 (`Lookup`) |
| `HandleKeyUpdate` | `app/handlers.go` `handleKeyUpdate` up to the call of the node |
| `DecryptFails`, `Decrypts` | the rest of it; `ParseKey` is `app/crypto.go` `parseSecp256k1PrivateKey`, which reduces modulo the order |
| `HandleKeySign`, `HandleState` | `handleKeySign` and the state report |
| `Exit`, `Restart` | a signal or a crash; `restart: on-failure` |

| Property | Says |
|---|---|
| `TypeOK` | types; a stored key is a nonzero scalar |
| `ReadsLastInstalled` | a signature or a report uses the key of the last successful update that took the mutex before it |
| `IsKeyBox` | however goroutines interleave and wherever the process dies, the server is a box that serves one request at a time |
| `AnsweredIfNodeAnswers` | while decryptions keep ending, every waiting request is answered or lost with the process |

Two limits of this extension are in the model and are no promise it could
break: it has no policy, so it signs any message once a key is stored
(`README.md` says that every payout is checked inside the enclave; that is the
TypeScript extension), and `PrivKeyFromBytes` reduces a key at or above the
curve's order where `crypto_test.go` expects an error, so another key than the
one sent is installed (`Scalar`).

| Run | Bounds | Why they are enough |
|---|---|---|
| `go_box` | 16 kinds of request, 3 between two restarts, a group of order 5, keys of at most 2 bytes, `FairSpec` | plaintexts that are empty, zero, below, at, above the order and too long; all early returns; two updates and a reader, a reader overtaking an update that arrived first, a request waiting behind two updates |

**Fairness.** Strong fairness of each request's turn: Go's `sync.Mutex`, in
starvation mode, is handed to the goroutine that waited longest. Nothing is
assumed of the node: `http.DefaultClient` has no timeout, so a decryption may
hang with the mutex held, and `AnsweredIfNodeAnswers` has that assumption in its
antecedent.

### Proofs

`GoExtensionProofs.tla` proves `TypeOK` inductive by itself: `ParseKey` yields
`None` or a scalar between 1 and `Order - 1`. `ReadsLastInstalled` is not
inductive, as it says nothing of what `privateKey` holds now. The invariant

    IInv == TypeOK /\ LockInv /\ KeyInv /\ ReadsLastInstalled

adds that of the requests that took the mutex only the last may be unanswered,
and that it is then the key update that holds it (`LockInv`), and that
`privateKey` is what the answers in the order of the mutex made of it
(`KeyInv`). `KeyInv` also says that before each request either no key was
installed or some request was the last to install one: that follows by
induction on the position, which the provers cannot do, so it is carried along
from step to step instead.

Every step is one of three kinds. An answer has the shape `Settles(i, r)`:
request `i`, alone in the mutex, gets `r`; `SettleStep` treats it once for all
handlers. Arrivals and the first half of a key update leave the answers and
what came before them as they were (`Kept`, `QuietStep`, `KeptKey`). An exit
forgets everything (`EmptyInv`).

`ExtensionImplementsBox` says that the server implements `KeyBox`: a step of
the first kind appends one entry to the box's log (`GiveStep`) and is its
`Install`, `Sign`, `Report` or `Refuse`; one of the second kind is a stutter;
an exit is `Forget`. Nothing is assumed but `ExtensionAssumption`: the order
is a natural number above 1 and the inputs are requests. `AnsweredIfNodeAnswers`
is model-checked only.

## 6. Extension setup

`ExtensionSetup.tla`: contracts (`senders`) and extensions are numbered in the
order they were made; `config` is `config/extension.env`; `txs` holds the
deployer's transactions by nonce, so a transaction whose tool gave up may still
be mined, before any later one. `record` is the on-chain record of the TEE that
runs and `node` the extension it was started with.

| Action | Code (`tee/`) |
|---|---|
| `PreBuild`, `PreBuildForced`, `WriteConfig`, `CrashInWrite` | `scripts/pre-build.sh`: the test for an existing `EXTENSION_ID`, `--force`, the write of the file |
| `DeployContract`, `ContractDeployed` | `tools/cmd/deploy-contract`, `DeployInstructionSender` |
| `RegisterByHand`, `RegisterExtension`, `ExtensionRegistered`, `AlreadyAllowed`, `Allow`, `AllowMined` | `tools/cmd/register-extension`, `pkg/fccutils/extension.go` `SetupExtension`, steps 1 to 4 |
| `StartServices` | `scripts/start-services.sh`; `docker compose up -d --build` may make the containers anew, with the same config too: the TEE keeps its identity or gets another |
| `RegisterTee`, `ToProduction`, `Pause` | section 7 in three steps, and an operator's pause |
| `SetExtensionId`, `ExtensionIdSet` | `contracts/InstructionSender.sol` `setExtensionId` and the tool that calls it |
| `Mine` | the chain, by nonce; the registry may grant some permissions by itself |
| `WaitFails`, `Interrupted` | the two minutes of `CheckTx` are over, a revert, a kill, a failed call |

| Property | Says |
|---|---|
| `TypeOK` | types; every id names something that exists |
| `ConfigIsSetUp` | the extension in the file has the sender in the file and all permissions, wherever runs died |
| `BoundAsConfigured` | `setExtensionId` binds the sender in the file to the extension in the file, however many extensions earlier runs left behind, unless `register-extension` was run by hand |
| `NeverOrphaned` | without `--force` or runs by hand, a registered machine stays the machine of the extension in the file |
| `EventuallyReached` | whoever goes through the setup again and again, without `--force`, ends with a sender whose instructions reach the TEE |
| `QuickFixWorks` | the sender `check-tee-state` suggests is, or will be, bound to the TEE's extension, unless one was registered by hand |

The conditions on runs by hand are necessary: naming one sender for two
extensions binds it, for good, to the first, and the quick fix for a TEE of the
second then does not help.

The rest of the verdict of `check-tee-state` is a printout and is not modelled. It
says less than its header promises ("says exactly which mismatch"): only the two
ids and the statuses that `toProduction` refuses enter it, so of a machine that
is INITIALIZED or PAUSED, which no instruction reaches, it says that all is
consistent and that the active set "was emptied for a non-status reason"
(`main.go` 220); and of a machine in PRODUCTION it says that `toProduction` will
revert.

| Run | Bounds | Why they are enough |
|---|---|---|
| `setup_reruns` | 1 run with `--force`, 1 by hand, 3 faults (those two are among them), `FairSpec` | a complete setup takes 6 transactions; runs may be abandoned in any step before, with their last transaction still to be mined, and a second and a third extension made |

A fault is a kill, a failed call, a transaction its tool stopped waiting for, a
pause, or a run that is not the usual one (`--force`, by hand); `MaxFaults` bounds them, and
nothing else needs a bound: between faults each script runs to its end.
`CHECK_DEADLOCK FALSE`: once the operator's work is done nothing need happen.

**Fairness.** Weak fairness of the chain and of a running tool; strong fairness
of each script of `full-setup.sh --test`, for it is the operator who runs them
again. Nothing is assumed of the faults except that they are at most
`MaxFaults`.

**Proofs.** `ExtensionSetupProofs.tla` proves the five safety properties for any
number of runs, forced runs, runs by hand and faults. The invariant is

    IInv == ChainInv /\ RunType /\ RunInv /\ OnceInv /\ NodeInv

`ChainInv`: what a mined transaction says is so, each extension was registered
by a transaction of its own, and a bound sender is bound to an extension that
names it. `RunInv`: a run waits for a transaction of its own, and what its place
says it has done is done, which gives `ConfigIsSetUp` when it writes the file.
`OnceInv`: as long as nothing was registered by hand, no two registrations, mined
or not, are of the same sender; for this a run that waits for its contract must
know that nobody has registered it. `NodeInv`: without `--force`, the machine,
its record and the file agree, and a setup runs only while there is no file.
`Mine` is cut into its four effects (`Deploys`, `Registers`, `Permits`, `Binds`),
the tools' steps into sending, going on, ending and beginning. With one
registration of each sender, the extension in the file is the only one that names
its sender (`OnlyOne`); `BoundAsConfigured`, `NeverOrphaned` and `QuickFixWorks`
follow. That one of the extensions naming a sender is the
first takes induction, and is carried along in `ChainInv` instead. The proofs
assume that the bounds are natural numbers (`SetupAssumption`).

## 7. Registration

`Registration.tla` walks through `post-build.sh` (`allow-tee-version`,
`set-governance`, `register-tee`) and `register-tee` by hand. `file` is the
state file, `state` the copy `RegisterNode` works on, `attest` and `check` its
two instruction ids, `run` the run's flags and what it loaded. The chain, the
FTDC data providers and their proxy are external; `Accepts` says what their
contracts accept, as the comments and diagnostics of the tools describe it.

| Action | Code (`tee/go/tools/` unless named) |
|---|---|
| `PostBuild`, `StartRegisterTee` | `tee/scripts/post-build.sh`; `cmd/register-tee/main.go`, its flags |
| `AllowTeeVersion`, `AddTeeVersion`, `TeeVersionAllowed` | `cmd/allow-tee-version`: the look, then `AddTeeVersion` and its error, passed over when the version was there after all |
| `SetTeeGovernance`, `TeeGovernanceSet` | `cmd/set-governance`, `pkg/fccutils/governance.go` |
| `RegisterTeeStarts`, `LoadState`, `SaveState`, `CrashInSave` | the removal, reading and writing of the state file |
| `SkipAttestation`, `StepR`, `StepReattest`, `AttestationMined` | `pkg/fccutils/registration.go` `RegisterNode`, steps r and R |
| `SkipCheck`, `CheckPolicy`, `RequestCheck`, `CheckMined` | step a; `policy_consistency.go` |
| `NoProductionWanted`, `FetchProof`, `AlreadyInProduction`, `ToProduction`, `ProductionMined` | step p; the fifteen polls of `ActionResult` |
| `CheckTxFails`, `Interrupted` | `pkg/support` `CheckTx` returning an error; a kill or a failed call anywhere |
| `Mine`, `ChallengeExpires`, `Cosign`, `EpochAdvances`, `ProxyAdvances` | external |

| Property | Says |
|---|---|
| `TypeOK` | types |
| `FreshRunsAttestAfresh` | a run that resumes nothing asks for its check with an attestation of its own machine, requested since it began |
| `FileTellsTruth` | what the state file says was done was mined and accepted |
| `SuccessMeansProduction` | a whole run that resumed nothing and reports success leaves its machine in production |
| `RetriesReachProduction` | `post-build.sh` run again and again gets the machine into production |

These hold of runs that resume nothing. A resumed run gives less: the state
file names no machine, so a run resumed after the TEE was made anew takes the
old machine's instruction and puts that machine, the one the proof is about,
into production before it reports the new one; a rejected check, a spent
challenge or a state file cut short by a crash is met again by every resumed
run; and a file that cannot be removed is resumed without `-resume`. All of this
is in the model, and is why `SuccessMeansProduction` and
`FreshRunsAttestAfresh` name what the run loaded.

| Run | Bounds | Why they are enough |
|---|---|---|
| `registration_runs` | 2 machines, 4 command sets, 3 environments, epochs 0 and 1, 2 faults, `FairSpec` | a second run, of the same machine or the other, meets everything the first left in the file, on the chain and in the mempool; good, foreign and unsatisfiable governance; the epoch changes between the comparison and the registration |

A fault is a kill, a failed call, a transaction its tool stopped waiting for, an
expired challenge, a change of epoch, a run started while the proxy is out of
sync, or a run other than `post-build.sh` of a machine not yet in production;
`MaxFaults` bounds them.
`CHECK_DEADLOCK FALSE`: with every machine in production nothing need happen.

**Fairness.** Weak fairness of mining, of the data providers, of the proxy and
of a running tool; strong fairness of `post-build.sh` for each machine: the
operator starts it again. Nothing is assumed of the faults.

**Proofs.** `RegistrationProofs.tla` proves the four safety properties for any
machines, commands, environments, epochs and faults. The invariant is

    IInv == TypeInv /\ AwaitInv /\ RunInv /\ EndInv

`TypeInv` adds to `TypeOK` the types of the transactions and of a run.
`AwaitInv`: the transaction a run waits for is one of its own, of the kind its
place asks for. `RunInv`: the file, and the copy a run works on, tell the truth;
and a run that loaded nothing carries its fresh attestation from step r or R to
step a, and its own machine's check on to step p (`Afresh`).
`FreshRunsAttestAfresh` and `FileTellsTruth` follow. `EndInv`: an accepted
`toProduction` leaves its machine in production, which no machine leaves
(`ProductionStays`), so what a success said remains so: `SuccessMeansProduction`.
Steps are grouped by shape: those that send (`SendersSend`), those that leave the
run where it is (`Waiting`), those outside `RegisterNode` (`Outside`), and one
lemma for each of the rest. `RegistrationAssumption` is all that is assumed.

## 8. Instructions and the end-to-end test

`Instructions.tla`: several runs of `run-test` (`pc`, `awaiting` and
`ciphertext` of each) against one InstructionSender, a set of `active` machines,
one of which is `running` behind the proxy that the tests ask. `deployed` is
which extension the machines run, and how the RPC node reports a call that
reverts: with the reason in the data of its error, in its text, in the result of
the call, or nowhere. It is chosen once. Two variables are read by properties
only: `ready`, the tests that began when the running machine was registered, and
`astray`, those one of whose instructions another machine drew.

| Action | Code |
|---|---|
| `Begin`, `SetExtensionIdRefused`, `SetExtensionId`, `ExtensionIdSet` | `tools/cmd/run-test/main.go` step 1, `pkg/utils/instructions.go` `SetExtensionId`, `pkg/fccutils` `DecodeRevertReason` and `SimulateAndDecodeRevert` |
| `FetchInfo` | step 2: the machine's public key, from the proxy |
| `SendUpdateKey`, `SendSign`, `InstructionMined` | `SendUpdateKey`, `SendSign`: estimate, send, `WaitMined` without a deadline |
| `UpdateKeyResult`, `SignResult`, `GiveUp` | `ActionResult`, fifteen polls, and what the test makes of the result |
| `Mine` | `InstructionSender.sol`: the checks of `updateKey` and `sign`, the machine drawn at random |
| `Execute` | a machine executes an instruction meant for it, in any order; the Go extension signs once it has a key, the TypeScript extension never signs for `run-test` |
| `Hangs` | a call to the chain or the proxy that is never answered: `http.Get` of `tee_calls.go` and the calls of the chain have no deadline |
| `AnotherMachine` | a machine of another stack, with a proxy of its own, goes into production for the extension |
| `StartStack`, `RestartExtension`, `PostBuild` | another identity, with the proxy's results lost; the key lost; the running machine registered, besides those registered before |

| Property | Says |
|---|---|
| `TypeOK` | types; a result belongs to an instruction |
| `TestsPass` | Go extension: with the machine registered and nothing restarted, interrupted or given up, a test fails only when another machine drew one of its instructions, however many run at once or ran before, and whichever way the node reports reverts, if it does |
| `TestsEnd` | every test ends, or hangs in a call that is never answered; no machine is assumed to execute anything |

Its conditions are necessary.

* *Language.* `tee/README.md` 54-56 says that the tools work "for **all extension
  languages**". `run-test` does not pass with the TypeScript extension, which
  `tee/.env.example` 7 selects (the default of `docker-compose.yaml` is `go`): it
  sends a SIGN without a policy, with a text that is no payment intent, and
  `handlers.ts` 149-151 and 164-169 refuse both. In the model that test ends in
  "failed", without any fault.
* *Other machines.* Nothing takes an old machine out of production, and machines
  of other stacks may be in it too. An instruction that one of them drew has its
  result at its proxy; the test polls its own until it gives up. So do the tests
  after the restart that `tee/README.md` describes.
* *Reasons.* Of two tests that race for `setExtensionId` the second needs the
  reason of the revert to see that the id is set. A node whose `eth_call` gives
  none fails it.

| Run | Bounds | Why they are enough |
|---|---|---|
| `instructions_tests` | 2 tests at a time, 2 in all, 2 identities, 1 fault, 4 deployments (Go with a node that gives reasons in the data, the result, the text of an error, or hides those of `eth_call`; TypeScript), `FairSpec` | the race for `setExtensionId`, key and signature of two tests interleaved, or one test after the other; a stack replaced, another machine registered, an instruction nobody executes or a call nobody answers at any moment |

`CHECK_DEADLOCK FALSE`: after `MaxTests` tests nothing need happen.

**Fairness.** Weak fairness of mining and of each test's next step, but not of a
test that hangs: its polls are counted, but each waits as long as the proxy keeps
the connection open, so `Hangs` may happen in any of them. None of machines,
operators or faults.

**Proofs.** `InstructionsProofs.tla` proves `TypeOK` and `TestsPass` for any
number of tests, at once and one after another, any identities and any faults.
The invariant is

    IInv == TypeInv /\ TxInv /\ TestInv /\ CalmInv /\ TestsPass

`TypeInv` adds to `TypeOK` that the transactions are a sequence of transactions
and that a result is of the kind of its instruction. `TxInv`: an instruction is
sent only after its gas estimate succeeded, what the estimate asked for (a
bound id, an active machine) is never undone, so no instruction is reverted;
and a `setExtensionId` that was mined, reverted or not, leaves the id bound,
which is why losing the race is no failure. `TestInv`: a test waits for a
transaction, then an instruction, of the kind its place asks for. `CalmInv` is
what holds until the first fault: one machine runs from the first start on,
every key sent is encrypted under its key, the instructions of a test that is not
astray went to it, nothing is asked to be signed before the key is there, and so
every result of the Go extension is a success. Steps of a test that move it on are treated by one lemma
(`MoveKeeps`), those that send by another (`SendKeeps`), those that fail it by a
third (`FailureKeeps`), which is where `TestsPass` is at stake.
`InstructionsAssumption` asks for `MaxFaults` of at least 1: the bound cuts off
restarts, not a test's giving up, which is counted up to the bound and would
with a bound of 0 not be noticed. `TestsEnd` is model-checked only.

## 9. Deployment validation

`Validation.tla` is `verify-deploy` with the checks of `pkg/validate`. `run` is
what the run was given (`given`: whether `-config` names the file; by default it
does not) and has read, `todo` the checks it has yet to make,
`report` its results so far. Each call of the chain node and each reading of
the file is a step, and between two steps extensions are registered, permissions
granted, the file rewritten, services stopped. `missed` is read by a property
only.

| Action | Code (`tee/go/tools/`) |
|---|---|
| `StartVerify`, `Finish` | `cmd/verify-deploy/main.go`: flags, `DefaultSupport` with its loading of `.env`, the filter `--checks`, the exit code |
| `Connect`, `ConnectFails` | `pkg/support` `NewSupport`: the chain id, asked of the node before any check, without a deadline |
| `Deploy`, `TimesOut`, `ReadConfig` | `pkg/validate/checks.go` D1 to D7 |
| `ReadRegistration`, `CheckCounter`, `CheckRegistered`, `CheckUnique` | R1 to R7 |
| `CheckLocally` | S2 to S10, V2 to V6, T1 to T10, E1 to E6 |
| `CallFails` | an error of the node in any check that calls it |
| `RegisterExtension`, `Grant`, `WriteConfig`, `SetKeyInDotEnv`, `Others`, `NodeRecovers` | others meanwhile |

| Property | Says |
|---|---|
| `TypeOK` | types |
| `CleanReportIsTrue` | exit 0 with R2 passed: the extension looked at has this sender, lets this deployer own machines and takes EVM keys, although each was asked in a call of its own |
| `UniqueSenderBinds` | R2 and R7 passed and every call was answered: the sender binds, or is bound, to this extension |
| `ReadersAgree` | with `-config` the five readers of `extension.env` agree about a file nobody rewrote, and its failing is never hidden; without it each result about the file is SKIP, also beside a malformed file |
| `FixIsSeen` | the key that V2 asks for in `.env` is seen by the next run of all steps |
| `ReportEnds` | a run ends whether or not the node answers, unless it asks for the chain id or is in R1 to R7 |

Each has a condition that is necessary. The default `-config ""` makes a run of all
steps say nothing of the file and exit with 0 beside a malformed one. R7 skips an extension whose lookup
failed and reports `PASS` all the same, so the sender may bind elsewhere when a
call went unanswered; the step `tee-version` alone does not load `.env`; and the
chain id and R1 to R7 are asked with `context.Background()`, so that a node that
takes a call and stays silent keeps the run, although `validate.go` calls `rpcTimeout` the timeout for
all RPC calls.

| Run | Bounds | Why they are enough |
|---|---|---|
| `validation_reports` | every step, with `-config` and without, no filter, 1 environment (a public deployment whose key is not set), 6 files, 4 states of the registry's address, 2 senders, 2 extensions, 3 changes or failed calls in all, `FairSpec` | every branch of every check; two extensions with one sender registered before, at and after the id, while R7 counts; register, grant and rewrite between any two checks; a node silent before or in any check, for good or for a while. R7 is one step: the extensions it asks about do not change any more |

Deadlock is checked.

**Fairness.** Weak fairness of `Verify`, the process itself; none of anybody
else.

**Proofs.** `ValidationProofs.tla` proves the five safety properties for any
number of extensions, files, environments and changes meanwhile. Each property
speaks of a report that is finished; what the run has still to do, and what has
changed since it asked, has to be in the invariant:

    IInv == TypeInv /\ TodoInv /\ ReportInv /\ CompleteInv /\ ReadInv /\ ExitInv

`TodoInv`: the checks left are the end of the order of the run's step, so that
"check c is over" is a comparison of lengths (`Left`). `ReportInv`: a result
comes only from a check that is over, and what it says is so (`Backed`). It
stays so because extensions and permissions only grow and because the run's own
records (`id`, `sender`, `counter`) are written only by checks that come before
any result about them. `CompleteInv` is the converse, that a check that is over
has said what it had to: a clean report with R2 in it has R3 and R4 too, and a
malformed file named by `-config` is reported by every reader. `ReadInv`: `.env` was looked at
before the first check of a run of all steps, and a file nobody rewrote is the
one that was read. `ExitInv` ties the exit code to the report. One lemma
(`GoesInv`) treats a check that adds results and goes on, whatever it says; each
check then has only to show that it may say so (`NowInTurn`) and that it is
backed. For `UniqueSenderBinds` R7 has compared all extensions below the
counter, and one registered since comes after it, so the first that names the
sender is this one. The proofs assume `ValidationAssumption`: the constants
have the shapes of files, environments, steps and filters, and the bounds are
natural numbers. That a run without `-config` says nothing of the file is an
invariant of its own, `UnreadInv`: in a run of all steps every result about the
file is SKIP and the registration checks are not entered. `ReportEnds` is
model-checked only.

## 10. Not modelled

Every safety property, action property and refinement that a passing run checks
is also a theorem. The liveness properties (`EveryRequestAnswered`, `TasksEnd`,
`AnsweredIfNodeAnswers`, `EventuallyReached`, `RetriesReachProduction`,
`TestsEnd`, `ReportEnds`) are model-checked only: liveness under fairness and
`ENABLED` are beyond the proof system.

*Components.*

* `audit-deploy` (`tools/cmd/audit-deploy`) and, but for its quick fix,
  `check-tee-state` print what they read from the chain and decide nothing; `pkg/fccutils/diag.go` only words messages; so do the
  report's printing, its JSON and its summary.
* `start-tee`, `start-proxy`, `query-tee`: they start a binary, or print one
  answer, of code that is not in the repository.
* `pkg/contracts/sign/autogen.go` is generated from the contract; `configs.go`,
  `encoding.go`, `ParseAddresses` and the `Set*` calls of `tee_calls.go` are
  configuration and encodings without a state of their own.
* The TEE node, the proxies, the data providers and Flare's registry are not in
  the repository; each module models what its component sees of them.

*Of the components modelled.*

* Cryptography: ECDSA, ECIES and keccak are values that match or do not. That
  `parsePrivateKey` accepts the bytes is membership in `Keys`.
* `signECDSA` and `abiEncodeTwo` throwing (`handlers.ts` 192-204): with a key
  `parsePrivateKey` accepted and bytes the decoder accepted they do not.
* `hexToBytes` does not reject bad digits, it stops at them; what is left either
  decodes to some payload of the set or is `Undecodable`.
* Of the web UI: the form checks that reject input before a click has any
  effect (`Rules` and `Intents` are what passes them), the expected vault
  address and the attestation label, the workspace dialog (the workspace has a
  name), the unconfigured build (`unavailable`), toasts and status lines, the
  fallback to a user's wallet in `chain.ts` (no caller has a wallet) and the
  unused `/direct` path of `fcc.ts`. Verification of an honest machine's
  signature is assumed to succeed: there is one vault key. The end of
  `showProof` and the rest of the Approve handler, one microtask apart, are one
  step. A machine that answers "ok" to a payout without a signature is not
  modelled.
* Other users of the same machine: what the page shows as locked says nothing
  of rules locked by another browser.
* Of the Go tools: hex, ABI and JSON are values that decode or do not. A
  `version` transaction that reverts counts as a failure of its run, for
  `CheckTx` does not decode the custom error that would say the version exists.
  Gas prices, nonces taken by other programs of the same account and chain
  reorganisations are left out.
* Of `verify-deploy`: it is always given its addresses file, and an unknown
  `-step`, which exits with 1 at once, is not among `Steps`. Checks that print
  a warning whatever they find are one status.
* Two runs of the setup or of `register-tee` at the same time, on one machine:
  the scripts are run by one operator, one after the other.
