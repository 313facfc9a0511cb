------------------------------ MODULE WebVault ------------------------------
(***************************************************************************)
(* The web UI of the vault (web/src/main.ts), with what it talks to: the   *)
(* sponsor API (api/instruct.js), which sends an instruction on chain, and *)
(* the machine, which executes it some time later.                         *)
(*                                                                         *)
(* A click on Lock or Approve starts an asynchronous task: it has the key  *)
(* loaded (ensureVaultKeyLoaded), then has its own instruction sent, then  *)
(* polls for the answer.  At every await other tasks, clicks, a disconnect *)
(* or a reload of the page may come in between, and all share the globals  *)
(* of the page.  Time and expiry are VaultExtension's subject; here rules  *)
(* and intents are values, and Permits relates them.                       *)
(*                                                                         *)
(* A definition named Op_Bug is Op with a bug the code might have had.     *)
(***************************************************************************)
EXTENDS Naturals, Sequences, FiniteSets

CONSTANTS
  Rules,       (* the policies the rules form lets through                 *)
  ValidRules,  (* those of them handleSetPolicy accepts                    *)
  Intents,     (* the payouts a user can ask for                           *)
  Permits,     (* the pairs of rules and intent that handleKeySign signs   *)
  None,
  MaxTasks,    (* bound on the clicks on Lock and Approve                  *)
  MaxProbes    (* bound on the connection attempts under way               *)

ASSUME WebAssumption ==
  /\ ValidRules \subseteq Rules
  /\ Permits \subseteq Rules \X Intents
  /\ None \notin Rules
  /\ MaxTasks \in Nat /\ MaxProbes \in Nat \ {0}

VARIABLES
  vaultState,     (* "checking", "live" or "unreachable"                   *)
  pref,           (* localStorage: connect by itself when loaded           *)
  probes,         (* connectVault calls that await probeVault              *)
  view,           (* the view shown                                        *)
  policy,         (* the rules the UI shows as locked, or None             *)
  policyLocking,
  approveButton,  (* trySignBtn: "enabled" or "disabled"                   *)
  proof,          (* lastSig and lastTxHash: whose they are, 0 for none    *)
  receipt,        (* the receipt behind the proof link, NoReceipt if none  *)
  activity,       (* the activity list                                     *)
  tasks,          (* the clicks on Lock and Approve                        *)
  calls,          (* requests the sponsor API still works on               *)
  instructions,   (* the instructions mined, in order                      *)
  answers,        (* what the machine answered to each                     *)
  machineKey,     (* the machine has the vault key                         *)
  machineRules,   (* the policy the machine enforces, or None              *)
  restartedAt,    (* history: the clicks made when the machine restarted   *)
  reopened        (* history: Rules was opened while a lock was under way  *)

session == <<vaultState, pref, probes>>
display == <<view, policy, policyLocking, approveButton, proof, receipt,
             activity, reopened>>
machine == <<machineKey, machineRules, restartedAt>>
chain == <<calls, instructions, answers>>
vars == <<session, display, tasks, chain, machine>>

NoProof == [sig |-> 0, tx |-> 0]
NoReceipt == NoProof

(* A request to the sponsor API, and the instruction it becomes. *)
Instruct(t, op, data) == [task |-> t, op |-> op, data |-> data]

(* ensureVaultKeyLoaded comes first.  The probe of the machine in front of *)
(* an approval never throws and is part of the same wait.                  *)
Click(kind, data) ==
  /\ Len(tasks) < MaxTasks
  /\ tasks' = Append(tasks, [kind |-> kind, data |-> data,
                             step |-> "loadKey", id |-> 0])
  /\ calls' = calls \cup {Instruct(Len(tasks) + 1, "updateKey", None)}

Init ==
  /\ vaultState = "unreachable" /\ pref = FALSE /\ probes = 0
  /\ view = "landing"
  /\ policy = None /\ policyLocking = FALSE /\ approveButton = "disabled"
  /\ proof = NoProof /\ receipt = NoReceipt /\ activity = {}
  /\ tasks = <<>> /\ calls = {}
  /\ instructions = <<>> /\ answers = <<>>
  /\ machineKey = FALSE /\ machineRules = None
  /\ restartedAt = 0 /\ reopened = FALSE

-----------------------------------------------------------------------------
(* Steps of tasks. *)
InFlight(t) == tasks[t].step \notin {"ended", "gone"}

LocksInFlight ==
  {t \in DOMAIN tasks : tasks[t].kind = "lock" /\ InFlight(t)}

Steps(t, step, id) == tasks' = [tasks EXCEPT ![t].step = step, ![t].id = id]

Ends(t) == tasks' = [tasks EXCEPT ![t].step = "ended"]

(* sync: the Approve buttons follow what is shown as locked.  The Lock     *)
(* button follows policyLocking, which its handler tests as well.          *)
Sync ==
  approveButton' = IF vaultState' = "live" /\ policy' # None
                   THEN "enabled" ELSE "disabled"

ResetsLocking(id) == id = "rules"

(* showView: without a connection only the landing page is shown, with one *)
(* never (the workspace has a name).                                       *)
Shown(id) ==
  IF vaultState' # "live" THEN "landing"
  ELSE IF id = "landing" THEN "home" ELSE id

ShowView(id) ==
  /\ view' = Shown(id)
  /\ policyLocking' = IF ResetsLocking(Shown(id)) THEN FALSE ELSE policyLocking
  /\ reopened' = (reopened \/ (Shown(id) = "rules" /\ LocksInFlight # {}))
  /\ Sync

HideProof == proof' = NoProof /\ receipt' = NoReceipt

-----------------------------------------------------------------------------
(* connectVault up to its await.  The landing page's button stays enabled  *)
(* while an attempt is under way.                                          *)
Connect ==
  /\ view = "landing" /\ vaultState # "live" /\ probes < MaxProbes
  /\ vaultState' = "checking" /\ pref' = TRUE /\ probes' = probes + 1
  /\ UNCHANGED <<display, tasks, chain, machine>>

ConnectFails_StaysOnView ==
  /\ probes > 0 /\ probes' = probes - 1
  /\ vaultState' = "unreachable" /\ pref' = FALSE
  /\ UNCHANGED <<display, tasks, chain, machine>>

ConnectFails ==
  /\ probes > 0 /\ probes' = probes - 1
  /\ vaultState' = "unreachable" /\ pref' = FALSE
  /\ UNCHANGED <<policy, proof, receipt, activity, tasks, chain, machine>>
  /\ ShowView("landing")

Connected ==
  /\ probes > 0 /\ probes' = probes - 1
  /\ vaultState' = "live"
  /\ UNCHANGED <<pref, policy, proof, receipt, activity, tasks, chain, machine>>
  /\ ShowView("home")

(* disconnectVault: what is shown goes, what is under way stays. *)
DisconnectVault ==
  /\ vaultState' = "unreachable" /\ pref' = FALSE
  /\ policy' = None
  /\ HideProof
  /\ ShowView("landing")

Disconnect ==
  /\ vaultState = "live"
  /\ DisconnectVault
  /\ UNCHANGED <<probes, activity, tasks, chain, machine>>

Navigate(id) ==
  /\ vaultState = "live"
  /\ UNCHANGED <<session, policy, proof, receipt, activity, tasks, chain,
                 machine>>
  /\ ShowView(id)

(* applyScenario: a template empties what is shown as locked, though not   *)
(* the machine's rules.                                                    *)
ApplyScenario ==
  /\ view = "rules"
  /\ policy' = None
  /\ proof' = [proof EXCEPT !.sig = 0]
  /\ UNCHANGED <<session, view, policyLocking, receipt, activity, reopened,
                 tasks, chain, machine>>
  /\ Sync

(* The page is loaded again: its globals and its tasks are gone, and       *)
(* initVault connects by itself if the user was connected.                 *)
Reload ==
  /\ probes' = IF pref THEN 1 ELSE 0
  /\ vaultState' = IF pref THEN "checking" ELSE "unreachable"
  /\ view' = "landing" /\ policy' = None /\ policyLocking' = FALSE
  /\ approveButton' = "disabled"
  /\ HideProof /\ activity' = {} /\ reopened' = FALSE
  /\ tasks' = [t \in DOMAIN tasks |-> [tasks[t] EXCEPT !.step = "gone"]]
  /\ UNCHANGED <<pref, chain, machine>>

-----------------------------------------------------------------------------
LockFree_Unchecked == TRUE

LockFree == policyLocking = FALSE

(* The click on Lock, with rules the form accepts; others change nothing. *)
Lock(rules) ==
  /\ view = "rules" /\ vaultState = "live" /\ LockFree
  /\ Click("lock", rules)
  /\ policyLocking' = TRUE
  /\ UNCHANGED <<session, view, policy, proof, receipt, activity, reopened,
                 instructions, answers, machine>>
  /\ Sync

(* The click on Approve, or on a button that tries a bad payout.  The      *)
(* button is disabled until the next sync, by whomever.                    *)
Approve(intent) ==
  /\ view = "send" /\ vaultState = "live" /\ policy # None
  /\ approveButton = "enabled"
  /\ Click("approve", intent)
  /\ approveButton' = "disabled"
  /\ UNCHANGED <<session, view, policy, policyLocking, proof, receipt,
                 activity, reopened, instructions, answers, machine>>

Mined_Latest(t, i) == i = Len(instructions)

(* The sponsor API replies with the id of the mined instruction. *)
Mined(t, i) == i \in DOMAIN instructions /\ instructions[i].task = t

KeySent(t) ==
  /\ tasks[t].step = "loadKey"
  /\ \E i \in DOMAIN instructions : Mined(t, i) /\ Steps(t, "pollKey", i)
  /\ UNCHANGED <<session, display, chain, machine>>

KeyAnswer_NotAwaited(t) == TRUE

KeyAnswer(t) == answers[tasks[t].id] = "ok"

(* The machine has the key: the instruction proper goes to the API. *)
KeyLoaded(t) ==
  /\ tasks[t].step = "pollKey" /\ KeyAnswer(t)
  /\ Steps(t, "send", tasks[t].id)
  /\ calls' = calls \cup
       {Instruct(t, IF tasks[t].kind = "lock" THEN "setPolicy" ELSE "sign",
                 tasks[t].data)}
  /\ UNCHANGED <<session, display, instructions, answers, machine>>

Sent(t) ==
  /\ tasks[t].step = "send"
  /\ \E i \in DOMAIN instructions :
        Mined(t, i) /\ i # tasks[t].id /\ Steps(t, "poll", i)
  /\ UNCHANGED <<session, display, chain, machine>>

-----------------------------------------------------------------------------
Announce(title, t) ==
  activity' = activity \cup
    {[title |-> title, data |-> tasks[t].data, id |-> tasks[t].id]}

(* The machine accepted the rules. *)
LockAccepted(t) ==
  /\ policy' = tasks[t].data
  /\ HideProof
  /\ view' = Shown("send")
  /\ Announce("rulesLocked", t)

LockRefused(t) ==
  /\ UNCHANGED <<view, policy, proof, receipt>>
  /\ Announce("lockFailed", t)

LockAnswered(t) ==
  /\ tasks[t].kind = "lock" /\ tasks[t].step = "poll"
  /\ answers[tasks[t].id] # "pending"
  /\ UNCHANGED session
  /\ IF answers[tasks[t].id] = "ok" THEN LockAccepted(t) ELSE LockRefused(t)
  /\ policyLocking' = FALSE
  /\ Ends(t)
  /\ UNCHANGED <<reopened, chain, machine>>
  /\ Sync

(* showProof up to its await: the panel's contents are globals. *)
ProofShown(t) ==
  /\ tasks[t].kind = "approve" /\ tasks[t].step = "poll"
  /\ answers[tasks[t].id] = "ok"
  /\ proof' = [sig |-> tasks[t].id, tx |-> tasks[t].id]
  /\ Steps(t, "verify", tasks[t].id)
  /\ UNCHANGED <<session, view, policy, policyLocking, approveButton, receipt,
                 activity, reopened, chain, machine>>

(* The rest of it: the receipt pairs this task's signature with whatever   *)
(* transaction the panel shows by now.                                     *)
ProofVerified(t) ==
  /\ tasks[t].step = "verify"
  /\ receipt' = [sig |-> tasks[t].id, tx |-> proof.tx]
  /\ Announce("payoutApproved", t)
  /\ Ends(t)
  /\ UNCHANGED <<session, view, policy, policyLocking, proof, reopened, chain,
                 machine>>
  /\ Sync

PayoutBlocked(t) ==
  /\ tasks[t].kind = "approve" /\ tasks[t].step = "poll"
  /\ answers[tasks[t].id] \in {"refused", "noKey"}
  /\ HideProof
  /\ Announce("payoutBlocked", t)
  /\ Ends(t)
  /\ UNCHANGED <<session, view, policy, policyLocking, reopened, chain,
                 machine>>
  /\ Sync

-----------------------------------------------------------------------------
LockThrows_KeepsFlag(t) ==
  /\ tasks[t].kind = "lock"
  /\ UNCHANGED <<session, view, policy, policyLocking, proof, receipt>>
  /\ Sync

(* The catch and finally blocks: an activity entry without a transaction.  *)
LockThrows(t) ==
  /\ tasks[t].kind = "lock"
  /\ policyLocking' = FALSE
  /\ UNCHANGED <<session, view, policy, proof, receipt>>
  /\ Sync

(* An error whose title begins with "Vault" also disconnects. *)
ApproveThrows(t, vaultError) ==
  /\ tasks[t].kind = "approve"
  /\ IF vaultError
     THEN DisconnectVault /\ UNCHANGED probes
     ELSE /\ HideProof
          /\ UNCHANGED <<session, view, policy, policyLocking>>
          /\ Sync

Throws(t, vaultError) ==
  /\ LockThrows(t) \/ ApproveThrows(t, vaultError)
  /\ Ends(t)
  /\ UNCHANGED <<activity, reopened, chain, machine>>

(* The sponsor API reports an error, or cannot be reached; the transaction *)
(* may have been sent, and mined or not.                                   *)
CallFails(t) ==
  /\ tasks[t].step \in {"loadKey", "send"}
  /\ \E vaultError \in BOOLEAN : Throws(t, vaultError)

PollFails_NoTimeout(t) == FALSE

(* pollActionResult gives up, when its time is over and a fetch returns, or *)
(* cannot reach the proxy.                                                 *)
PollFails(t) ==
  /\ tasks[t].step \in {"pollKey", "poll"}
  /\ \E vaultError \in BOOLEAN : Throws(t, vaultError)

KeyRefused(t) ==
  /\ tasks[t].step = "pollKey" /\ answers[tasks[t].id] = "refused"
  /\ \E vaultError \in BOOLEAN : Throws(t, vaultError)

(* The sponsor API or the proxy takes a request and never answers it: the  *)
(* fetch has no AbortSignal, and the time of a poll is looked at between   *)
(* two fetches only.  What the task awaited no longer matters.             *)
Hangs(t) ==
  /\ tasks[t].step \in {"loadKey", "pollKey", "send", "poll"}
  /\ Steps(t, "hung", 0)
  /\ UNCHANGED <<session, display, chain, machine>>

-----------------------------------------------------------------------------
(* The API's transaction is mined, even if nobody waits for it any more.   *)
Mine(c) ==
  /\ calls' = calls \ {c}
  /\ instructions' = Append(instructions, c)
  /\ answers' = Append(answers, "pending")
  /\ UNCHANGED <<session, display, tasks, machine>>

(* What the machine answers to an instruction, and what that changes.  It  *)
(* may fail to decrypt a key.  An instruction that another machine of the  *)
(* extension drew is here one that is never executed: its result is kept   *)
(* by that machine's proxy, which the page does not ask.                   *)
SignAnswer(intent) ==
  IF ~ machineKey THEN "noKey"
  ELSE IF <<machineRules, intent>> \in Permits THEN "ok" ELSE "refused"

PolicyAccepted_Unchecked(rules) == TRUE

PolicyAccepted(rules) == rules \in ValidRules

Execute(i) ==
  LET op == instructions[i].op
      data == instructions[i].data
      Answer(a) == answers' = [answers EXCEPT ![i] = a]
  IN
  /\ answers[i] = "pending"
  /\ \/ /\ op = "updateKey"
        /\ \/ Answer("ok") /\ machineKey' = TRUE
           \/ Answer("refused") /\ UNCHANGED machineKey
        /\ UNCHANGED machineRules
     \/ /\ op = "setPolicy"
        /\ IF PolicyAccepted(data)
           THEN Answer("ok") /\ machineRules' = data
           ELSE Answer("refused") /\ UNCHANGED machineRules
        /\ UNCHANGED machineKey
     \/ /\ op = "sign"
        /\ Answer(SignAnswer(data))
        /\ UNCHANGED <<machineKey, machineRules>>
  /\ UNCHANGED <<session, display, tasks, calls, instructions, restartedAt>>

(* The machine restarts with an empty memory; answers stay at the proxy.   *)
MachineRestarts ==
  /\ machineKey' = FALSE /\ machineRules' = None
  /\ restartedAt' = Len(tasks)
  /\ UNCHANGED <<session, display, tasks, chain>>

-----------------------------------------------------------------------------
(* The activity view does what home does, so home stands for both. *)
Views == {"landing", "home", "rules", "send"}

Resume(t) == KeySent(t) \/ KeyLoaded(t) \/ Sent(t) \/ LockAnswered(t)
             \/ ProofShown(t) \/ PayoutBlocked(t) \/ KeyRefused(t)
             \/ ProofVerified(t) \/ CallFails(t) \/ PollFails(t)

Next ==
  \/ Connect \/ ConnectFails \/ Connected \/ Disconnect
  \/ (\E id \in Views \ {"landing"} : Navigate(id))
  \/ ApplyScenario \/ Reload
  \/ (\E rules \in Rules : Lock(rules))
  \/ (\E intent \in Intents : Approve(intent))
  \/ (\E t \in DOMAIN tasks : Resume(t) \/ Hangs(t))
  \/ (\E c \in calls : Mine(c))
  \/ (\E i \in DOMAIN instructions : Execute(i))
  \/ MachineRestarts

Spec == Init /\ [][Next]_vars

(* A fetch that is not hung returns or throws, and a poll whose fetches do *)
(* ends by its own clock.  Nothing keeps a service from hanging.           *)
FairSpec == Spec /\ \A t \in 1 .. MaxTasks :
                      WF_vars(t \in DOMAIN tasks /\ Resume(t))

-----------------------------------------------------------------------------
Instruction ==
  [task : 1 .. MaxTasks, op : {"updateKey"}, data : {None}]
    \cup [task : 1 .. MaxTasks, op : {"setPolicy"}, data : Rules]
    \cup [task : 1 .. MaxTasks, op : {"sign"}, data : Intents]

StepName ==
  {"loadKey", "pollKey", "send", "poll", "verify", "hung", "ended", "gone"}

TaskType ==
  [kind : {"lock"}, data : Rules, id : Nat, step : StepName]
    \cup [kind : {"approve"}, data : Intents, id : Nat, step : StepName]

Entry ==
  [title : {"rulesLocked", "lockFailed", "payoutApproved", "payoutBlocked"},
   data : Rules \cup Intents, id : Nat]

PageType ==
  /\ vaultState \in {"checking", "live", "unreachable"}
  /\ pref \in BOOLEAN /\ probes \in 0 .. MaxProbes
  /\ view \in Views
  /\ policy \in Rules \cup {None}
  /\ policyLocking \in BOOLEAN
  /\ approveButton \in {"enabled", "disabled"}
  /\ proof \in [sig : Nat, tx : Nat] /\ receipt \in [sig : Nat, tx : Nat]
  /\ activity \subseteq Entry
  /\ reopened \in BOOLEAN

WorkType ==
  /\ \A a \in activity : a.id \in DOMAIN instructions
  /\ tasks \in Seq(TaskType) /\ Len(tasks) <= MaxTasks
  /\ calls \subseteq Instruction
  /\ instructions \in Seq(Instruction)
  /\ answers \in Seq({"pending", "ok", "refused", "noKey"})
  /\ Len(answers) = Len(instructions)
  /\ machineKey \in BOOLEAN /\ machineRules \in ValidRules \cup {None}
  /\ restartedAt \in 0 .. Len(tasks)

(* Types; the rules locked are some the form lets through, the machine's   *)
(* some it accepts, and what is announced names an instruction.            *)
TypeOK == PageType /\ WorkType

(* The rules and payouts are on screen only while the vault is connected,  *)
(* whatever became of overlapping connection attempts.                     *)
AppNeedsVault == view # "landing" => vaultState = "live"

(* sync: "Only disable Lock while a request is in flight, never leave it   *)
(* stuck": policyLocking is set only while some lock is under way.         *)
LockNeverStuck == policyLocking => LocksInFlight # {}

(* Locks exclude each other, except when Rules was opened while one was    *)
(* under way: showView then releases the flag the lock still holds.        *)
LocksExclude == ~ reopened => Cardinality(LocksInFlight) <= 1

Answered(i, op, data) ==
  i \in DOMAIN instructions /\ instructions[i].op = op
  /\ (data = None \/ instructions[i].data = data)

(* What an entry of the activity list says of the machine. *)
Happened(a) ==
  CASE a.title = "rulesLocked" ->
         Answered(a.id, "setPolicy", a.data) /\ answers[a.id] = "ok"
    [] a.title = "payoutApproved" ->
         Answered(a.id, "sign", a.data) /\ answers[a.id] = "ok"
    [] a.title = "lockFailed" ->
         Answered(a.id, "setPolicy", a.data) /\ answers[a.id] = "refused"
    [] a.title = "payoutBlocked" ->
         /\ Answered(a.id, "sign", a.data)
         /\ answers[a.id] \in {"refused", "noKey"}

(* The UI announces and shows only what the machine did: rules and payouts *)
(* announced were accepted by the instruction named beside them, and so    *)
(* were the rules and the signature on display.  The answers reach tasks   *)
(* that overlap, outlive a disconnect or await an older instruction.       *)
ShowsWhatHappened ==
  /\ \A a \in activity : Happened(a)
  /\ policy # None =>
        \E i \in DOMAIN instructions :
           Answered(i, "setPolicy", policy) /\ answers[i] = "ok"
  /\ proof.sig # 0 =>
        Answered(proof.sig, "sign", None) /\ answers[proof.sig] = "ok"

(* The key is loaded before every payout: a payout is refused for want of  *)
(* a key only if the machine restarted after the click.                    *)
KeyLoadedFirst ==
  \A i \in DOMAIN instructions :
     instructions[i].op = "sign" /\ answers[i] = "noKey" =>
        instructions[i].task <= restartedAt

(* Every click is eventually over, so that its button is released, however *)
(* long the machine stays silent; only one of whose fetches never returns  *)
(* is not.                                                                 *)
TasksEnd ==
  \A t \in 1 .. MaxTasks :
     (t \in DOMAIN tasks) ~>
       (t \in DOMAIN tasks /\ (~ InFlight(t) \/ tasks[t].step = "hung"))
-----------------------------------------------------------------------------
(* What the documents promise, and the page does not always keep.          *)

(* "Explorer link for that tx: Required" (docs/PRODUCT.md): a receipt      *)
(* names the transaction of the payout whose signature it shows.           *)
ReceiptNamesItsTransaction == receipt # NoReceipt => receipt.tx = receipt.sig

(* "The app shows a Coston2 explorer transaction for every Lock / Approve" *)
(* (docs/PRODUCTION.md): once a click is over, the activity list names the *)
(* transaction the page knew of.                                           *)
TransactionsListed ==
  \A t \in DOMAIN tasks :
     LET id == tasks[t].id IN
     tasks[t].step = "ended" /\ id # 0 /\ instructions[id].op # "updateKey" =>
        \E a \in activity : a.id = id

(* "Payouts must follow these rules" (the dashboard, below "Locked"): a    *)
(* payout asked for after the rules on display were is announced as        *)
(* approved only if they permit it.                                        *)
PayoutsFollowShownRules ==
  [][\A a \in activity' \ activity :
        a.title = "payoutApproved"
        /\ (\E l \in activity :
              /\ l.title = "rulesLocked" /\ l.data = policy
              /\ instructions[l.id].task < instructions[a.id].task)
        => <<policy, a.data>> \in Permits]_vars
=============================================================================
