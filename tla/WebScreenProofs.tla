--------------------------- MODULE WebScreenProofs ---------------------------
(* Proofs of what the page promises its user, from the invariant of        *)
(* WebVaultProofs.                                                         *)
EXTENDS WebVaultProofs

-----------------------------------------------------------------------------
(* The views.                                                              *)

LEMMA ShowViewNeedsVault ==
  ASSUME NEW id, ShowView(id) PROVE AppNeedsVault'
BY DEF ShowView, Shown, AppNeedsVault

(* Rules and payouts are on screen only while the vault is connected.      *)
THEOREM ViewsNeedVault == Spec => []AppNeedsVault
<1>1. Init => AppNeedsVault
  BY DEF Init, AppNeedsVault
<1>2. AppNeedsVault /\ [Next]_vars => AppNeedsVault'
  <2> SUFFICES ASSUME AppNeedsVault, [Next]_vars PROVE AppNeedsVault'
    OBVIOUS
  <2>1. CASE \E id : ShowView(id)
    BY <2>1, ShowViewNeedsVault
  <2>2. CASE UNCHANGED <<vaultState, view>>
    BY <2>2 DEF AppNeedsVault
  <2>3. CASE Connect \/ Reload
    BY <2>3 DEF Connect, Reload, AppNeedsVault, display
  <2>4. ASSUME NEW t \in DOMAIN tasks, LockAnswered(t) PROVE AppNeedsVault'
    BY <2>4
    DEF LockAnswered, LockAccepted, LockRefused, Shown, AppNeedsVault, session
  <2>5. ASSUME NEW t \in DOMAIN tasks, NEW vaultError, Throws(t, vaultError)
        PROVE  AppNeedsVault'
    BY <2>1, <2>2, <2>5
    DEF Throws, LockThrows, ApproveThrows, DisconnectVault, session
  <2>6. ASSUME NEW t \in DOMAIN tasks, Resume(t) \/ Hangs(t) PROVE AppNeedsVault'
    BY <2>2, <2>4, <2>5, <2>6
    DEF Resume, Hangs, KeySent, KeyLoaded, Sent, ProofShown, PayoutBlocked, KeyRefused,
        ProofVerified, CallFails, PollFails, session, display
  <2>7. QED
    BY <2>1, <2>2, <2>3, <2>6
    DEF Next, ConnectFails, Connected, Disconnect, DisconnectVault, Navigate,
        ApplyScenario, Lock, Approve, Mine, Execute, MachineRestarts, vars,
        session, display
<1>3. QED
  BY <1>1, <1>2, PTL DEF Spec

-----------------------------------------------------------------------------
(* Locks.                                                                  *)

(* While Rules has not been opened under way, the flag is set exactly when *)
(* a lock is under way, and there is one at most.                          *)
LockInv ==
  /\ policyLocking => LocksInFlight # {}
  /\ ~ reopened =>
        /\ LocksInFlight # {} => policyLocking
        /\ \A t, u \in LocksInFlight : t = u

LEMMA SameLocks ==
  ASSUME UNCHANGED tasks PROVE LocksInFlight' = LocksInFlight
BY DEF LocksInFlight, InFlight

LEMMA MovedLocks ==
  ASSUME NEW t \in DOMAIN tasks, NEW step, NEW id, Moved(t, step, id),
         InFlight(t), step # "gone"
  PROVE  LocksInFlight' =
           IF step = "ended" THEN LocksInFlight \ {t} ELSE LocksInFlight
<1>1. ASSUME NEW u \in DOMAIN tasks
      PROVE  u \in LocksInFlight' <=>
               (u \in LocksInFlight /\ (u = t => step # "ended"))
  BY <1>1 DEF LocksInFlight, InFlight, Moved
<1>2. LocksInFlight \subseteq DOMAIN tasks /\ LocksInFlight' \subseteq DOMAIN tasks
  BY DEF LocksInFlight, Moved
<1>3. QED
  BY <1>1, <1>2

(* A task that goes on leaves the flag alone; a lock that ends resets it.  *)
LEMMA ResumeMoves ==
  ASSUME IInv, NEW t \in DOMAIN tasks, Resume(t) \/ Hangs(t)
  PROVE  /\ InFlight(t) /\ reopened' = reopened
         /\ \E step, id :
               /\ Moved(t, step, id) /\ step # "gone"
               /\ IF step = "ended" /\ tasks[t].kind = "lock"
                    THEN policyLocking' = FALSE
                    ELSE policyLocking' = policyLocking
<1>1. DOMAIN instructions \subseteq Nat /\ tasks[t].id \in Nat
  BY Shapes, TaskFields DEF IInv
<1>2. CASE KeySent(t)
  <2>1. PICK i : Mined(t, i) /\ Steps(t, "pollKey", i)
    BY <1>2 DEF KeySent
  <2>2. Moved(t, "pollKey", i)
    BY <1>1, <2>1, StepsMoves DEF IInv, Mined, StepName
  <2>3. QED
    BY <1>2, <2>2 DEF KeySent, InFlight, display
<1>3. CASE KeyLoaded(t)
  <2>1. Moved(t, "send", tasks[t].id)
    BY <1>1, <1>3, StepsMoves DEF IInv, KeyLoaded, StepName
  <2>2. QED
    BY <1>3, <2>1 DEF KeyLoaded, InFlight, display
<1>4. CASE Sent(t)
  <2>1. PICK i : Mined(t, i) /\ Steps(t, "poll", i)
    BY <1>4 DEF Sent
  <2>2. Moved(t, "poll", i)
    BY <1>1, <2>1, StepsMoves DEF IInv, Mined, StepName
  <2>3. QED
    BY <1>4, <2>2 DEF Sent, InFlight, display
<1>5. CASE ProofShown(t)
  <2>1. Moved(t, "verify", tasks[t].id)
    BY <1>1, <1>5, StepsMoves DEF IInv, ProofShown, StepName
  <2>2. QED
    BY <1>5, <2>1 DEF ProofShown, InFlight
<1>6. CASE LockAnswered(t)
  <2>1. Moved(t, "ended", tasks[t].id)
    BY <1>6, EndsMoves DEF IInv, LockAnswered
  <2>2. QED
    BY <1>6, <2>1 DEF LockAnswered, InFlight
<1>7. ASSUME Ends(t), tasks[t].kind # "lock", InFlight(t),
             UNCHANGED <<policyLocking, reopened>>
      PROVE  /\ InFlight(t) /\ reopened' = reopened
             /\ \E step, id :
                   /\ Moved(t, step, id) /\ step # "gone"
                   /\ IF step = "ended" /\ tasks[t].kind = "lock"
                        THEN policyLocking' = FALSE
                        ELSE policyLocking' = policyLocking
  BY <1>7, EndsMoves DEF IInv
<1>8. CASE ProofVerified(t)
  <2>1. tasks[t].kind = "approve"
    BY <1>8 DEF IInv, WorkInv, TaskInv, Fits, ProofVerified
  <2>2. QED
    BY <1>7, <1>8, <2>1 DEF ProofVerified, InFlight
<1>9. CASE PayoutBlocked(t)
  BY <1>7, <1>9 DEF PayoutBlocked, InFlight
<1>10. CASE InFlight(t) /\ \E vaultError \in BOOLEAN : Throws(t, vaultError)
  <2>1. PICK vaultError \in BOOLEAN : Throws(t, vaultError)
    BY <1>10
  <2>2. CASE LockThrows(t)
    <3>1. Moved(t, "ended", tasks[t].id)
      BY <2>1, EndsMoves DEF IInv, Throws
    <3>2. QED
      BY <1>10, <2>1, <2>2, <3>1 DEF Throws, LockThrows
  <2>3. CASE ApproveThrows(t, vaultError)
    <3>1. UNCHANGED policyLocking
      BY <2>3
      DEF ApproveThrows, DisconnectVault, ShowView, Shown, ResetsLocking
    <3>2. QED
      BY <1>7, <1>10, <2>1, <2>3, <3>1 DEF Throws, ApproveThrows
  <2>4. QED
    BY <2>1, <2>2, <2>3 DEF Throws
<1>11. CASE Hangs(t)
  <2>1. Moved(t, "hung", 0)
    BY <1>11, StepsMoves DEF IInv, Hangs, StepName
  <2>2. QED
    BY <1>11, <2>1 DEF Hangs, InFlight, display
<1>12. QED
  BY <1>2, <1>3, <1>4, <1>5, <1>6, <1>8, <1>9, <1>10, <1>11
  DEF Resume, Hangs, KeyRefused, CallFails, PollFails, InFlight

LEMMA ShowViewLocks ==
  ASSUME LockInv, NEW id, ShowView(id), UNCHANGED tasks PROVE LockInv'
<1>1. LocksInFlight' = LocksInFlight
  BY SameLocks
<1>2. QED
  BY <1>1 DEF LockInv, ShowView, ResetsLocking

LEMMA ResumeLocks ==
  ASSUME IInv, LockInv, NEW t \in DOMAIN tasks, Resume(t) \/ Hangs(t) PROVE LockInv'
<1>1. InFlight(t) /\ reopened' = reopened
  BY ResumeMoves
<1>2. PICK step, id :
        /\ Moved(t, step, id) /\ step # "gone"
        /\ IF step = "ended" /\ tasks[t].kind = "lock"
             THEN policyLocking' = FALSE
             ELSE policyLocking' = policyLocking
  BY ResumeMoves
<1>3. LocksInFlight' =
        IF step = "ended" THEN LocksInFlight \ {t} ELSE LocksInFlight
  BY <1>1, <1>2, MovedLocks
<1>4. t \in LocksInFlight <=> tasks[t].kind = "lock"
  BY <1>1 DEF LocksInFlight
<1>5. CASE step = "ended" /\ tasks[t].kind = "lock"
  BY <1>1, <1>2, <1>3, <1>4, <1>5 DEF LockInv
<1>6. CASE ~ (step = "ended" /\ tasks[t].kind = "lock")
  <2>1. LocksInFlight' = LocksInFlight
    BY <1>3, <1>4, <1>6
  <2>2. QED
    BY <1>1, <1>2, <1>6, <2>1 DEF LockInv
<1>7. QED
  BY <1>5, <1>6

LEMMA ClickLocks ==
  ASSUME IInv, NEW kind, NEW data, Click(kind, data),
         \/ kind = "lock" /\ data \in Rules
         \/ kind = "approve" /\ data \in Intents
  PROVE  LocksInFlight' = IF kind = "lock"
                          THEN LocksInFlight \cup {Len(tasks) + 1}
                          ELSE LocksInFlight
<1>1. PICK n : n = Len(tasks) + 1
  OBVIOUS
<1>2. /\ DOMAIN tasks' = DOMAIN tasks \cup {n} /\ n \notin DOMAIN tasks
      /\ \A u \in DOMAIN tasks : tasks'[u] = tasks[u]
      /\ tasks'[n] = [kind |-> kind, data |-> data, step |-> "loadKey", id |-> 0]
  BY <1>1, ClickAdds DEF IInv
<1>3. \A u \in DOMAIN tasks : u \in LocksInFlight' <=> u \in LocksInFlight
  BY <1>2 DEF LocksInFlight, InFlight
<1>4. n \in LocksInFlight' <=> kind = "lock"
  BY <1>2 DEF LocksInFlight, InFlight
<1>5. /\ LocksInFlight \subseteq DOMAIN tasks
      /\ LocksInFlight' \subseteq DOMAIN tasks \cup {n}
  BY <1>2 DEF LocksInFlight
<1>6. QED
  BY <1>1, <1>2, <1>3, <1>4, <1>5

(* The flag and the locks under way agree, unless Rules was opened.        *)
THEOREM LockInvariant == Spec => []LockInv
<1>1. Init => LockInv
  BY DEF Init, LockInv, LocksInFlight
<1>2. IInv /\ LockInv /\ [Next]_vars => LockInv'
  <2> SUFFICES ASSUME IInv, LockInv, [Next]_vars PROVE LockInv'
    OBVIOUS
  <2>1. CASE UNCHANGED <<tasks, policyLocking, reopened>>
    BY <2>1, SameLocks DEF LockInv
  <2>2. ASSUME NEW id, ShowView(id), UNCHANGED tasks PROVE LockInv'
    BY <2>2, ShowViewLocks
  <2>3. CASE Reload
    <3>1. \A t \in DOMAIN tasks' : tasks'[t].step = "gone"
      BY <2>3, ReloadDrops DEF IInv
    <3>2. LocksInFlight' = {}
      BY <3>1 DEF LocksInFlight, InFlight
    <3>3. QED
      BY <2>3, <3>2 DEF LockInv, Reload
  <2>4. ASSUME NEW rules \in Rules, Lock(rules) PROVE LockInv'
    <3>1. LocksInFlight' = LocksInFlight \cup {Len(tasks) + 1}
      BY <2>4, ClickLocks DEF Lock
    <3>2. ~ policyLocking /\ policyLocking' /\ reopened' = reopened
      BY <2>4 DEF Lock, LockFree
    <3>3. QED
      BY <3>1, <3>2 DEF LockInv
  <2>5. ASSUME NEW intent \in Intents, Approve(intent) PROVE LockInv'
    <3>1. LocksInFlight' = LocksInFlight
      BY <2>5, ClickLocks DEF Approve
    <3>2. QED
      BY <2>5, <3>1 DEF LockInv, Approve
  <2>6. ASSUME NEW t \in DOMAIN tasks, Resume(t) \/ Hangs(t) PROVE LockInv'
    BY <2>6, ResumeLocks
  <2>7. QED
    BY <2>1, <2>2, <2>3, <2>4, <2>5, <2>6
    DEF Next, Connect, ConnectFails, Connected, Disconnect, DisconnectVault,
        Navigate, ApplyScenario, Mine, Execute, MachineRestarts, vars, display
<1>3. QED
  BY <1>1, <1>2, InductiveInvariant, PTL DEF Spec

(* The Lock button is never left disabled by a lock that is over.          *)
THEOREM LocksRelease == Spec => []LockNeverStuck
<1>1. LockInv => LockNeverStuck
  BY DEF LockInv, LockNeverStuck
<1>2. QED
  BY <1>1, LockInvariant, PTL

(* Two locks are under way only if Rules was opened during the first.      *)
THEOREM LocksDoExclude == Spec => []LocksExclude
<1>1. LockInv => LocksExclude
  <2> SUFFICES ASSUME LockInv, ~ reopened
               PROVE  Cardinality(LocksInFlight) <= 1
    BY DEF LocksExclude
  <2>1. CASE LocksInFlight = {}
    BY <2>1, FS_EmptySet
  <2>2. CASE LocksInFlight # {}
    <3>1. PICK t : LocksInFlight = {t}
      BY <2>2 DEF LockInv
    <3>2. QED
      BY <3>1, FS_Singleton
  <2>3. QED
    BY <2>1, <2>2
<1>2. QED
  BY <1>1, LockInvariant, PTL

-----------------------------------------------------------------------------
(* The key.                                                                *)

(* The machine has its key still, or restarted after the click.            *)
Keyed(c) == machineKey \/ c.task <= restartedAt

(* A key that was accepted, and a payout that was sent, for that only      *)
(* happens once the key was accepted, found the machine with its key.      *)
KeyInv ==
  /\ \A c \in calls : c.op = "sign" => Keyed(c)
  /\ \A i \in DOMAIN instructions :
        instructions[i].op = "sign"
        \/ (instructions[i].op = "updateKey" /\ answers[i] = "ok")
        => Keyed(instructions[i])
  /\ KeyLoadedFirst

LEMMA TasksOfCalls ==
  ASSUME IInv
  PROVE  /\ \A c \in calls : c.task \in 1 .. Len(tasks)
         /\ \A i \in DOMAIN instructions :
               instructions[i].task \in 1 .. Len(tasks)
BY Shapes DEF IInv, WorkInv, ChainInv, AskedFor

LEMMA SameKeyInv ==
  ASSUME KeyInv, UNCHANGED <<calls, instructions, answers, machineKey, restartedAt>>
  PROVE  KeyInv'
BY DEF KeyInv, Keyed, KeyLoadedFirst

LEMMA KeyLoadedKeyed ==
  ASSUME IInv, KeyInv, NEW t \in DOMAIN tasks, KeyLoaded(t) PROVE KeyInv'
<1>1. PICK id : id = tasks[t].id
  OBVIOUS
<1>2. /\ id \in DOMAIN instructions /\ instructions[id] = KeyCall(t)
      /\ answers[id] = "ok"
  BY <1>1 DEF IInv, WorkInv, TaskInv, Fits, KeyLoaded, KeyAnswer
<1>3. machineKey \/ t <= restartedAt
  BY <1>2, TwoCalls DEF KeyInv, Keyed
<1>4. /\ calls' = calls \cup {OwnCall(t)} /\ OwnCall(t).task = t
      /\ UNCHANGED <<instructions, answers, machineKey, restartedAt>>
  BY TwoCalls DEF KeyLoaded, OwnCall, machine
<1>5. QED
  BY <1>3, <1>4 DEF KeyInv, Keyed, KeyLoadedFirst

LEMMA ClickKeyed ==
  ASSUME KeyInv, NEW kind, NEW data, Click(kind, data),
         UNCHANGED <<instructions, answers, machine>>
  PROVE  KeyInv'
<1>1. PICK c : c = KeyCall(Len(tasks) + 1) /\ calls' = calls \cup {c}
  BY DEF Click, KeyCall
<1>2. c.op # "sign"
  BY <1>1, TwoCalls
<1>3. UNCHANGED <<machineKey, restartedAt>>
  BY DEF machine
<1>4. QED
  BY <1>1, <1>2, <1>3 DEF KeyInv, Keyed, KeyLoadedFirst

LEMMA MineKeyed ==
  ASSUME IInv, KeyInv, NEW c \in calls, Mine(c) PROVE KeyInv'
<1>1. PICK n : n = Len(instructions) + 1
  OBVIOUS
<1>2. /\ DOMAIN instructions' = DOMAIN instructions \cup {n}
      /\ instructions'[n] = c /\ answers'[n] = "pending"
      /\ \A i \in DOMAIN instructions :
            instructions'[i] = instructions[i] /\ answers'[i] = answers[i]
  BY <1>1, MineAppends DEF IInv
<1>3. calls' = calls \ {c} /\ UNCHANGED <<machineKey, restartedAt>>
  BY DEF Mine, machine
<1>4. QED
  BY <1>2, <1>3 DEF KeyInv, Keyed, KeyLoadedFirst

LEMMA ExecuteKeyed ==
  ASSUME IInv, KeyInv, NEW i \in DOMAIN instructions, Execute(i) PROVE KeyInv'
<1>1. PICK a : Executed(i, a)
  BY ExecuteAnswers
<1>2. /\ \A j \in DOMAIN instructions :
            answers'[j] = IF j = i THEN a ELSE answers[j]
      /\ UNCHANGED <<calls, instructions, restartedAt>>
  BY <1>1, ExecutedAnswers DEF Executed
<1>3. /\ machineKey => machineKey'
      /\ instructions[i].op = "updateKey" /\ a = "ok" => machineKey'
      /\ a = "noKey" => instructions[i].op = "sign" /\ ~ machineKey
  <2>1. answers'[i] = a
    BY <1>2
  <2>2. answers \in Seq({"pending", "ok", "refused", "noKey"})
        /\ i \in 1 .. Len(answers)
    BY Shapes DEF IInv, TypeOK, PageType, WorkType
  <2>3. \A b : answers' = [answers EXCEPT ![i] = b] => b = a
    BY <2>1, <2>2
  <2>4. QED
    BY <2>3 DEF Execute, SignAnswer
<1>4. \A c : Keyed(c) => Keyed(c)'
  BY <1>2, <1>3 DEF Keyed
<1>5. KeyLoadedFirst'
  BY <1>2, <1>3 DEF KeyInv, Keyed, KeyLoadedFirst
<1>6. ASSUME NEW j \in DOMAIN instructions,
             instructions[j].op = "sign"
             \/ (instructions[j].op = "updateKey" /\ answers'[j] = "ok")
      PROVE  Keyed(instructions[j])'
  BY <1>2, <1>3, <1>6 DEF KeyInv, Keyed
<1>7. \A c \in calls' : c.op = "sign" => Keyed(c)'
  BY <1>2, <1>4 DEF KeyInv
<1>8. QED
  BY <1>2, <1>5, <1>6, <1>7 DEF KeyInv

(* A payout is refused for want of a key only if the machine restarted     *)
(* after the click.                                                        *)
THEOREM KeyComesFirst == Spec => []KeyLoadedFirst
<1>1. Init => KeyInv
  BY DEF Init, KeyInv, KeyLoadedFirst
<1>2. IInv /\ KeyInv /\ [Next]_vars => KeyInv'
  <2> SUFFICES ASSUME IInv, KeyInv, [Next]_vars PROVE KeyInv'
    OBVIOUS
  <2>1. CASE UNCHANGED <<chain, machine>>
    BY <2>1, SameKeyInv DEF chain, machine
  <2>2. ASSUME NEW t \in DOMAIN tasks, Resume(t) \/ Hangs(t) PROVE KeyInv'
    <3>1. CASE KeyLoaded(t)
      BY <3>1, KeyLoadedKeyed
    <3>2. QED
      BY <2>1, <2>2, <3>1
      DEF Resume, Hangs, KeySent, Sent, LockAnswered, ProofShown, PayoutBlocked,
          KeyRefused, ProofVerified, CallFails, PollFails, Throws
  <2>3. ASSUME NEW c \in calls, Mine(c) PROVE KeyInv'
    BY <2>3, MineKeyed
  <2>4. ASSUME NEW i \in DOMAIN instructions, Execute(i) PROVE KeyInv'
    BY <2>4, ExecuteKeyed
  <2>5. CASE MachineRestarts
    <3>1. UNCHANGED <<calls, instructions, answers>> /\ restartedAt' = Len(tasks)
      BY <2>5 DEF MachineRestarts, chain
    <3>2. /\ \A c \in calls : c.task <= Len(tasks)
          /\ \A i \in DOMAIN instructions : instructions[i].task <= Len(tasks)
      BY TasksOfCalls, Shapes DEF IInv
    <3>3. QED
      BY <3>1, <3>2 DEF KeyInv, Keyed, KeyLoadedFirst
  <2>6. ASSUME NEW kind, NEW data, Click(kind, data),
               UNCHANGED <<instructions, answers, machine>>
        PROVE  KeyInv'
    BY <2>6, ClickKeyed
  <2>7. QED
    BY <2>1, <2>2, <2>3, <2>4, <2>5, <2>6
    DEF Next, Connect, ConnectFails, Connected, Disconnect, Navigate,
        ApplyScenario, Reload, Lock, Approve, vars
<1>3. KeyInv => KeyLoadedFirst
  BY DEF KeyInv
<1>4. QED
  BY <1>1, <1>2, <1>3, InductiveInvariant, PTL DEF Spec

-----------------------------------------------------------------------------
(* What is shown.                                                          *)

(* An instruction stays where it is, and an answer as it was given.        *)
Stable ==
  \A i \in DOMAIN instructions :
     /\ i \in DOMAIN instructions' /\ instructions'[i] = instructions[i]
     /\ answers[i] # "pending" => answers'[i] = answers[i]

LEMMA StepsAreStable ==
  ASSUME IInv, [Next]_vars PROVE Stable
<1>1. CASE UNCHANGED <<instructions, answers>>
  BY <1>1 DEF Stable
<1>2. ASSUME NEW c \in calls, Mine(c) PROVE Stable
  BY <1>2, MineAppends DEF IInv, Stable
<1>3. ASSUME NEW i \in DOMAIN instructions, Execute(i) PROVE Stable
  <2>1. PICK a : Executed(i, a)
    BY <1>3, ExecuteAnswers
  <2>2. QED
    BY <2>1, ExecutedAnswers DEF Executed, Stable
<1>4. ASSUME NEW t \in DOMAIN tasks, Resume(t) \/ Hangs(t)
      PROVE  UNCHANGED <<instructions, answers>>
  BY <1>4
  DEF Resume, Hangs, KeySent, KeyLoaded, Sent, LockAnswered, ProofShown, PayoutBlocked,
      KeyRefused, ProofVerified, CallFails, PollFails, Throws, chain
<1>5. QED
  BY <1>1, <1>2, <1>3, <1>4
  DEF Next, Connect, ConnectFails, Connected, Disconnect, Navigate,
      ApplyScenario, Reload, Lock, Approve, MachineRestarts, vars, chain

LEMMA HappenedStays ==
  ASSUME Stable, NEW a \in Entry, Happened(a) PROVE Happened(a)'
BY DEF Stable, Entry, Happened, Answered

(* The rules and the signature on display.                                 *)
PolicyShown ==
  policy # None =>
    \E i \in DOMAIN instructions :
       Answered(i, "setPolicy", policy) /\ answers[i] = "ok"

SignatureShown ==
  proof.sig # 0 => Answered(proof.sig, "sign", None) /\ answers[proof.sig] = "ok"

LEMMA PolicyStays ==
  ASSUME Stable, PolicyShown, policy' \in {policy, None} PROVE PolicyShown'
BY DEF Stable, PolicyShown, Answered

LEMMA SignatureStays ==
  ASSUME Stable, SignatureShown, proof'.sig \in {proof.sig, 0}
  PROVE  SignatureShown'
BY DEF Stable, SignatureShown, Answered

(* What a task that awaits its own instruction was answered.               *)
LEMMA TaskAnswer ==
  ASSUME IInv, NEW t \in DOMAIN tasks, tasks[t].step \in {"poll", "verify"}
  PROVE  /\ Answered(tasks[t].id,
                     IF tasks[t].kind = "lock" THEN "setPolicy" ELSE "sign",
                     tasks[t].data)
         /\ answers[tasks[t].id] \in {"pending", "ok", "refused", "noKey"}
         /\ answers[tasks[t].id] = "noKey" => tasks[t].kind # "lock"
<1>1. PICK id : id = tasks[t].id
  OBVIOUS
<1>2. id \in DOMAIN instructions /\ instructions[id] = OwnCall(t)
  BY <1>1 DEF IInv, WorkInv, TaskInv, Fits
<1>3. answers[id] \in {"pending", "ok", "refused", "noKey"}
      /\ (answers[id] = "noKey" => instructions[id].op = "sign")
  BY <1>2, Shapes DEF IInv, WorkInv, ChainInv
<1>4. QED
  BY <1>1, <1>2, <1>3, TwoCalls DEF Answered, OwnCall, Instruct

(* Announcing what happened to a task keeps the list true.                 *)
LEMMA AnnounceTrue ==
  ASSUME IInv, NEW t \in DOMAIN tasks, NEW title, Announce(title, t), Stable,
         NEW e, e = [title |-> title, data |-> tasks[t].data, id |-> tasks[t].id],
         Happened(e)',
         \A a \in activity : Happened(a)
  PROVE  \A a \in activity' : Happened(a)'
<1>1. activity' = activity \cup {e}
  BY DEF Announce
<1>2. \A a \in activity : Happened(a)'
  BY HappenedStays DEF IInv, TypeOK, PageType, WorkType
<1>3. QED
  BY <1>1, <1>2

LEMMA AnswersStand ==
  ASSUME IInv, NEW t \in DOMAIN tasks, tasks[t].step \in {"poll", "verify"},
         answers[tasks[t].id] # "pending", Stable,
         NEW title, Announce(title, t), \A a \in activity : Happened(a),
         \/ /\ tasks[t].kind = "lock" /\ title = "rulesLocked"
            /\ answers[tasks[t].id] = "ok"
         \/ /\ tasks[t].kind = "lock" /\ title = "lockFailed"
            /\ answers[tasks[t].id] # "ok"
         \/ /\ tasks[t].kind = "approve" /\ title = "payoutApproved"
            /\ answers[tasks[t].id] = "ok"
         \/ /\ tasks[t].kind = "approve" /\ title = "payoutBlocked"
            /\ answers[tasks[t].id] \in {"refused", "noKey"}
  PROVE  \A a \in activity' : Happened(a)'
<1>1. PICK e : e = [title |-> title, data |-> tasks[t].data, id |-> tasks[t].id]
  OBVIOUS
<1>2. /\ Answered(e.id, IF tasks[t].kind = "lock" THEN "setPolicy" ELSE "sign",
                   e.data)
      /\ answers[e.id] \in {"pending", "ok", "refused", "noKey"}
      /\ answers[e.id] = "noKey" => tasks[t].kind # "lock"
  BY <1>1, TaskAnswer
<1>3. Happened(e)
  BY <1>1, <1>2 DEF Happened
<1>4. e \in Entry
  <2>1. tasks[t].id \in Nat /\ tasks[t].data \in Rules \cup Intents
    BY TaskFields DEF IInv
  <2>2. QED
    BY <1>1, <2>1 DEF Entry
<1>5. Happened(e)'
  BY <1>3, <1>4, HappenedStays
<1>6. QED
  BY <1>1, <1>5, AnnounceTrue

(* A step that announces nothing and shows nothing new. *)
LEMMA NothingNew ==
  ASSUME IInv, Stable, ShowsWhatHappened, activity' \subseteq activity,
         policy' \in {policy, None}, proof'.sig \in {proof.sig, 0}
  PROVE  ShowsWhatHappened'
<1>1. \A a \in activity' : Happened(a)'
  BY HappenedStays DEF IInv, TypeOK, PageType, ShowsWhatHappened
<1>2. PolicyShown' /\ SignatureShown'
  BY PolicyStays, SignatureStays DEF ShowsWhatHappened, PolicyShown, SignatureShown
<1>3. QED
  BY <1>1, <1>2 DEF ShowsWhatHappened, PolicyShown, SignatureShown

LEMMA ResumeShows ==
  ASSUME IInv, Stable, ShowsWhatHappened, NEW t \in DOMAIN tasks, Resume(t) \/ Hangs(t)
  PROVE  ShowsWhatHappened'
<1> DEFINE id == tasks[t].id
<1>1. PolicyShown /\ SignatureShown /\ \A a \in activity : Happened(a)
  BY DEF ShowsWhatHappened, PolicyShown, SignatureShown
<1>2. ShowsWhatHappened' <=>
        PolicyShown' /\ SignatureShown' /\ \A a \in activity' : Happened(a)'
  BY DEF ShowsWhatHappened, PolicyShown, SignatureShown
<1>3. HideProof => proof'.sig = 0
  BY DEF HideProof, NoProof
<1>4. CASE LockAnswered(t)
  <2>1. \A a \in activity' : Happened(a)'
    BY <1>1, <1>4, AnswersStand DEF LockAnswered, LockAccepted, LockRefused
  <2>2. SignatureShown'
    BY <1>1, <1>3, <1>4, SignatureStays DEF LockAnswered, LockAccepted, LockRefused
  <2>3. PolicyShown'
    <3>1. CASE policy' = policy
      BY <1>1, <3>1, PolicyStays
    <3>2. CASE LockAccepted(t) /\ answers[id] = "ok"
      <4>1. PICK i, rules : i = id /\ rules = tasks[t].data
        OBVIOUS
      <4>2. Answered(i, "setPolicy", rules) /\ answers[i] = "ok" /\ policy' = rules
        BY <1>4, <3>2, <4>1, TaskAnswer DEF LockAnswered, LockAccepted
      <4>3. QED
        BY <4>2 DEF PolicyShown, Stable, Answered
    <3>3. QED
      BY <1>4, <3>1, <3>2 DEF LockAnswered, LockRefused
  <2>4. QED
    BY <1>2, <2>1, <2>2, <2>3
<1>5. CASE ProofShown(t)
  <2>1. \A a \in activity' : Happened(a)'
    BY <1>1, <1>5, HappenedStays DEF ProofShown, IInv, TypeOK, PageType
  <2>2. PolicyShown'
    BY <1>1, <1>5, PolicyStays DEF ProofShown
  <2>3. SignatureShown'
    <3>1. PICK i : i = id
      OBVIOUS
    <3>2. Answered(i, "sign", None) /\ answers[i] = "ok" /\ proof'.sig = i
      BY <1>5, <3>1, TaskAnswer DEF ProofShown, Answered
    <3>3. QED
      BY <3>2 DEF SignatureShown, Stable, Answered
  <2>4. QED
    BY <1>2, <2>1, <2>2, <2>3
<1>6. CASE ProofVerified(t)
  <2>1. tasks[t].kind = "approve" /\ answers[id] = "ok"
    BY <1>6 DEF ProofVerified, IInv, WorkInv, TaskInv, Fits
  <2>2. \A a \in activity' : Happened(a)'
    BY <1>1, <1>6, <2>1, AnswersStand DEF ProofVerified
  <2>3. PolicyShown' /\ SignatureShown'
    BY <1>1, <1>6, PolicyStays, SignatureStays DEF ProofVerified
  <2>4. QED
    BY <1>2, <2>2, <2>3
<1>7. CASE PayoutBlocked(t)
  <2>1. \A a \in activity' : Happened(a)'
    BY <1>1, <1>7, AnswersStand DEF PayoutBlocked
  <2>2. PolicyShown' /\ SignatureShown'
    BY <1>1, <1>3, <1>7, PolicyStays, SignatureStays DEF PayoutBlocked
  <2>3. QED
    BY <1>2, <2>1, <2>2
<1>8. ASSUME NEW vaultError, Throws(t, vaultError) PROVE ShowsWhatHappened'
  BY <1>3, <1>8, NothingNew
  DEF Throws, LockThrows, ApproveThrows, DisconnectVault
<1>9. CASE UNCHANGED display
  BY <1>9, NothingNew DEF display
<1>10. QED
  BY <1>4, <1>5, <1>6, <1>7, <1>8, <1>9
  DEF Resume, Hangs, KeySent, KeyLoaded, Sent, KeyRefused, CallFails, PollFails

(* The page announces and shows only what the machine did.                 *)
THEOREM ShowsOnlyWhatHappened == Spec => []ShowsWhatHappened
<1>1. Init => ShowsWhatHappened
  BY DEF Init, ShowsWhatHappened, NoProof
<1>2. IInv /\ ShowsWhatHappened /\ [Next]_vars => ShowsWhatHappened'
  <2> SUFFICES ASSUME IInv, ShowsWhatHappened, [Next]_vars
               PROVE  ShowsWhatHappened'
    OBVIOUS
  <2>1. Stable
    BY StepsAreStable
  <2>2. CASE UNCHANGED <<policy, proof, activity>>
    BY <2>1, <2>2, NothingNew
  <2>3. ASSUME NEW t \in DOMAIN tasks, Resume(t) \/ Hangs(t) PROVE ShowsWhatHappened'
    BY <2>1, <2>3, ResumeShows
  <2>4. CASE Disconnect \/ Reload
    <3>1. proof'.sig = 0 /\ policy' = None /\ activity' \subseteq activity
      BY <2>4 DEF Disconnect, DisconnectVault, Reload, HideProof, NoProof
    <3>2. QED
      BY <2>1, <3>1, NothingNew
  <2>5. CASE ApplyScenario
    <3>1. proof'.sig = 0 /\ policy' = None /\ activity' = activity
      BY <2>5 DEF ApplyScenario, IInv, TypeOK
    <3>2. QED
      BY <2>1, <3>1, NothingNew
  <2>6. QED
    BY <2>2, <2>3, <2>4, <2>5
    DEF Next, Connect, ConnectFails, Connected, Navigate, Lock, Approve, Mine,
        Execute, MachineRestarts, vars, display
<1>3. QED
  BY <1>1, <1>2, InductiveInvariant, PTL DEF Spec
=============================================================================
