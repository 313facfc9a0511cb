--------------------------- MODULE WebVaultProofs ---------------------------
(* Proofs about WebVault, for every value of its constants. *)
EXTENDS WebVault, FiniteSetTheorems, TLAPS

(* What a click asks for: the key first, then its own instruction. *)
KeyCall(t) == Instruct(t, "updateKey", None)

OwnCall(t) ==
  Instruct(t, IF tasks[t].kind = "lock" THEN "setPolicy" ELSE "sign",
           tasks[t].data)

AskedFor(c) == c.task \in DOMAIN tasks /\ c \in {KeyCall(c.task), OwnCall(c.task)}

(* Nothing is sent that no click asked for, and no key twice. *)
ChainInv ==
  /\ \A c \in calls : AskedFor(c)
  /\ \A i \in DOMAIN instructions : AskedFor(instructions[i])
  /\ \A i, j \in DOMAIN instructions :
        instructions[i].op = "updateKey" /\ instructions[i] = instructions[j]
        => i = j
  /\ \A i \in DOMAIN instructions :
        instructions[i].op = "updateKey" => instructions[i] \notin calls
  /\ \A i \in DOMAIN instructions :
        answers[i] = "noKey" => instructions[i].op = "sign"

(* A task waits for its key before its own instruction exists, and then    *)
(* for the answer to that instruction.                                     *)
Fits(t, step, id) ==
  /\ step \in {"loadKey", "pollKey"} =>
        /\ OwnCall(t) \notin calls
        /\ \A i \in DOMAIN instructions : instructions[i] # OwnCall(t)
  /\ step \in {"pollKey", "send"} =>
        id \in DOMAIN instructions /\ instructions[id] = KeyCall(t)
  /\ step \in {"poll", "verify"} =>
        id \in DOMAIN instructions /\ instructions[id] = OwnCall(t)
  /\ step = "verify" => tasks[t].kind = "approve" /\ answers[id] = "ok"

TaskInv == \A t \in DOMAIN tasks : Fits(t, tasks[t].step, tasks[t].id)

WorkInv == WorkType /\ ChainInv /\ TaskInv

IInv == TypeOK /\ WorkInv

-----------------------------------------------------------------------------
(* What the steps of tasks do to the list of tasks. *)

LEMMA Shapes ==
  ASSUME TypeOK
  PROVE  /\ DOMAIN tasks = 1 .. Len(tasks) /\ Len(tasks) \in 0 .. MaxTasks
         /\ DOMAIN instructions = 1 .. Len(instructions)
         /\ DOMAIN answers = 1 .. Len(instructions)
         /\ Len(instructions) \in Nat
         /\ \A t \in DOMAIN tasks : tasks[t] \in TaskType
         /\ \A i \in DOMAIN instructions :
               /\ instructions[i] \in Instruction
               /\ answers[i] \in {"pending", "ok", "refused", "noKey"}
BY WebAssumption DEF TypeOK, PageType, WorkType

LEMMA TaskFields ==
  ASSUME TypeOK, NEW t \in DOMAIN tasks
  PROVE  /\ tasks[t] = [kind |-> tasks[t].kind, data |-> tasks[t].data,
                        id |-> tasks[t].id, step |-> tasks[t].step]
         /\ tasks[t].id \in Nat /\ tasks[t].step \in StepName
         /\ \/ tasks[t].kind = "lock" /\ tasks[t].data \in Rules
            \/ tasks[t].kind = "approve" /\ tasks[t].data \in Intents
BY Shapes DEF TaskType

(* Task t moves to a step, with an id; the others stay where they are. *)
Moved(t, step, id) ==
  /\ tasks' \in Seq(TaskType) /\ Len(tasks') = Len(tasks)
  /\ DOMAIN tasks' = DOMAIN tasks
  /\ tasks'[t].step = step /\ tasks'[t].id = id
  /\ \A u \in DOMAIN tasks :
        /\ tasks'[u].kind = tasks[u].kind /\ tasks'[u].data = tasks[u].data
        /\ u # t => tasks'[u] = tasks[u]

LEMMA StepsMoves ==
  ASSUME TypeOK, NEW t \in DOMAIN tasks, NEW step \in StepName, NEW id \in Nat,
         Steps(t, step, id)
  PROVE  Moved(t, step, id)
<1> DEFINE r == [kind |-> tasks[t].kind, data |-> tasks[t].data,
                 id |-> id, step |-> step]
<1>1. r \in TaskType
  BY TaskFields DEF TaskType
<1>2. tasks' = [tasks EXCEPT ![t] = r]
  <2>1. PICK q : q = tasks[t]
    OBVIOUS
  <2>2. q = [kind |-> q.kind, data |-> q.data, id |-> q.id, step |-> q.step]
    BY <2>1, TaskFields
  <2>3. [q EXCEPT !.step = step, !.id = id] =
          [kind |-> q.kind, data |-> q.data, id |-> id, step |-> step]
    <3>1. PICK p : p = [q EXCEPT !.step = step]
      OBVIOUS
    <3>2. p = [kind |-> q.kind, data |-> q.data, id |-> q.id, step |-> step]
      BY <2>2, <3>1
    <3>3. [p EXCEPT !.id = id] =
            [kind |-> q.kind, data |-> q.data, id |-> id, step |-> step]
      BY <3>2
    <3>4. [q EXCEPT !.step = step, !.id = id] = [p EXCEPT !.id = id]
      BY <3>1
    <3>5. QED
      BY <3>3, <3>4
  <2>4. tasks' = [tasks EXCEPT ![t] = [q EXCEPT !.step = step, !.id = id]]
    BY <2>1 DEF Steps
  <2>5. QED
    BY <2>1, <2>3, <2>4
<1>3. tasks \in Seq(TaskType) /\ t \in 1 .. Len(tasks)
  BY Shapes DEF TypeOK, PageType, WorkType
<1> HIDE DEF r
<1>4. /\ tasks' \in Seq(TaskType) /\ Len(tasks') = Len(tasks)
      /\ DOMAIN tasks' = DOMAIN tasks
      /\ tasks'[t] = r
      /\ \A u \in DOMAIN tasks : u # t => tasks'[u] = tasks[u]
  BY <1>1, <1>2, <1>3
<1>5. QED
  BY <1>4 DEF Moved, r

LEMMA EndsMoves ==
  ASSUME TypeOK, NEW t \in DOMAIN tasks, Ends(t)
  PROVE  Moved(t, "ended", tasks[t].id)
<1>1. Steps(t, "ended", tasks[t].id)
  <2>1. PICK q : q = tasks[t]
    OBVIOUS
  <2>2. q = [kind |-> q.kind, data |-> q.data, id |-> q.id, step |-> q.step]
    BY <2>1, TaskFields
  <2>3. [q EXCEPT !.step = "ended"] = [q EXCEPT !.step = "ended", !.id = q.id]
    BY <2>2
  <2>4. tasks' = [tasks EXCEPT ![t] = [q EXCEPT !.step = "ended"]]
    BY <2>1 DEF Ends
  <2>5. QED
    BY <2>1, <2>3, <2>4 DEF Steps
<1>2. QED
  BY <1>1, StepsMoves, TaskFields DEF StepName

(* A reload takes every task away. *)
LEMMA ReloadDrops ==
  ASSUME TypeOK, Reload
  PROVE  /\ tasks' \in Seq(TaskType) /\ Len(tasks') = Len(tasks)
         /\ DOMAIN tasks' = DOMAIN tasks
         /\ \A t \in DOMAIN tasks :
               /\ tasks'[t].step = "gone"
               /\ tasks'[t].kind = tasks[t].kind
               /\ tasks'[t].data = tasks[t].data
<1> DEFINE r(t) == [kind |-> tasks[t].kind, data |-> tasks[t].data,
                    id |-> tasks[t].id, step |-> "gone"]
<1>1. \A t \in DOMAIN tasks : r(t) \in TaskType
  BY TaskFields DEF TaskType, StepName
<1>2. tasks' = [t \in DOMAIN tasks |-> r(t)]
  <2>1. \A t \in DOMAIN tasks : [tasks[t] EXCEPT !.step = "gone"] = r(t)
    BY TaskFields
  <2>2. QED
    BY <2>1 DEF Reload
<1>3. DOMAIN tasks = 1 .. Len(tasks) /\ Len(tasks) \in Nat
  BY Shapes
<1> HIDE DEF r
<1>4. tasks' \in [1 .. Len(tasks) -> TaskType]
  BY <1>1, <1>2, <1>3
<1>5. tasks' \in Seq(TaskType) /\ Len(tasks') = Len(tasks)
      /\ DOMAIN tasks' = DOMAIN tasks
  BY <1>3, <1>4
<1>6. \A t \in DOMAIN tasks : tasks'[t] = r(t)
  BY <1>2
<1>7. QED
  BY <1>5, <1>6 DEF r

LEMMA ClickAdds ==
  ASSUME TypeOK, NEW kind, NEW data, Click(kind, data),
         \/ kind = "lock" /\ data \in Rules
         \/ kind = "approve" /\ data \in Intents
  PROVE  LET t == Len(tasks) + 1 IN
         /\ tasks' \in Seq(TaskType) /\ Len(tasks') = t /\ t <= MaxTasks
         /\ t \in Nat /\ DOMAIN tasks' = DOMAIN tasks \cup {t}
         /\ t \notin DOMAIN tasks
         /\ \A u \in DOMAIN tasks : tasks'[u] = tasks[u]
         /\ tasks'[t] = [kind |-> kind, data |-> data,
                         step |-> "loadKey", id |-> 0]
         /\ calls' = calls \cup {KeyCall(t)}
         /\ KeyCall(t) \in Instruction
<1> DEFINE r == [kind |-> kind, data |-> data, step |-> "loadKey", id |-> 0]
<1>1. r \in TaskType
  BY DEF TaskType, StepName
<1>2. tasks' = Append(tasks, r) /\ Len(tasks) < MaxTasks
  BY DEF Click
<1>3. tasks \in Seq(TaskType) /\ MaxTasks \in Nat
  BY WebAssumption DEF TypeOK, PageType, WorkType
<1> HIDE DEF r
<1>4. /\ tasks' \in Seq(TaskType) /\ Len(tasks') = Len(tasks) + 1
      /\ Len(tasks) \in Nat
      /\ DOMAIN tasks' = 1 .. Len(tasks) + 1 /\ DOMAIN tasks = 1 .. Len(tasks)
      /\ tasks'[Len(tasks) + 1] = r
      /\ \A u \in 1 .. Len(tasks) : tasks'[u] = tasks[u]
  BY <1>1, <1>2, <1>3
<1>5. KeyCall(Len(tasks) + 1) \in Instruction
  BY <1>2, <1>3, <1>4 DEF KeyCall, Instruct, Instruction
<1>6. QED
  BY <1>2, <1>3, <1>4, <1>5 DEF Click, KeyCall, r
-----------------------------------------------------------------------------
(* The steps.                                                              *)

LEMMA TwoCalls ==
  ASSUME NEW t, NEW u
  PROVE  /\ KeyCall(t).task = t /\ KeyCall(t).op = "updateKey"
         /\ OwnCall(t).task = t /\ OwnCall(t).op \in {"setPolicy", "sign"}
         /\ OwnCall(t).data = tasks[t].data
         /\ OwnCall(t).op = "sign" <=> tasks[t].kind # "lock"
         /\ KeyCall(t) # OwnCall(u)
BY DEF KeyCall, OwnCall, Instruct

(* A task whose next step fits moves there. *)
LEMMA MoveKeeps ==
  ASSUME IInv, NEW t \in DOMAIN tasks, NEW step, NEW id, Moved(t, step, id),
         Fits(t, step, id), UNCHANGED <<chain, machine>>,
         \A a \in activity' : a.id \in DOMAIN instructions
  PROVE  WorkInv'
<1>1. \A u : KeyCall(u)' = KeyCall(u)
  BY DEF KeyCall, Instruct
<1>2. \A u \in DOMAIN tasks : OwnCall(u)' = OwnCall(u)
  BY DEF OwnCall, Instruct, Moved
<1>3. UNCHANGED <<calls, instructions, answers>> /\ DOMAIN tasks' = DOMAIN tasks
  BY DEF chain, Moved
<1>4. ASSUME NEW c, AskedFor(c) PROVE AskedFor(c)'
  BY <1>1, <1>2, <1>3, <1>4 DEF AskedFor
<1>5. ChainInv'
  BY <1>3, <1>4 DEF IInv, WorkInv, ChainInv
<1>6. ASSUME NEW u \in DOMAIN tasks PROVE Fits(u, tasks[u].step, tasks[u].id)'
  <2>1. PICK s, i : s = tasks'[u].step /\ i = tasks'[u].id
    OBVIOUS
  <2>2. Fits(u, s, i)
    BY <2>1 DEF IInv, WorkInv, TaskInv, Moved
  <2>3. tasks'[u].kind = tasks[u].kind
    BY DEF Moved
  <2>4. QED
    BY <1>1, <1>2, <1>3, <2>1, <2>2, <2>3 DEF Fits
<1>7. WorkType'
  BY <1>3 DEF IInv, WorkInv, WorkType, Moved, machine
<1>8. QED
  BY <1>3, <1>5, <1>6, <1>7 DEF WorkInv, TaskInv

LEMMA PageKeeps ==
  ASSUME IInv, UNCHANGED <<tasks, chain>>, restartedAt' \in {restartedAt, Len(tasks)},
         activity' = activity,
         machineKey' \in BOOLEAN, machineRules' \in ValidRules \cup {None}
  PROVE  WorkInv'
<1>1. UNCHANGED <<tasks, calls, instructions, answers, activity>>
  BY DEF chain
<1>2. ChainInv' /\ TaskInv'
  BY <1>1
  DEF IInv, WorkInv, ChainInv, TaskInv, AskedFor, Fits, KeyCall, OwnCall, Instruct
<1>3. WorkType'
  BY <1>1, Shapes DEF IInv, WorkInv, WorkType
<1>4. QED
  BY <1>2, <1>3 DEF WorkInv

LEMMA ReloadKeeps ==
  ASSUME IInv, Reload PROVE WorkInv'
<1>1. UNCHANGED <<calls, instructions, answers, machine>> /\ activity' = {}
  BY DEF Reload, chain
<1>2. /\ tasks' \in Seq(TaskType) /\ Len(tasks') = Len(tasks)
      /\ DOMAIN tasks' = DOMAIN tasks
      /\ \A t \in DOMAIN tasks :
            /\ tasks'[t].step = "gone" /\ tasks'[t].kind = tasks[t].kind
            /\ tasks'[t].data = tasks[t].data
  BY ReloadDrops DEF IInv
<1>3. /\ \A u : KeyCall(u)' = KeyCall(u)
      /\ \A u \in DOMAIN tasks : OwnCall(u)' = OwnCall(u)
  BY <1>2 DEF KeyCall, OwnCall, Instruct
<1>4. ASSUME NEW c, AskedFor(c) PROVE AskedFor(c)'
  BY <1>2, <1>3, <1>4 DEF AskedFor
<1>5. ChainInv'
  BY <1>1, <1>4 DEF IInv, WorkInv, ChainInv
<1>6. TaskInv'
  BY <1>2 DEF TaskInv, Fits
<1>7. WorkType'
  BY <1>1, <1>2 DEF IInv, WorkInv, WorkType, machine
<1>8. QED
  BY <1>5, <1>6, <1>7 DEF WorkInv

LEMMA ClickKeeps ==
  ASSUME IInv, NEW kind, NEW data, Click(kind, data),
         UNCHANGED <<instructions, answers, machine, activity>>,
         \/ kind = "lock" /\ data \in Rules
         \/ kind = "approve" /\ data \in Intents
  PROVE  WorkInv'
<1>1. PICK n \in Nat : n = Len(tasks) + 1
  BY Shapes DEF IInv
<1>2. /\ tasks' \in Seq(TaskType) /\ Len(tasks') = n /\ n <= MaxTasks
      /\ DOMAIN tasks' = DOMAIN tasks \cup {n} /\ n \notin DOMAIN tasks
      /\ \A u \in DOMAIN tasks : tasks'[u] = tasks[u]
      /\ tasks'[n] = [kind |-> kind, data |-> data, step |-> "loadKey", id |-> 0]
      /\ calls' = calls \cup {KeyCall(n)} /\ KeyCall(n) \in Instruction
  BY <1>1, ClickAdds DEF IInv
<1>3. /\ \A u : KeyCall(u)' = KeyCall(u)
      /\ \A u \in DOMAIN tasks : OwnCall(u)' = OwnCall(u)
  BY <1>2 DEF KeyCall, OwnCall, Instruct
<1>4. ASSUME NEW c, AskedFor(c) PROVE AskedFor(c)'
  BY <1>2, <1>3, <1>4 DEF AskedFor
<1>5. /\ \A c \in calls : c.task \in DOMAIN tasks
      /\ \A i \in DOMAIN instructions : instructions[i].task \in DOMAIN tasks
  BY DEF IInv, WorkInv, ChainInv, AskedFor
<1>6. KeyCall(n).task = n /\ KeyCall(n).op = "updateKey"
  BY TwoCalls
<1>7. ChainInv'
  <2>1. AskedFor(KeyCall(n))'
    BY <1>2, <1>3, <1>6 DEF AskedFor
  <2>2. \A i \in DOMAIN instructions : instructions[i] # KeyCall(n)
    BY <1>2, <1>5, <1>6
  <2>3. QED
    BY <1>2, <1>4, <2>1, <2>2 DEF IInv, WorkInv, ChainInv
<1>8. ASSUME NEW u \in DOMAIN tasks'
      PROVE  Fits(u, tasks[u].step, tasks[u].id)'
  <2>1. CASE u = n
    <3>1. OwnCall(u)'.task = u /\ OwnCall(u)' # KeyCall(n)
      BY <1>6 DEF OwnCall, Instruct, KeyCall
    <3>2. OwnCall(u)' \notin calls'
          /\ \A i \in DOMAIN instructions : instructions[i] # OwnCall(u)'
      BY <1>2, <1>5, <2>1, <3>1
    <3>3. tasks'[u].step = "loadKey"
      BY <1>2, <2>1
    <3>4. QED
      BY <3>2, <3>3 DEF Fits
  <2>2. CASE u \in DOMAIN tasks
    <3>1. PICK s, i : s = tasks[u].step /\ i = tasks[u].id
      OBVIOUS
    <3>2. Fits(u, s, i) /\ tasks'[u] = tasks[u]
      BY <1>2, <2>2, <3>1 DEF IInv, WorkInv, TaskInv
    <3>3. OwnCall(u) # KeyCall(n)
      BY TwoCalls
    <3>4. QED
      BY <1>2, <1>3, <2>2, <3>1, <3>2, <3>3 DEF Fits
  <2>3. QED
    BY <1>2, <2>1, <2>2
<1>9. WorkType'
  <2>1. restartedAt' \in 0 .. Len(tasks')
    BY <1>1, <1>2, Shapes DEF IInv, WorkInv, WorkType, machine
  <2>2. QED
    BY <1>2, <2>1 DEF IInv, WorkInv, WorkType, machine
<1>10. QED
  BY <1>7, <1>8, <1>9 DEF WorkInv, TaskInv

LEMMA KeyLoadedKeeps ==
  ASSUME IInv, NEW t \in DOMAIN tasks, KeyLoaded(t)
  PROVE  WorkInv'
<1>1. PICK id : id = tasks[t].id
  OBVIOUS
<1>2. /\ tasks[t].step = "pollKey" /\ Steps(t, "send", id)
      /\ calls' = calls \cup {OwnCall(t)}
      /\ UNCHANGED <<instructions, answers, machine, activity>>
  BY <1>1 DEF KeyLoaded, OwnCall, display
<1>3. Moved(t, "send", id)
  BY <1>1, <1>2, StepsMoves, TaskFields DEF IInv, StepName
<1>4. /\ \A u : KeyCall(u)' = KeyCall(u)
      /\ \A u \in DOMAIN tasks : OwnCall(u)' = OwnCall(u)
      /\ DOMAIN tasks' = DOMAIN tasks
  BY <1>3 DEF KeyCall, OwnCall, Instruct, Moved
<1>5. ASSUME NEW c, AskedFor(c) PROVE AskedFor(c)'
  BY <1>4, <1>5 DEF AskedFor
<1>6. /\ OwnCall(t).task = t /\ OwnCall(t).op # "updateKey"
      /\ \A u : OwnCall(u).task = u
  BY TwoCalls
<1>7. ChainInv'
  <2>1. AskedFor(OwnCall(t))'
    BY <1>4, <1>6 DEF AskedFor
  <2>2. QED
    BY <1>2, <1>4, <1>5, <1>6, <2>1 DEF IInv, WorkInv, ChainInv
<1>8. ASSUME NEW u \in DOMAIN tasks
      PROVE  Fits(u, tasks[u].step, tasks[u].id)'
  <2>1. PICK s, i : s = tasks[u].step /\ i = tasks[u].id
    OBVIOUS
  <2>2. Fits(u, s, i)
    BY <2>1 DEF IInv, WorkInv, TaskInv
  <2>3. CASE u = t
    BY <1>1, <1>2, <1>3, <1>4, <2>1, <2>2, <2>3 DEF Fits, Moved
  <2>4. CASE u # t
    <3>1. tasks'[u] = tasks[u] /\ OwnCall(u) # OwnCall(t)
      BY <1>3, <1>6, <2>4 DEF Moved
    <3>2. QED
      BY <1>2, <1>4, <2>1, <2>2, <3>1 DEF Fits
  <2>5. QED
    BY <2>3, <2>4
<1>9. OwnCall(t) \in Instruction
  <2>1. t \in 1 .. MaxTasks
    BY Shapes, WebAssumption DEF IInv
  <2>2. CASE tasks[t].kind = "lock" /\ tasks[t].data \in Rules
    BY <2>1, <2>2 DEF OwnCall, Instruct, Instruction
  <2>3. CASE tasks[t].kind = "approve" /\ tasks[t].data \in Intents
    BY <2>1, <2>3 DEF OwnCall, Instruct, Instruction
  <2>4. QED
    BY <2>2, <2>3, TaskFields DEF IInv
<1>10. WorkType'
  BY <1>2, <1>3, <1>9 DEF IInv, WorkInv, WorkType, Moved, machine
<1>11. QED
  BY <1>4, <1>7, <1>8, <1>10 DEF WorkInv, TaskInv

LEMMA MineAppends ==
  ASSUME TypeOK, NEW c \in calls, Mine(c)
  PROVE  LET n == Len(instructions) + 1 IN
         /\ instructions' \in Seq(Instruction) /\ Len(instructions') = n
         /\ answers' \in Seq({"pending", "ok", "refused", "noKey"})
         /\ Len(answers') = n
         /\ DOMAIN instructions' = DOMAIN instructions \cup {n}
         /\ n \notin DOMAIN instructions
         /\ instructions'[n] = c /\ answers'[n] = "pending"
         /\ \A i \in DOMAIN instructions :
               instructions'[i] = instructions[i] /\ answers'[i] = answers[i]
<1>1. /\ c \in Instruction /\ instructions \in Seq(Instruction)
      /\ answers \in Seq({"pending", "ok", "refused", "noKey"})
      /\ Len(answers) = Len(instructions) /\ Len(instructions) \in Nat
      /\ DOMAIN instructions = 1 .. Len(instructions)
  BY Shapes DEF TypeOK, PageType, WorkType
<1>2. /\ instructions' = Append(instructions, c)
      /\ answers' = Append(answers, "pending")
  BY DEF Mine
<1>3. QED
  BY <1>1, <1>2

LEMMA MineKeeps ==
  ASSUME IInv, NEW c \in calls, Mine(c)
  PROVE  WorkInv'
<1>1. PICK n \in Nat : n = Len(instructions) + 1
  BY Shapes DEF IInv
<1>2. /\ instructions' \in Seq(Instruction) /\ Len(instructions') = n
      /\ answers' \in Seq({"pending", "ok", "refused", "noKey"})
      /\ Len(answers') = n
      /\ DOMAIN instructions' = DOMAIN instructions \cup {n}
      /\ n \notin DOMAIN instructions
      /\ instructions'[n] = c /\ answers'[n] = "pending"
      /\ \A i \in DOMAIN instructions :
            instructions'[i] = instructions[i] /\ answers'[i] = answers[i]
  BY <1>1, MineAppends DEF IInv
<1>3. /\ calls' = calls \ {c}
      /\ UNCHANGED <<tasks, machineKey, machineRules, restartedAt, activity>>
  BY DEF Mine, machine, display
<1>4. \A u : KeyCall(u)' = KeyCall(u) /\ OwnCall(u)' = OwnCall(u)
  BY <1>3 DEF KeyCall, OwnCall, Instruct
<1>5. ASSUME NEW d, AskedFor(d) PROVE AskedFor(d)'
  BY <1>3, <1>4, <1>5 DEF AskedFor
<1>6. ChainInv'
  <2>1. AskedFor(c)' /\ \A d \in calls' : AskedFor(d)'
    BY <1>3, <1>5 DEF IInv, WorkInv, ChainInv
  <2>2. ASSUME NEW i \in DOMAIN instructions' PROVE AskedFor(instructions[i])'
    <3>1. PICK d : d = instructions'[i]
      OBVIOUS
    <3>2. AskedFor(d)'
      BY <1>2, <1>5, <2>1, <3>1 DEF IInv, WorkInv, ChainInv
    <3>3. QED
      BY <3>1, <3>2 DEF AskedFor
  <2>3. ASSUME NEW i \in DOMAIN instructions, instructions[i].op = "updateKey"
        PROVE  instructions[i] # c /\ instructions[i] \notin calls'
    BY <1>3, <2>3 DEF IInv, WorkInv, ChainInv
  <2>4. \A i, j \in DOMAIN instructions' :
           instructions'[i].op = "updateKey" /\ instructions'[i] = instructions'[j]
           => i = j
    BY <1>2, <2>3 DEF IInv, WorkInv, ChainInv
  <2>5. \A i \in DOMAIN instructions' :
           instructions'[i].op = "updateKey" => instructions'[i] \notin calls'
    BY <1>2, <1>3, <2>3
  <2>6. \A i \in DOMAIN instructions' :
           answers'[i] = "noKey" => instructions'[i].op = "sign"
    BY <1>2 DEF IInv, WorkInv, ChainInv
  <2>7. QED
    BY <2>1, <2>2, <2>4, <2>5, <2>6 DEF ChainInv
<1>7. ASSUME NEW u \in DOMAIN tasks
      PROVE  Fits(u, tasks[u].step, tasks[u].id)'
  <2>1. PICK s, i : s = tasks[u].step /\ i = tasks[u].id
    OBVIOUS
  <2>2. Fits(u, s, i)
    BY <2>1 DEF IInv, WorkInv, TaskInv
  <2>3. QED
    BY <1>2, <1>3, <1>4, <2>1, <2>2 DEF Fits
<1>8. WorkType'
  BY <1>2, <1>3 DEF IInv, WorkInv, WorkType
<1>9. QED
  BY <1>3, <1>6, <1>7, <1>8 DEF WorkInv, TaskInv

(* What an execution does to the answers and to the machine. *)
Executed(i, a) ==
  /\ answers[i] = "pending" /\ a \in {"ok", "refused", "noKey"}
  /\ answers' = [answers EXCEPT ![i] = a]
  /\ a = "noKey" => instructions[i].op = "sign"
  /\ machineKey' \in BOOLEAN /\ machineRules' \in ValidRules \cup {None}
  /\ UNCHANGED <<tasks, calls, instructions, restartedAt, activity>>

LEMMA ExecuteAnswers ==
  ASSUME IInv, NEW i \in DOMAIN instructions, Execute(i)
  PROVE  \E a : Executed(i, a)
<1>1. /\ machineKey \in BOOLEAN /\ machineRules \in ValidRules \cup {None}
      /\ UNCHANGED <<tasks, calls, instructions, restartedAt, activity>>
  BY DEF IInv, TypeOK, WorkType, Execute, display
<1>2. SignAnswer(instructions[i].data) \in {"ok", "refused", "noKey"}
  BY DEF SignAnswer
<1>3. CASE instructions[i].op = "updateKey"
  BY <1>1, <1>3 DEF Execute, Executed
<1>4. CASE instructions[i].op = "setPolicy"
  BY <1>1, <1>4 DEF Execute, Executed, PolicyAccepted
<1>5. CASE instructions[i].op = "sign"
  BY <1>1, <1>2, <1>5 DEF Execute, Executed
<1>6. QED
  BY <1>3, <1>4, <1>5 DEF Execute

LEMMA ExecutedAnswers ==
  ASSUME IInv, NEW i \in DOMAIN instructions, NEW a, Executed(i, a)
  PROVE  /\ answers' \in Seq({"pending", "ok", "refused", "noKey"})
         /\ Len(answers') = Len(instructions)
         /\ \A j \in DOMAIN instructions :
               answers'[j] = IF j = i THEN a ELSE answers[j]
<1>1. /\ answers \in Seq({"pending", "ok", "refused", "noKey"})
      /\ Len(answers) = Len(instructions)
      /\ i \in 1 .. Len(answers) /\ DOMAIN instructions = 1 .. Len(answers)
  BY Shapes DEF IInv, TypeOK, PageType, WorkType
<1>2. QED
  BY <1>1 DEF Executed

LEMMA ExecuteKeeps ==
  ASSUME IInv, NEW i \in DOMAIN instructions, Execute(i)
  PROVE  WorkInv'
<1>1. PICK a : Executed(i, a)
  BY ExecuteAnswers
<1>2. /\ answers' \in Seq({"pending", "ok", "refused", "noKey"})
      /\ Len(answers') = Len(instructions)
      /\ \A j \in DOMAIN instructions :
            answers'[j] = IF j = i THEN a ELSE answers[j]
  BY <1>1, ExecutedAnswers
<1>3. /\ UNCHANGED <<tasks, calls, instructions, restartedAt, activity>>
      /\ machineKey' \in BOOLEAN /\ machineRules' \in ValidRules \cup {None}
      /\ answers[i] = "pending"
      /\ a = "noKey" => instructions[i].op = "sign"
  BY <1>1 DEF Executed
<1>4. \A u : KeyCall(u)' = KeyCall(u) /\ OwnCall(u)' = OwnCall(u)
  BY <1>3 DEF KeyCall, OwnCall, Instruct
<1>5. ChainInv'
  BY <1>2, <1>3, <1>4 DEF IInv, WorkInv, ChainInv, AskedFor
<1>6. ASSUME NEW u \in DOMAIN tasks
      PROVE  Fits(u, tasks[u].step, tasks[u].id)'
  <2>1. PICK s, j : s = tasks[u].step /\ j = tasks[u].id
    OBVIOUS
  <2>2. Fits(u, s, j)
    BY <2>1 DEF IInv, WorkInv, TaskInv
  <2>3. s = "verify" => answers'[j] = "ok"
    BY <1>2, <1>3, <2>2 DEF Fits
  <2>4. QED
    BY <1>3, <1>4, <2>1, <2>2, <2>3 DEF Fits
<1>7. WorkType'
  BY <1>2, <1>3 DEF IInv, WorkInv, WorkType
<1>8. QED
  BY <1>3, <1>5, <1>6, <1>7 DEF WorkInv, TaskInv

-----------------------------------------------------------------------------
(* The steps of a task, one by one. *)

LEMMA EndKeeps ==
  ASSUME IInv, NEW t \in DOMAIN tasks, Ends(t), UNCHANGED <<chain, machine>>,
         \A a \in activity' : a.id \in DOMAIN instructions
  PROVE  WorkInv'
<1>1. Moved(t, "ended", tasks[t].id)
  BY EndsMoves DEF IInv
<1>2. Fits(t, "ended", tasks[t].id)
  BY DEF Fits
<1>3. QED
  BY <1>1, <1>2, MoveKeeps

LEMMA AnnounceType ==
  ASSUME IInv, NEW t \in DOMAIN tasks, tasks[t].step \in {"poll", "verify"},
         NEW title \in {"rulesLocked", "lockFailed", "payoutApproved",
                        "payoutBlocked"},
         Announce(title, t)
  PROVE  /\ activity' \subseteq Entry
         /\ \A a \in activity' : a.id \in DOMAIN instructions
<1>1. tasks[t].id \in DOMAIN instructions
  BY DEF IInv, WorkInv, TaskInv, Fits
<1>2. tasks[t].data \in Rules \cup Intents /\ tasks[t].id \in Nat
  BY TaskFields DEF IInv
<1>3. activity \subseteq Entry /\ \A a \in activity : a.id \in DOMAIN instructions
  BY DEF IInv, TypeOK, PageType, WorkType
<1>4. QED
  BY <1>1, <1>2, <1>3 DEF Announce, Entry

(* An instruction of a task that waits for its key carries the key; one    *)
(* other than the key's is the task's own.                                 *)
LEMMA MinedIs ==
  ASSUME IInv, NEW t \in DOMAIN tasks, NEW i, Mined(t, i)
  PROVE  /\ tasks[t].step = "loadKey" => Fits(t, "pollKey", i)
         /\ tasks[t].step = "send" /\ i # tasks[t].id => Fits(t, "poll", i)
<1>1. i \in DOMAIN instructions /\ instructions[i] \in {KeyCall(t), OwnCall(t)}
  BY DEF Mined, IInv, WorkInv, ChainInv, AskedFor
<1>2. PICK s, id : s = tasks[t].step /\ id = tasks[t].id /\ Fits(t, s, id)
  BY DEF IInv, WorkInv, TaskInv
<1>3. CASE s = "loadKey"
  BY <1>1, <1>2, <1>3 DEF Fits
<1>4. CASE s = "send" /\ i # id
  <2>1. id \in DOMAIN instructions /\ instructions[id] = KeyCall(t)
    BY <1>2, <1>4 DEF Fits
  <2>2. instructions[i] # KeyCall(t)
    BY <1>1, <1>4, <2>1, TwoCalls DEF IInv, WorkInv, ChainInv
  <2>3. QED
    BY <1>1, <1>2, <1>4, <2>2 DEF Fits
<1>5. QED
  BY <1>2, <1>3, <1>4

LEMMA ResumeKeeps ==
  ASSUME IInv, NEW t \in DOMAIN tasks, Resume(t) \/ Hangs(t)
  PROVE  WorkInv'
<1> DEFINE IdsExist == \A a \in activity' : a.id \in DOMAIN instructions
<1>1. activity' = activity => IdsExist
  BY DEF IInv, TypeOK, PageType, WorkType
<1>2. DOMAIN instructions \subseteq Nat
  BY Shapes DEF IInv
<1>3. CASE KeySent(t)
  <2>1. PICK i : Mined(t, i) /\ Steps(t, "pollKey", i)
    BY <1>3 DEF KeySent
  <2>2. Moved(t, "pollKey", i)
    BY <1>2, <2>1, StepsMoves DEF IInv, Mined, StepName
  <2>3. Fits(t, "pollKey", i)
    BY <1>3, <2>1, MinedIs DEF KeySent
  <2>4. QED
    BY <1>1, <1>3, <2>2, <2>3, MoveKeeps DEF KeySent, display
<1>4. CASE KeyLoaded(t)
  BY <1>4, KeyLoadedKeeps
<1>5. CASE Sent(t)
  <2>1. PICK i : Mined(t, i) /\ i # tasks[t].id /\ Steps(t, "poll", i)
    BY <1>5 DEF Sent
  <2>2. Moved(t, "poll", i)
    BY <1>2, <2>1, StepsMoves DEF IInv, Mined, StepName
  <2>3. Fits(t, "poll", i)
    BY <1>5, <2>1, MinedIs DEF Sent
  <2>4. QED
    BY <1>1, <1>5, <2>2, <2>3, MoveKeeps DEF Sent, display
<1>6. CASE ProofShown(t)
  <2>1. PICK id : id = tasks[t].id
    OBVIOUS
  <2>2. Moved(t, "verify", id)
    BY <1>6, <2>1, StepsMoves, TaskFields DEF IInv, ProofShown, StepName
  <2>3. Fits(t, "poll", id) /\ tasks[t].kind = "approve" /\ answers[id] = "ok"
    BY <1>6, <2>1 DEF IInv, WorkInv, TaskInv, ProofShown
  <2>4. Fits(t, "verify", id)
    BY <2>3 DEF Fits
  <2>5. QED
    BY <1>1, <1>6, <2>2, <2>4, MoveKeeps DEF ProofShown
<1>7. CASE LockAnswered(t)
  <2>1. IdsExist
    BY <1>7, AnnounceType DEF LockAnswered, LockAccepted, LockRefused
  <2>2. QED
    BY <1>7, <2>1, EndKeeps DEF LockAnswered
<1>8. CASE ProofVerified(t)
  <2>1. IdsExist
    BY <1>8, AnnounceType DEF ProofVerified
  <2>2. QED
    BY <1>8, <2>1, EndKeeps DEF ProofVerified
<1>9. CASE PayoutBlocked(t)
  <2>1. IdsExist
    BY <1>9, AnnounceType DEF PayoutBlocked
  <2>2. QED
    BY <1>9, <2>1, EndKeeps DEF PayoutBlocked
<1>10. CASE \E vaultError \in BOOLEAN : Throws(t, vaultError)
  BY <1>1, <1>10, EndKeeps DEF Throws
<1>11. CASE Hangs(t)
  <2>1. Moved(t, "hung", 0)
    BY <1>11, StepsMoves DEF IInv, Hangs, StepName
  <2>2. Fits(t, "hung", 0)
    BY DEF Fits
  <2>3. QED
    BY <1>1, <1>11, <2>1, <2>2, MoveKeeps DEF Hangs, display
<1>12. QED
  BY <1>3, <1>4, <1>5, <1>6, <1>7, <1>8, <1>9, <1>10, <1>11
  DEF Resume, Hangs, KeyRefused, CallFails, PollFails

-----------------------------------------------------------------------------
(* The page's own variables. *)

LEMMA ViewType ==
  ASSUME PageType, NEW id \in Views, ShowView(id)
  PROVE  /\ view' \in Views /\ policyLocking' \in BOOLEAN
         /\ approveButton' \in {"enabled", "disabled"} /\ reopened' \in BOOLEAN
<1>1. Shown(id) \in Views
  BY DEF Shown, Views
<1>2. view' \in Views /\ approveButton' \in {"enabled", "disabled"}
  BY <1>1 DEF ShowView, Sync
<1>3. policyLocking' \in BOOLEAN /\ reopened' \in BOOLEAN
  BY DEF PageType, ShowView
<1>4. QED
  BY <1>2, <1>3

LEMMA SyncType ==
  ASSUME Sync PROVE approveButton' \in {"enabled", "disabled"}
BY DEF Sync

LEMMA HiddenType ==
  ASSUME HideProof
  PROVE  proof' \in [sig : Nat, tx : Nat] /\ receipt' \in [sig : Nat, tx : Nat]
BY DEF HideProof, NoProof, NoReceipt

LEMMA DisconnectType ==
  ASSUME PageType, DisconnectVault, UNCHANGED <<probes, activity>>
  PROVE  PageType'
<1>1. "landing" \in Views /\ ShowView("landing") /\ HideProof
  BY DEF Views, DisconnectVault
<1>2. QED
  BY <1>1, ViewType, HiddenType DEF PageType, DisconnectVault

LEMMA ResumeType ==
  ASSUME IInv, PageType, NEW t \in DOMAIN tasks, Resume(t) \/ Hangs(t)
  PROVE  PageType'
<1>1. tasks[t].id \in Nat /\ (tasks[t].kind = "lock" => tasks[t].data \in Rules)
  BY TaskFields DEF IInv
<1>2. CASE UNCHANGED <<session, display>>
  BY <1>2 DEF PageType, session, display
<1>3. CASE LockAnswered(t)
  <2>1. activity' \subseteq Entry
    BY <1>3, AnnounceType DEF LockAnswered, LockAccepted, LockRefused
  <2>2. Shown("send") \in Views
    BY DEF Shown, Views
  <2>3. /\ view' \in Views /\ policy' \in Rules \cup {None}
        /\ proof' \in [sig : Nat, tx : Nat] /\ receipt' \in [sig : Nat, tx : Nat]
    BY <1>1, <1>3, <2>2, HiddenType
    DEF LockAnswered, LockAccepted, LockRefused, PageType
  <2>4. QED
    BY <1>3, <2>1, <2>3, SyncType DEF LockAnswered, PageType, session
<1>4. CASE ProofShown(t)
  BY <1>1, <1>4 DEF ProofShown, PageType, session
<1>5. CASE ProofVerified(t)
  <2>1. activity' \subseteq Entry
    BY <1>5, AnnounceType DEF ProofVerified
  <2>2. receipt' \in [sig : Nat, tx : Nat]
    BY <1>1, <1>5 DEF ProofVerified, PageType
  <2>3. QED
    BY <1>5, <2>1, <2>2, SyncType DEF ProofVerified, PageType, session
<1>6. CASE PayoutBlocked(t)
  <2>1. activity' \subseteq Entry
    BY <1>6, AnnounceType DEF PayoutBlocked
  <2>2. QED
    BY <1>6, <2>1, SyncType, HiddenType DEF PayoutBlocked, PageType, session
<1>7. ASSUME NEW vaultError \in BOOLEAN, Throws(t, vaultError) PROVE PageType'
  <2>1. UNCHANGED <<activity, reopened>>
    BY <1>7 DEF Throws
  <2>2. CASE LockThrows(t)
    BY <2>1, <2>2, SyncType DEF LockThrows, PageType, session
  <2>3. CASE ApproveThrows(t, vaultError) /\ vaultError
    BY <2>1, <2>3, DisconnectType DEF ApproveThrows
  <2>4. CASE ApproveThrows(t, vaultError) /\ ~ vaultError
    BY <2>1, <2>4, SyncType, HiddenType DEF ApproveThrows, PageType, session
  <2>5. QED
    BY <1>7, <2>2, <2>3, <2>4 DEF Throws
<1>8. QED
  BY <1>2, <1>3, <1>4, <1>5, <1>6, <1>7
  DEF Resume, Hangs, KeySent, KeyLoaded, Sent, KeyRefused, CallFails, PollFails

LEMMA NextType ==
  ASSUME IInv, PageType, [Next]_vars
  PROVE  PageType'
<1>1. \A id \in Views : ShowView(id) =>
        /\ view' \in Views /\ policyLocking' \in BOOLEAN
        /\ approveButton' \in {"enabled", "disabled"} /\ reopened' \in BOOLEAN
  BY ViewType
<1>2. "landing" \in Views /\ "home" \in Views
  BY DEF Views
<1>3. CASE Connect
  BY <1>3, WebAssumption DEF Connect, PageType, display
<1>4. CASE ConnectFails
  <2>1. probes' \in 0 .. MaxProbes
    BY <1>4, WebAssumption DEF ConnectFails, PageType
  <2>2. QED
    BY <1>1, <1>2, <1>4, <2>1 DEF ConnectFails, PageType
<1>5. CASE Connected
  BY <1>1, <1>2, <1>5, WebAssumption DEF Connected, PageType
<1>6. CASE Disconnect
  BY <1>6, DisconnectType DEF Disconnect
<1>7. ASSUME NEW id \in Views \ {"landing"}, Navigate(id) PROVE PageType'
  BY <1>1, <1>7 DEF Navigate, PageType, session
<1>8. CASE ApplyScenario
  BY <1>8, SyncType DEF ApplyScenario, PageType, session
<1>9. CASE Reload
  <2>1. probes' \in 0 .. MaxProbes
    BY <1>9, WebAssumption DEF Reload
  <2>2. QED
    BY <1>2, <1>9, <2>1, HiddenType DEF Reload, PageType
<1>10. ASSUME NEW rules \in Rules, Lock(rules) PROVE PageType'
  BY <1>10, SyncType DEF Lock, PageType, session
<1>11. ASSUME NEW intent \in Intents, Approve(intent) PROVE PageType'
  BY <1>11 DEF Approve, PageType, session
<1>12. ASSUME NEW t \in DOMAIN tasks, Resume(t) \/ Hangs(t) PROVE PageType'
  BY <1>12, ResumeType
<1>13. CASE UNCHANGED <<session, display>>
  BY <1>13 DEF PageType, session, display
<1>14. QED
  BY <1>3, <1>4, <1>5, <1>6, <1>7, <1>8, <1>9, <1>10, <1>11, <1>12, <1>13
  DEF Next, Mine, Execute, MachineRestarts, vars

-----------------------------------------------------------------------------
(* Every instruction is one a click asked for, and every task awaits the   *)
(* answer to its own.                                                      *)
THEOREM InductiveInvariant == Spec => []IInv
<1>1. Init => IInv
  <2>1. SUFFICES ASSUME Init PROVE IInv
    OBVIOUS
  <2>2. PageType
    <3>1. NoProof \in [sig : Nat, tx : Nat] /\ probes \in 0 .. MaxProbes
      BY <2>1, WebAssumption DEF Init, NoProof
    <3>2. QED
      BY <2>1, <3>1 DEF Init, PageType, Views, NoReceipt
  <2>3. WorkType
    <3>1. tasks \in Seq(TaskType) /\ instructions \in Seq(Instruction)
          /\ answers \in Seq({"pending", "ok", "refused", "noKey"})
      BY <2>1 DEF Init
    <3>2. Len(tasks) = 0 /\ Len(instructions) = 0 /\ Len(answers) = 0
      BY <2>1 DEF Init
    <3>3. Len(tasks) <= MaxTasks /\ restartedAt \in 0 .. Len(tasks)
      BY <2>1, <3>2, WebAssumption DEF Init
    <3>4. /\ machineKey \in BOOLEAN /\ machineRules \in ValidRules \cup {None}
          /\ activity = {} /\ calls = {}
      BY <2>1 DEF Init
    <3>5. QED
      BY <3>1, <3>2, <3>3, <3>4 DEF WorkType
  <2>4. ChainInv /\ TaskInv
    BY <2>1 DEF Init, ChainInv, TaskInv
  <2>5. QED
    BY <2>2, <2>3, <2>4 DEF IInv, WorkInv, TypeOK
<1>2. IInv /\ [Next]_vars => IInv'
  <2> SUFFICES ASSUME IInv, [Next]_vars PROVE IInv'
    OBVIOUS
  <2>1. PageType'
    BY NextType DEF IInv, TypeOK, PageType, WorkType
  <2>2. WorkInv'
    <3>1. CASE UNCHANGED <<tasks, chain, machine, activity>>
      BY <3>1, PageKeeps DEF IInv, TypeOK, WorkType, machine
    <3>2. CASE Reload
      BY <3>2, ReloadKeeps
    <3>3. ASSUME NEW rules \in Rules, Lock(rules) PROVE WorkInv'
      BY <3>3, ClickKeeps DEF Lock
    <3>4. ASSUME NEW intent \in Intents, Approve(intent) PROVE WorkInv'
      BY <3>4, ClickKeeps DEF Approve
    <3>5. ASSUME NEW t \in DOMAIN tasks, Resume(t) \/ Hangs(t) PROVE WorkInv'
      BY <3>5, ResumeKeeps
    <3>6. ASSUME NEW c \in calls, Mine(c) PROVE WorkInv'
      BY <3>6, MineKeeps
    <3>7. ASSUME NEW i \in DOMAIN instructions, Execute(i) PROVE WorkInv'
      BY <3>7, ExecuteKeeps
    <3>8. CASE MachineRestarts
      BY <3>8, PageKeeps DEF MachineRestarts, display
    <3>9. QED
      BY <3>1, <3>2, <3>3, <3>4, <3>5, <3>6, <3>7, <3>8
      DEF Next, Connect, ConnectFails, Connected, Disconnect, Navigate,
          ApplyScenario, vars, display
  <2>3. TypeOK'
    BY <2>1, <2>2 DEF WorkInv, TypeOK
  <2>4. QED
    BY <2>2, <2>3 DEF IInv
<1>3. QED
  BY <1>1, <1>2, PTL DEF Spec

(* The page's variables keep their types; the rules shown as locked are    *)
(* some the form lets through.                                             *)
THEOREM TypeCorrect == Spec => []TypeOK
<1>1. IInv => TypeOK
  BY DEF IInv
<1>2. QED
  BY <1>1, InductiveInvariant, PTL
=============================================================================
