------------------------- MODULE RegistrationProofs -------------------------
(* Proofs about Registration, for every value of its constants. *)
EXTENDS Registration, TLAPS

Receipts == {"pending", "ok", "reverted"}

Tx ==
  [kind : {"governance"}, machine : Machines, arg : Governances, receipt : Receipts]
    \cup [kind : Kinds \ {"governance"}, machine : Machines, arg : Nat,
          receipt : Receipts]

Runs == [machine : Machines, command : SUBSET Steps, resume : BOOLEAN,
         instruction : Nat, env : Environments, first : Nat,
         loaded : SUBSET Steps]

Places == {"idle", "version", "addVersion", "governance", "start", "load", "r", "R", "a",
           "request", "p", "production"}

ChainType ==
  /\ txs \in Seq(Tx)
  /\ machines \in [Machines -> {"NONE", "INITIALIZED", "PRODUCTION"}]
  /\ version \in BOOLEAN /\ (governance = None \/ governance \in Governances)
  /\ spent \subseteq DOMAIN txs
  /\ proofs \subseteq DOMAIN txs /\ rejected \subseteq DOMAIN txs
  /\ epoch \in 0 .. MaxEpoch /\ policy \in 0 .. MaxEpoch + 1

(* What a state file holds: instructions that were sent. *)
IsState(s) == s \in States /\ s.attest <= Len(txs) /\ s.check <= Len(txs)

ToolType ==
  /\ file \in {NoFile, Torn} \/ IsState(file)
  /\ IsState(state)
  /\ pc \in Places
  /\ awaiting \in 0 .. Len(txs)
  /\ attest \in 0 .. Len(txs) /\ check \in 0 .. Len(txs)
  /\ pc = "idle" => run = NoRun /\ awaiting = 0
  /\ pc # "idle" => /\ run \in Runs /\ run.first <= Len(txs) + 1
                    /\ run.instruction <= Len(txs)
  /\ pc = "production" => check \in DOMAIN txs
  /\ faults \in 0 .. MaxFaults

(* TypeOK, with the types of txs and of a run. *)
TypeInv == ChainType /\ ToolType

-----------------------------------------------------------------------------
(* The transactions.                                                       *)

LEMMA TxFields ==
  ASSUME TypeInv
  PROVE  /\ DOMAIN txs = 1 .. Len(txs) /\ Len(txs) \in Nat
         /\ \A i \in DOMAIN txs :
              /\ txs[i] \in Tx
              /\ txs[i] = [kind |-> txs[i].kind, machine |-> txs[i].machine,
                           arg |-> txs[i].arg, receipt |-> txs[i].receipt]
BY DEF TypeInv, ChainType, Tx

(* Transactions stay where they are; a receipt, once there, stays. *)
Grow ==
  \A i \in DOMAIN txs :
    /\ i \in DOMAIN txs'
    /\ txs'[i].kind = txs[i].kind /\ txs'[i].machine = txs[i].machine
    /\ txs'[i].arg = txs[i].arg
    /\ txs[i].receipt # "pending" => txs'[i].receipt = txs[i].receipt

(* One is appended. *)
Appended(kind, m, arg) ==
  /\ txs' \in Seq(Tx) /\ Len(txs') = Len(txs) + 1
  /\ DOMAIN txs' = DOMAIN txs \cup {Len(txs) + 1}
  /\ Len(txs) + 1 \notin DOMAIN txs
  /\ txs'[Len(txs) + 1] = [kind |-> kind, machine |-> m, arg |-> arg,
                           receipt |-> "pending"]
  /\ \A i \in DOMAIN txs : txs'[i] = txs[i]

LEMMA SubmitAppends ==
  ASSUME TypeInv, NEW kind \in Kinds, NEW m \in Machines, NEW arg,
         IF kind = "governance" THEN arg \in Governances ELSE arg \in Nat,
         Submit(m, kind, arg)
  PROVE  \/ /\ Appended(kind, m, arg) /\ awaiting' = Len(txs) + 1
            /\ UNCHANGED <<local, pc, outcome>>
         \/ Fails /\ UNCHANGED txs
<1> DEFINE r == [kind |-> kind, machine |-> m, arg |-> arg, receipt |-> "pending"]
<1>1. r \in Tx
  BY DEF Tx, Receipts
<1>2. txs \in Seq(Tx) /\ DOMAIN txs = 1 .. Len(txs) /\ Len(txs) \in Nat
  BY TxFields DEF TypeInv, ChainType
<1> HIDE DEF r
<1>3. ASSUME txs' = Append(txs, r)
      PROVE  /\ txs' \in Seq(Tx) /\ Len(txs') = Len(txs) + 1
             /\ DOMAIN txs' = DOMAIN txs \cup {Len(txs) + 1}
             /\ Len(txs) + 1 \notin DOMAIN txs
             /\ txs'[Len(txs) + 1] = r
             /\ \A i \in DOMAIN txs : txs'[i] = txs[i]
  BY <1>1, <1>2, <1>3
<1>4. QED
  BY <1>3 DEF Submit, Appended, r

LEMMA AppendedGrows ==
  ASSUME NEW kind, NEW m, NEW arg, Appended(kind, m, arg) PROVE Grow
BY DEF Appended, Grow

LEMMA SameGrows ==
  ASSUME UNCHANGED txs PROVE Grow
BY DEF Grow

(* What Mine does to transaction i. *)
MinedAt(i) ==
  /\ i \in DOMAIN txs /\ txs[i].receipt = "pending"
  /\ txs' \in Seq(Tx) /\ Len(txs') = Len(txs) /\ DOMAIN txs' = DOMAIN txs
  /\ \A j \in DOMAIN txs :
       /\ j # i => txs'[j] = txs[j]
       /\ txs'[j].kind = txs[j].kind /\ txs'[j].machine = txs[j].machine
       /\ txs'[j].arg = txs[j].arg
  /\ txs'[i].receipt =
       IF Accepts(txs[i].kind, txs[i].machine, txs[i].arg) THEN "ok" ELSE "reverted"

LEMMA ReceiptSet ==
  ASSUME TypeInv, NEW i \in DOMAIN txs, txs[i].receipt = "pending",
         NEW ok \in BOOLEAN,
         ok <=> Accepts(txs[i].kind, txs[i].machine, txs[i].arg),
         txs' = [txs EXCEPT ![i].receipt = IF ok THEN "ok" ELSE "reverted"]
  PROVE  MinedAt(i)
<1>1. PICK t, v : t = txs[i] /\ v = IF ok THEN "ok" ELSE "reverted"
  OBVIOUS
<1>2. t \in Tx /\ v \in Receipts
  BY <1>1, TxFields DEF Receipts
<1>3. PICK r : r = [t EXCEPT !.receipt = v]
  OBVIOUS
<1>4. /\ r \in Tx /\ r.kind = t.kind /\ r.machine = t.machine /\ r.arg = t.arg
      /\ r.receipt = v
  BY <1>2, <1>3 DEF Tx
<1>5. txs' = [txs EXCEPT ![i] = r]
  BY <1>1, <1>3
<1>6. txs \in Seq(Tx) /\ DOMAIN txs = 1 .. Len(txs) /\ Len(txs) \in Nat
  BY TxFields DEF TypeInv, ChainType
<1>7. /\ txs' \in Seq(Tx) /\ Len(txs') = Len(txs) /\ DOMAIN txs' = DOMAIN txs
      /\ txs'[i] = r /\ \A j \in DOMAIN txs : j # i => txs'[j] = txs[j]
  BY <1>4, <1>5, <1>6
<1>8. QED
  BY <1>1, <1>4, <1>7 DEF MinedAt

LEMMA MineMines ==
  ASSUME TypeInv, Mine PROVE \E i : MinedAt(i)
BY ReceiptSet DEF Mine

LEMMA MinedAtGrows ==
  ASSUME NEW i, MinedAt(i) PROVE Grow
BY DEF MinedAt, Grow

-----------------------------------------------------------------------------
(* Types of the tools' variables.                                          *)

LEMMA GovernanceType ==
  ASSUME NEW env \in Environments PROVE Governance(env) \in Governances
BY DEF Governances

LEMMA FaultType ==
  ASSUME ToolType, Fault \/ UNCHANGED faults PROVE faults' \in 0 .. MaxFaults
BY RegistrationAssumption DEF ToolType, Fault

LEMMA NoStateType ==
  NoState \in States /\ NoState.attest = 0 /\ NoState.check = 0
BY DEF NoState, States, Steps

(* A run ends. *)
LEMMA EndsType ==
  ASSUME TypeInv, UNCHANGED txs, pc' = "idle", awaiting' = 0, run' = NoRun,
         state' = NoState, attest' = 0, check' = 0,
         file' \in {file, NoFile, Torn}, Fault \/ UNCHANGED faults
  PROVE  ToolType'
<1>1. Len(txs) \in Nat
  BY TxFields
<1>2. QED
  BY <1>1, FaultType, NoStateType DEF TypeInv, ToolType, Places, IsState

(* A run sends a transaction. *)
LEMMA SendsType ==
  ASSUME TypeInv, NEW kind, NEW m, NEW arg, Appended(kind, m, arg),
         awaiting' = Len(txs) + 1, UNCHANGED <<local, pc, file>>, pc # "idle",
         Fault \/ UNCHANGED faults
  PROVE  ToolType'
<1>1. PICK n \in Nat : n = Len(txs)
  BY TxFields
<1>2. Len(txs') = n + 1 /\ DOMAIN txs \subseteq DOMAIN txs'
  BY <1>1 DEF Appended
<1>3. UNCHANGED <<run, state, attest, check>>
  BY DEF local
<1>4. run \in Runs => run.first \in Nat /\ run.instruction \in Nat
  BY DEF Runs
<1>5. /\ file \in {NoFile, Torn} \/ IsState(file)'
      /\ IsState(state)'
  BY <1>1, <1>2, <1>3 DEF TypeInv, ToolType, IsState, States
<1>6. QED
  BY <1>1, <1>2, <1>3, <1>4, <1>5, FaultType DEF TypeInv, ToolType, IsState

(* A run goes on, or stays where it is. *)
LEMMA GoesType ==
  ASSUME TypeInv, UNCHANGED txs, pc # "idle", pc' \in Places \ {"idle"},
         \/ run' = run
         \/ /\ run' \in Runs /\ run'.first = run.first
            /\ run'.instruction = run.instruction,
         awaiting' \in {0, awaiting}, IsState(state'),
         attest' \in 0 .. Len(txs), check' \in 0 .. Len(txs),
         file' \in {file, NoFile, Torn} \/ IsState(file'),
         pc' = "production" => check' \in DOMAIN txs,
         Fault \/ UNCHANGED faults
  PROVE  ToolType'
<1>1. Len(txs) \in Nat
  BY TxFields
<1>2. QED
  BY <1>1, FaultType DEF TypeInv, ToolType, IsState

LEMMA UnderWay ==
  ASSUME TypeInv, pc # "idle"
  PROVE  /\ run.machine \in Machines /\ run.env \in Environments
         /\ run.command \subseteq Steps /\ run.first \in Nat
         /\ run.instruction \in Nat
BY DEF TypeInv, ToolType, Runs

(* What every step of the tools keeps. *)
Kept == ToolType' /\ txs' \in Seq(Tx) /\ Grow

LEMMA KeptIfUnsent ==
  ASSUME TypeInv, UNCHANGED txs, ToolType' PROVE Kept
BY SameGrows DEF Kept, TypeInv, ChainType

LEMMA FailsKeeps ==
  ASSUME TypeInv, Fails, UNCHANGED txs, file' \in {file, NoFile, Torn},
         Fault \/ UNCHANGED faults
  PROVE  Kept
BY EndsType, KeptIfUnsent DEF Fails

LEMMA FinishesKeeps ==
  ASSUME TypeInv, Finishes, UNCHANGED txs PROVE Kept
BY EndsType, KeptIfUnsent DEF Finishes

LEMMA SubmitKeeps ==
  ASSUME TypeInv, NEW kind \in Kinds, NEW m \in Machines, NEW arg,
         IF kind = "governance" THEN arg \in Governances ELSE arg \in Nat,
         Submit(m, kind, arg), pc # "idle", UNCHANGED file,
         Fault \/ UNCHANGED faults
  PROVE  Kept
<1>1. CASE /\ Appended(kind, m, arg) /\ awaiting' = Len(txs) + 1
           /\ UNCHANGED <<local, pc, outcome>>
  BY <1>1, SendsType, AppendedGrows DEF Appended, Kept
<1>2. CASE Fails /\ UNCHANGED txs
  BY <1>2, FailsKeeps
<1>3. QED
  BY <1>1, <1>2, SubmitAppends

(* A step that sends nothing and touches none but pc and what it waits for. *)
LEMMA PlainKeeps ==
  ASSUME TypeInv, UNCHANGED <<txs, local, file>>, pc # "idle",
         pc' \in Places \ {"idle", "production"}, awaiting' \in {0, awaiting},
         Fault \/ UNCHANGED faults
  PROVE  Kept
<1>1. UNCHANGED <<run, state, attest, check, file>>
  BY DEF local
<1>2. IsState(state) /\ attest \in 0 .. Len(txs) /\ check \in 0 .. Len(txs)
  BY DEF TypeInv, ToolType
<1>3. QED
  BY <1>1, <1>2, GoesType, KeptIfUnsent

-----------------------------------------------------------------------------
(* The tools, step by step.                                                *)

LEMMA VersionKeeps ==
  ASSUME TypeInv, AddTeeVersion PROVE Kept
<1>1. pc # "idle" /\ UNCHANGED <<file, faults>> /\ run.machine \in Machines
  BY UnderWay DEF AddTeeVersion, At
<1>2. CASE Goto("governance") /\ Unsent /\ UNCHANGED <<local, outcome>>
  BY <1>1, <1>2, PlainKeeps DEF Goto, Unsent, chain, Places
<1>3. CASE Submit(run.machine, "version", 0)
  BY <1>1, <1>3, SubmitKeeps DEF Kinds
<1>4. QED
  BY <1>2, <1>3 DEF AddTeeVersion

LEMMA GovernanceKeeps ==
  ASSUME TypeInv, SetTeeGovernance PROVE Kept
<1>1. PICK g : g = Governance(run.env)
  OBVIOUS
<1>2. /\ pc # "idle" /\ UNCHANGED file /\ run.machine \in Machines
      /\ g \in Governances
  BY <1>1, UnderWay, GovernanceType DEF SetTeeGovernance, At
<1>3. CASE Fails /\ Unsent /\ UNCHANGED faults
  BY <1>2, <1>3, FailsKeeps DEF Unsent, chain
<1>4. CASE Goto("start") /\ Unsent /\ UNCHANGED <<local, outcome, faults>>
  BY <1>2, <1>4, PlainKeeps DEF Goto, Unsent, chain, Places
<1>5. CASE /\ Submit(run.machine, "governance", g)
           /\ Fault \/ UNCHANGED faults
  BY <1>2, <1>5, SubmitKeeps DEF Kinds
<1>6. QED
  BY <1>1, <1>3, <1>4, <1>5 DEF SetTeeGovernance

LEMMA LoadKeeps ==
  ASSUME TypeInv, LoadState PROVE Kept
<1>1. UNCHANGED <<txs, file, faults>> /\ pc # "idle"
  BY DEF LoadState, At, chain
<1>2. CASE Fails
  BY <1>1, <1>2, FailsKeeps
<1>3. CASE ~ Fails
  <2>1. PICK loaded : /\ loaded = IF file = NoFile THEN NoState ELSE file
                      /\ file # Torn /\ state' = loaded
                      /\ run' = [run EXCEPT !.loaded = loaded.steps]
                      /\ Goto("r") /\ UNCHANGED <<attest, check, outcome>>
    BY <1>3 DEF LoadState
  <2>2. IsState(loaded)
    BY <2>1, NoStateType, TxFields DEF TypeInv, ToolType, IsState
  <2>3. loaded.steps \in SUBSET Steps
    BY <2>2 DEF IsState, States
  <2>4. /\ run' \in Runs /\ run'.first = run.first
        /\ run'.instruction = run.instruction
    BY <1>1, <2>1, <2>3 DEF TypeInv, ToolType, Runs
  <2>5. attest' \in 0 .. Len(txs) /\ check' \in 0 .. Len(txs)
    BY <2>1 DEF TypeInv, ToolType
  <2>6. pc' = "r" /\ awaiting' = awaiting
    BY <2>1 DEF Goto
  <2>7. QED
    BY <1>1, <2>1, <2>2, <2>4, <2>5, <2>6, GoesType, KeptIfUnsent DEF Places
<1>4. QED
  BY <1>2, <1>3

LEMMA SkipKeeps ==
  ASSUME TypeInv, NEW step, NEW next \in {"R", "a"}, SkipAttestation(step, next),
         step \in {"r", "R"}
  PROVE  Kept
<1>1. /\ UNCHANGED <<txs, run, state, check, file, faults, awaiting>>
      /\ pc # "idle" /\ pc' = next
  BY DEF SkipAttestation, At, Goto, chain
<1>2. /\ IsState(state) /\ attest' \in 0 .. Len(txs)
      /\ check \in 0 .. Len(txs)
  BY DEF TypeInv, ToolType, SkipAttestation, IsState, States
<1>3. QED
  BY <1>1, <1>2, GoesType, KeptIfUnsent DEF Places

LEMMA StepsKeep ==
  ASSUME TypeInv, StepR \/ StepReattest PROVE Kept
<1>1. /\ pc # "idle" /\ UNCHANGED file /\ run.machine \in Machines
      /\ Fault \/ UNCHANGED faults
  BY UnderWay DEF StepR, StepReattest, At
<1>2. /\ \A kind \in {"attest", "register"} :
            Submit(run.machine, kind, 0) => Kept
  BY <1>1, SubmitKeeps DEF Kinds
<1>3. QED
  BY <1>2 DEF StepR, StepReattest

(* A transaction was mined: the run remembers it and goes on. *)
LEMMA SavesKeep ==
  ASSUME TypeInv, NEW s, IsState(s), state' = s, SaveState(s), UNCHANGED <<txs, run>>,
         pc # "idle", pc' \in Places \ {"idle", "production"}, awaiting' = 0,
         attest' \in {attest, awaiting}, check' \in {check, awaiting}
  PROVE  Kept
<1>1. attest' \in 0 .. Len(txs) /\ check' \in 0 .. Len(txs)
  BY DEF TypeInv, ToolType
<1>2. (file' = file \/ file' = s) /\ (Fault \/ UNCHANGED faults)
  BY DEF SaveState
<1>3. QED
  BY <1>1, <1>2, GoesType, KeptIfUnsent

LEMMA MinedStepKeeps ==
  ASSUME TypeInv, NEW step \in {"r", "R"}, NEW next \in {"R", "a"},
         AttestationMined(step, next)
  PROVE  Kept
<1>1. PICK s : /\ s = [state EXCEPT !.steps = @ \cup {step}, !.attest = awaiting]
               /\ state' = s /\ attest' = awaiting /\ SaveState(s)
               /\ pc' = next /\ awaiting' = 0 /\ UNCHANGED <<txs, run, check>>
  BY DEF AttestationMined, chain
<1>2. PICK q : q = [state EXCEPT !.steps = @ \cup {step}]
  OBVIOUS
<1>3. IsState(q) /\ awaiting \in 0 .. Len(txs)
  BY <1>2 DEF TypeInv, ToolType, IsState, States, Steps
<1>4. s = [q EXCEPT !.attest = awaiting]
  BY <1>1, <1>2
<1>5. IsState(s)
  BY <1>3, <1>4, TxFields DEF IsState, States
<1>6. pc # "idle" /\ next \in Places \ {"idle", "production"}
  BY DEF AttestationMined, Mined, Places
<1>7. QED
  BY <1>1, <1>5, <1>6, SavesKeep

LEMMA MinedCheckKeeps ==
  ASSUME TypeInv, CheckMined PROVE Kept
<1>1. PICK s : /\ s = [state EXCEPT !.steps = @ \cup {"a"}, !.check = awaiting]
               /\ state' = s /\ check' = awaiting /\ SaveState(s)
               /\ pc' = "p" /\ awaiting' = 0 /\ UNCHANGED <<txs, run, attest>>
  BY DEF CheckMined, chain
<1>2. PICK q : q = [state EXCEPT !.steps = @ \cup {"a"}]
  OBVIOUS
<1>3. IsState(q) /\ awaiting \in 0 .. Len(txs)
  BY <1>2 DEF TypeInv, ToolType, IsState, States, Steps
<1>4. s = [q EXCEPT !.check = awaiting]
  BY <1>1, <1>2
<1>5. IsState(s)
  BY <1>3, <1>4, TxFields DEF IsState, States
<1>6. pc # "idle" /\ "p" \in Places \ {"idle", "production"}
  BY DEF CheckMined, Mined, Places
<1>7. QED
  BY <1>1, <1>5, <1>6, SavesKeep

LEMMA CheckKeeps ==
  ASSUME TypeInv, SkipCheck \/ CheckPolicy \/ RequestCheck PROVE Kept
<1>1. pc # "idle"
  BY DEF SkipCheck, CheckPolicy, RequestCheck, At
<1>2. CASE SkipCheck
  <2>1. /\ UNCHANGED <<txs, run, state, attest, file, faults, awaiting>>
        /\ pc' = "p"
    BY <1>2 DEF SkipCheck, Goto, chain
  <2>2. /\ IsState(state) /\ check' \in 0 .. Len(txs)
        /\ attest \in 0 .. Len(txs)
    BY <1>1, <1>2, UnderWay DEF TypeInv, ToolType, SkipCheck, IsState, States
  <2>3. QED
    BY <1>1, <2>1, <2>2, GoesType, KeptIfUnsent DEF Places
<1>3. CASE CheckPolicy
  <2>1. UNCHANGED <<txs, file>> /\ (Fault \/ UNCHANGED faults)
    BY <1>3 DEF CheckPolicy, chain
  <2>2. CASE Goto("request") /\ UNCHANGED <<local, outcome>>
    BY <1>1, <2>1, <2>2, PlainKeeps DEF Goto, Places
  <2>3. CASE Fails
    BY <2>1, <2>3, FailsKeeps
  <2>4. QED
    BY <1>3, <2>2, <2>3 DEF CheckPolicy
<1>4. CASE RequestCheck
  <2>1. attest \in Nat
    BY TxFields DEF TypeInv, ToolType
  <2>2. QED
    BY <1>1, <1>4, <2>1, UnderWay, SubmitKeeps DEF RequestCheck, Kinds
<1>5. QED
  BY <1>2, <1>3, <1>4

LEMMA ProductionKeeps ==
  ASSUME TypeInv,
         \/ NoProductionWanted \/ FetchProof \/ AlreadyInProduction
         \/ ToProduction \/ ProductionMined
  PROVE  Kept
<1>1. CASE NoProductionWanted \/ AlreadyInProduction \/ ProductionMined
  BY <1>1, FinishesKeeps
  DEF NoProductionWanted, AlreadyInProduction, ProductionMined, chain
<1>2. CASE FetchProof
  <2>1. /\ pc # "idle" /\ UNCHANGED <<txs, file>>
        /\ Fault \/ UNCHANGED faults
    BY <1>2 DEF FetchProof, At, chain
  <2>2. CASE check \in proofs /\ Goto("production") /\ UNCHANGED local
    <3>1. /\ UNCHANGED <<run, state, attest, check, awaiting>>
          /\ pc' = "production"
      BY <2>2 DEF Goto, local
    <3>2. /\ IsState(state) /\ check \in DOMAIN txs
          /\ attest \in 0 .. Len(txs) /\ check \in 0 .. Len(txs)
      BY <2>2 DEF TypeInv, ToolType, ChainType
    <3>3. QED
      BY <2>1, <3>1, <3>2, GoesType, KeptIfUnsent DEF Places
  <2>3. CASE Fails
    BY <2>1, <2>3, FailsKeeps
  <2>4. QED
    BY <1>2, <2>2, <2>3 DEF FetchProof
<1>3. CASE ToProduction
  <2>1. /\ pc # "idle" /\ UNCHANGED file /\ (Fault \/ UNCHANGED faults)
        /\ Submit(Proved, "toProduction", check)
    BY <1>3 DEF ToProduction, At
  <2>2. check \in DOMAIN txs /\ check \in Nat
    BY <1>3, TxFields DEF ToProduction, At, TypeInv, ToolType
  <2>3. Proved \in Machines
    BY <2>2, TxFields DEF Proved, Tx
  <2>4. QED
    BY <2>1, <2>2, <2>3, SubmitKeeps DEF Kinds
<1>4. QED
  BY <1>1, <1>2, <1>3

LEMMA ToolsKeep ==
  ASSUME TypeInv, Tools PROVE Kept
<1>1. CASE AddTeeVersion
  BY <1>1, VersionKeeps
<1>2. CASE SetTeeGovernance
  BY <1>2, GovernanceKeeps
<1>3. CASE AllowTeeVersion \/ TeeVersionAllowed \/ TeeGovernanceSet
  BY <1>3, PlainKeeps
  DEF AllowTeeVersion, TeeVersionAllowed, TeeGovernanceSet, At, Goto, Mined,
      Unsent, chain, Places
<1>4. CASE CheckTxFails \/ Interrupted \/ CrashInSave
  BY <1>4, FailsKeeps DEF CheckTxFails, Interrupted, CrashInSave, chain
<1>5. CASE RegisterTeeStarts
  <2>1. /\ pc # "idle" /\ pc' = "load" /\ UNCHANGED <<txs, local, awaiting>>
        /\ file' \in {file, NoFile} /\ (Fault \/ UNCHANGED faults)
    BY <1>5 DEF RegisterTeeStarts, RemoveStale, At, chain
  <2>2. UNCHANGED <<run, state, attest, check>>
    BY <2>1 DEF local
  <2>3. /\ IsState(state) /\ attest \in 0 .. Len(txs) /\ check \in 0 .. Len(txs)
    BY DEF TypeInv, ToolType
  <2>4. QED
    BY <2>1, <2>2, <2>3, GoesType, KeptIfUnsent DEF Places
<1>6. CASE LoadState
  BY <1>6, LoadKeeps
<1>7. CASE \/ SkipAttestation("r", "R") \/ SkipAttestation("R", "a")
           \/ AttestationMined("r", "R") \/ AttestationMined("R", "a")
  BY <1>7, SkipKeeps, MinedStepKeeps
<1>8. CASE StepR \/ StepReattest
  BY <1>8, StepsKeep
<1>9. CASE SkipCheck \/ CheckPolicy \/ RequestCheck \/ CheckMined
  BY <1>9, CheckKeeps, MinedCheckKeeps
<1>10. CASE \/ NoProductionWanted \/ FetchProof \/ AlreadyInProduction
            \/ ToProduction \/ ProductionMined
  BY <1>10, ProductionKeeps
<1>11. QED
  BY <1>1, <1>2, <1>3, <1>4, <1>5, <1>6, <1>7, <1>8, <1>9, <1>10
  DEF Tools, RegisterTee

-----------------------------------------------------------------------------
(* The world, and the type invariant.                                      *)

(* A step that does not touch the tools' variables, but for the faults.    *)
LEMMA WorldKeeps ==
  ASSUME TypeInv, UNCHANGED <<file, run, pc, awaiting, state, attest, check>>,
         Len(txs') = Len(txs), DOMAIN txs' = DOMAIN txs,
         Fault \/ UNCHANGED faults
  PROVE  ToolType'
BY FaultType DEF TypeInv, ToolType, IsState

LEMMA MineType ==
  ASSUME TypeInv, Mine PROVE ChainType' /\ ToolType' /\ Grow
<1>1. PICK i \in DOMAIN txs :
        /\ txs[i].receipt = "pending"
        /\ LET tx == txs[i]
               ok == Accepts(tx.kind, tx.machine, tx.arg)
               does(kinds) == ok /\ tx.kind \in kinds
           IN
           /\ txs' = [txs EXCEPT ![i].receipt = IF ok THEN "ok" ELSE "reverted"]
           /\ version' = (version \/ does({"version"}))
           /\ governance' = IF does({"governance"}) THEN tx.arg ELSE governance
           /\ machines' = IF does({"register", "toProduction"})
                          THEN [machines EXCEPT ![tx.machine] = Status(tx.kind)]
                          ELSE machines
           /\ spent' = IF does({"check"}) THEN spent \cup {tx.arg} ELSE spent
  BY DEF Mine
<1>2. /\ UNCHANGED <<proofs, rejected, epoch, policy>>
      /\ UNCHANGED <<file, run, pc, awaiting, state, attest, check, faults>>
  BY DEF Mine
<1>3. PICK kind, m, arg : kind = txs[i].kind /\ m = txs[i].machine /\ arg = txs[i].arg
  OBVIOUS
<1>4. /\ m \in Machines /\ kind \in Kinds
      /\ kind = "governance" => arg \in Governances
  BY <1>3, TxFields DEF Tx, Kinds
<1>5. PICK ok \in BOOLEAN : ok <=> Accepts(kind, m, arg)
  OBVIOUS
<1>6. MinedAt(i)
  BY <1>1, <1>3, <1>5, ReceiptSet
<1>7. version' \in BOOLEAN
  BY <1>1 DEF TypeInv, ChainType
<1>8. governance' = None \/ governance' \in Governances
  BY <1>1, <1>3, <1>4 DEF TypeInv, ChainType
<1>9. machines' \in [Machines -> {"NONE", "INITIALIZED", "PRODUCTION"}]
  <2>1. Status(kind) \in {"NONE", "INITIALIZED", "PRODUCTION"}
    BY DEF Status
  <2>2. machines' \in {machines, [machines EXCEPT ![m] = Status(kind)]}
    BY <1>1, <1>3
  <2>3. QED
    BY <1>4, <2>1, <2>2 DEF TypeInv, ChainType
<1>10. spent' \subseteq DOMAIN txs
  <2>1. ok /\ kind = "check" => arg \in DOMAIN txs
    BY <1>5 DEF Accepts, IsAttestation
  <2>2. spent' \in {spent, spent \cup {arg}}
        /\ (spent' # spent => ok /\ kind = "check")
    BY <1>1, <1>3, <1>5
  <2>3. QED
    BY <2>1, <2>2 DEF TypeInv, ChainType
<1>11. ChainType'
  BY <1>2, <1>6, <1>7, <1>8, <1>9, <1>10 DEF MinedAt, TypeInv, ChainType
<1>12. QED
  BY <1>2, <1>6, <1>11, WorldKeeps, MinedAtGrows DEF MinedAt

LEMMA WorldType ==
  ASSUME TypeInv, ChallengeExpires \/ Cosign \/ EpochAdvances \/ ProxyAdvances
  PROVE  ChainType' /\ ToolType' /\ Grow
<1>1. /\ UNCHANGED <<txs, file, run, pc, awaiting, state, attest, check>>
      /\ UNCHANGED <<machines, version, governance>>
      /\ Fault \/ UNCHANGED faults
  BY DEF ChallengeExpires, Cosign, EpochAdvances, ProxyAdvances
<1>2. ToolType' /\ Grow
  BY <1>1, WorldKeeps, SameGrows
<1>3. /\ spent' \subseteq DOMAIN txs /\ proofs' \subseteq DOMAIN txs
      /\ rejected' \subseteq DOMAIN txs
  BY DEF ChallengeExpires, Cosign, EpochAdvances, ProxyAdvances, TypeInv, ChainType
<1>4. epoch' \in 0 .. MaxEpoch /\ policy' \in 0 .. MaxEpoch + 1
  BY RegistrationAssumption
  DEF ChallengeExpires, Cosign, EpochAdvances, ProxyAdvances, TypeInv, ChainType
<1>5. QED
  BY <1>1, <1>2, <1>3, <1>4 DEF TypeInv, ChainType

LEMMA StartType ==
  ASSUME TypeInv,
         \/ \E m \in Machines, env \in Environments : PostBuild(m, env)
         \/ \E m \in Machines, resume \in BOOLEAN : StartRegisterTee(m, resume)
  PROVE  ToolType' /\ UNCHANGED chain
<1>1. Len(txs) \in Nat
  BY TxFields
<1>2. /\ UNCHANGED chain /\ UNCHANGED <<file, awaiting, state, attest, check>>
      /\ pc = "idle" /\ pc' \in {"version", "start"}
      /\ Fault \/ UNCHANGED faults
  BY DEF PostBuild, StartRegisterTee, Begins
<1> DEFINE Fresh == /\ run' \in Runs /\ run'.first = Len(txs) + 1
                    /\ run'.instruction \in 0 .. Len(txs)
<1>3. Fresh
  <2>1. ASSUME NEW m \in Machines, NEW env \in Environments, PostBuild(m, env)
        PROVE  Fresh
    BY <1>1, <2>1 DEF PostBuild, Runs, Steps
  <2>2. ASSUME NEW m \in Machines, NEW resume \in BOOLEAN,
               StartRegisterTee(m, resume)
        PROVE  Fresh
    <3>1. PICK command \in Commands :
            \E i \in IF "a" \in command THEN {0} ELSE DOMAIN txs :
              run' = [machine |-> m, command |-> command, resume |-> resume,
                      instruction |-> i, env |-> NodeEnv, first |-> Len(txs) + 1,
                      loaded |-> {}]
      BY <2>2 DEF StartRegisterTee
    <3>2. PICK i \in IF "a" \in command THEN {0} ELSE DOMAIN txs :
              run' = [machine |-> m, command |-> command, resume |-> resume,
                      instruction |-> i, env |-> NodeEnv, first |-> Len(txs) + 1,
                      loaded |-> {}]
      BY <3>1
    <3>3. command \in SUBSET Steps /\ NodeEnv \in Environments
      BY RegistrationAssumption
    <3>4. i \in 0 .. Len(txs)
      BY <1>1, TxFields
    <3>5. QED
      BY <1>1, <2>2, <3>2, <3>3, <3>4 DEF Runs
  <2>3. QED
    BY <2>1, <2>2
<1>4. UNCHANGED txs
  BY <1>2 DEF chain
<1>5. QED
  BY <1>1, <1>2, <1>3, <1>4, FaultType DEF TypeInv, ToolType, IsState, Places

LEMMA ToolsLeaveChain ==
  ASSUME Tools
  PROVE  UNCHANGED <<machines, version, governance, spent, proofs, rejected,
                     epoch, policy>>
BY DEF Tools, RegisterTee, AllowTeeVersion, AddTeeVersion, TeeVersionAllowed, SetTeeGovernance,
       TeeGovernanceSet, RegisterTeeStarts, LoadState, SkipAttestation, StepR,
       AttestationMined, StepReattest, SkipCheck, CheckPolicy, RequestCheck,
       CheckMined, NoProductionWanted, FetchProof, AlreadyInProduction,
       ToProduction, ProductionMined, CheckTxFails, Interrupted, CrashInSave,
       Sent, Unsent, chain

LEMMA StepType ==
  ASSUME TypeInv, [Next]_vars PROVE TypeInv' /\ Grow
<1>1. CASE Mine
  BY <1>1, MineType DEF TypeInv
<1>2. CASE World /\ ~ Mine
  BY <1>2, WorldType DEF World, TypeInv
<1>3. CASE Tools
  <2>1. Kept /\ UNCHANGED <<machines, version, governance, spent, proofs,
                            rejected, epoch, policy>>
    BY <1>3, ToolsKeep, ToolsLeaveChain
  <2>2. DOMAIN txs \subseteq DOMAIN txs'
    BY <2>1 DEF Kept, Grow
  <2>3. QED
    BY <2>1, <2>2 DEF Kept, TypeInv, ChainType
<1>4. CASE \/ \E m \in Machines, env \in Environments : PostBuild(m, env)
           \/ \E m \in Machines, resume \in BOOLEAN : StartRegisterTee(m, resume)
  BY <1>4, StartType, SameGrows DEF TypeInv, ChainType, chain
<1>5. CASE UNCHANGED vars
  BY <1>5, SameGrows DEF vars, TypeInv, ChainType, ToolType, IsState
<1>6. QED
  BY <1>1, <1>2, <1>3, <1>4, <1>5 DEF Next

(* Types, of the transactions and the run under way as well.               *)
THEOREM TypesHold == Spec => []TypeInv
<1>1. Init => TypeInv
  <2> SUFFICES ASSUME Init PROVE TypeInv
    OBVIOUS
  <2>1. txs \in Seq(Tx) /\ Len(txs) = 0
    BY DEF Init
  <2>2. ChainType
    <3>1. machines \in [Machines -> {"NONE", "INITIALIZED", "PRODUCTION"}]
      BY DEF Init
    <3>2. epoch \in 0 .. MaxEpoch /\ policy \in 0 .. MaxEpoch + 1
      BY RegistrationAssumption DEF Init
    <3>3. version \in BOOLEAN /\ governance = None
          /\ spent = {} /\ proofs = {} /\ rejected = {}
      BY DEF Init
    <3>4. QED
      BY <2>1, <3>1, <3>2, <3>3 DEF ChainType
  <2>3. ToolType
    BY <2>1, NoStateType, RegistrationAssumption
    DEF Init, ToolType, IsState, Places
  <2>4. QED
    BY <2>2, <2>3 DEF TypeInv
<1>2. TypeInv /\ [Next]_vars => TypeInv'
  BY StepType
<1>3. QED
  BY <1>1, <1>2, PTL DEF Spec

(* Every id a tool holds names a transaction, and none is waited for by a  *)
(* run that is over.                                                       *)
THEOREM TypeCorrect == Spec => []TypeOK
<1>1. TypeInv => TypeOK
  <2> SUFFICES ASSUME TypeInv PROVE TypeOK
    OBVIOUS
  <2>1. \A i \in DOMAIN txs :
          /\ txs[i].kind \in Kinds /\ txs[i].machine \in Machines
          /\ txs[i].arg \in IF txs[i].kind = "governance" THEN Governances ELSE Nat
          /\ txs[i].receipt \in {"pending", "ok", "reverted"}
    BY TxFields DEF Tx, Kinds, Receipts
  <2>2. QED
    BY <2>1 DEF TypeOK, TypeInv, ChainType, ToolType, IsState, Places
<1>2. QED
  BY <1>1, TypesHold, PTL

-----------------------------------------------------------------------------
(* The transaction a run waits for.                                        *)

(* What a transaction of the run at this place is. *)
Belongs(kind, m) ==
  /\ pc \in {"r", "R"} => kind \in {"register", "attest"} /\ m = run.machine
  /\ pc = "request" => kind = "check" /\ m = run.machine
  /\ pc = "production" => kind = "toProduction" /\ m = Proved

AwaitInv ==
  awaiting # 0 => /\ Belongs(txs[awaiting].kind, txs[awaiting].machine)
                  /\ pc # "idle" /\ awaiting >= run.first

(* A run sends, and waits for, a transaction that belongs to it. *)
Sends ==
  /\ \E kind, m, arg : Appended(kind, m, arg) /\ Belongs(kind, m)
  /\ awaiting' = Len(txs) + 1 /\ pc # "idle"
  /\ UNCHANGED <<run, state, attest, check, pc, outcome, file>>

(* A run ends with an error. *)
GivesUp ==
  Fails /\ UNCHANGED txs /\ file' \in {file, Torn}

LEMMA SubmitIs ==
  ASSUME TypeInv, NEW kind \in Kinds, NEW m \in Machines, NEW arg,
         IF kind = "governance" THEN arg \in Governances ELSE arg \in Nat,
         Submit(m, kind, arg), pc # "idle", UNCHANGED file, Belongs(kind, m)
  PROVE  Sends \/ GivesUp
BY SubmitAppends DEF Sends, GivesUp, local

LEMMA SendersSend ==
  ASSUME TypeInv,
         \/ AddTeeVersion /\ pc' # "governance"
         \/ SetTeeGovernance /\ pc' # "start"
         \/ StepR \/ StepReattest \/ RequestCheck \/ ToProduction
  PROVE  Sends \/ GivesUp
<1>1. CASE AddTeeVersion /\ pc' # "governance"
  <2>1. Submit(run.machine, "version", 0) /\ pc = "addVersion" /\ UNCHANGED file
    BY <1>1 DEF AddTeeVersion, Goto, At
  <2>2. QED
    BY <2>1, UnderWay, SubmitIs DEF Kinds, Belongs
<1>2. CASE SetTeeGovernance /\ pc' # "start"
  <2>1. PICK g : g = Governance(run.env)
    OBVIOUS
  <2>2. pc = "governance" /\ UNCHANGED file
    BY <1>2 DEF SetTeeGovernance, At
  <2>3. CASE Fails /\ Unsent
    BY <2>2, <2>3 DEF GivesUp, Unsent, chain
  <2>4. CASE Submit(run.machine, "governance", g)
    BY <2>1, <2>2, <2>4, UnderWay, GovernanceType, SubmitIs DEF Kinds, Belongs
  <2>5. QED
    BY <1>2, <2>1, <2>3, <2>4 DEF SetTeeGovernance, Goto
<1>3. CASE StepR \/ StepReattest
  <2>1. /\ pc \in {"r", "R"} /\ UNCHANGED file
        /\ \E kind \in {"register", "attest"} : Submit(run.machine, kind, 0)
    BY <1>3 DEF StepR, StepReattest, At
  <2>2. QED
    BY <2>1, UnderWay, SubmitIs DEF Kinds, Belongs
<1>4. CASE RequestCheck
  <2>1. /\ pc = "request" /\ UNCHANGED file
        /\ Submit(run.machine, "check", attest)
    BY <1>4 DEF RequestCheck, At
  <2>2. attest \in Nat
    BY TxFields DEF TypeInv, ToolType
  <2>3. QED
    BY <2>1, <2>2, UnderWay, SubmitIs DEF Kinds, Belongs
<1>5. CASE ToProduction
  <2>1. /\ pc = "production" /\ UNCHANGED file
        /\ Submit(Proved, "toProduction", check)
    BY <1>5 DEF ToProduction, At
  <2>2. check \in DOMAIN txs /\ check \in Nat
    BY <2>1, TxFields DEF TypeInv, ToolType
  <2>3. Proved \in Machines
    BY <2>2, TxFields DEF Proved, Tx
  <2>4. QED
    BY <2>1, <2>2, <2>3, SubmitIs DEF Kinds, Belongs
<1>6. QED
  BY <1>1, <1>2, <1>3, <1>4, <1>5

(* Every step ends a wait, leaves it, or begins one. *)
LEMMA Waits ==
  ASSUME TypeInv, [Next]_vars
  PROVE  awaiting' = 0 \/ UNCHANGED <<awaiting, pc, run, check>> \/ Sends
<1>1. CASE \/ StepR \/ StepReattest \/ RequestCheck \/ ToProduction
           \/ AddTeeVersion /\ pc' # "governance"
           \/ SetTeeGovernance /\ pc' # "start"
  BY <1>1, SendersSend DEF GivesUp, Fails
<1>2. CASE World \/ UNCHANGED vars
  BY <1>2
  DEF World, Mine, ChallengeExpires, Cosign, EpochAdvances, ProxyAdvances, vars
<1>3. CASE \/ \E m \in Machines, env \in Environments : PostBuild(m, env)
           \/ \E m \in Machines, resume \in BOOLEAN : StartRegisterTee(m, resume)
  BY <1>3 DEF PostBuild, StartRegisterTee, Begins, TypeInv, ToolType
<1>4. CASE AddTeeVersion /\ pc' = "governance"
  <2>1. CASE Submit(run.machine, "version", 0)
    BY <1>4, <2>1 DEF AddTeeVersion, At, Submit, Fails
  <2>2. QED
    BY <1>4, <2>1 DEF AddTeeVersion, At, Goto
<1>5. CASE SetTeeGovernance /\ pc' = "start"
  <2>1. ASSUME NEW g, Submit(run.machine, "governance", g) PROVE FALSE
    BY <1>5, <2>1 DEF SetTeeGovernance, At, Submit, Fails
  <2>2. QED
    BY <1>5, <2>1 DEF SetTeeGovernance, At, Goto, Fails
<1>6. CASE \/ AllowTeeVersion \/ TeeVersionAllowed \/ TeeGovernanceSet
           \/ CheckTxFails \/ Interrupted \/ CrashInSave
  BY <1>6
  DEF AllowTeeVersion, At, Goto, TeeVersionAllowed, TeeGovernanceSet, CheckTxFails, Interrupted,
      CrashInSave, Fails
<1>7. CASE \/ RegisterTeeStarts \/ LoadState \/ SkipAttestation("r", "R")
           \/ SkipAttestation("R", "a") \/ SkipCheck \/ CheckPolicy
  BY <1>7
  DEF RegisterTeeStarts, LoadState, SkipAttestation, SkipCheck, CheckPolicy, At,
      Goto, Fails
<1>8. CASE \/ AttestationMined("r", "R") \/ AttestationMined("R", "a")
           \/ CheckMined
  BY <1>8 DEF AttestationMined, CheckMined
<1>9. CASE \/ NoProductionWanted \/ FetchProof \/ AlreadyInProduction
           \/ ProductionMined
  BY <1>9
  DEF NoProductionWanted, FetchProof, AlreadyInProduction, ProductionMined,
      Finishes, Fails, At, Goto
<1>10. QED
  BY <1>1, <1>2, <1>3, <1>4, <1>5, <1>6, <1>7, <1>8, <1>9
  DEF Next, Tools, RegisterTee

LEMMA AwaitStep ==
  ASSUME TypeInv, AwaitInv, [Next]_vars PROVE AwaitInv'
<1>1. Grow
  BY StepType
<1>2. CASE awaiting' = 0
  BY <1>2 DEF AwaitInv
<1>3. CASE awaiting # 0 /\ UNCHANGED <<awaiting, pc, run, check>>
  <2>1. awaiting \in DOMAIN txs
    BY <1>3, TxFields DEF TypeInv, ToolType
  <2>2. pc = "production" => Proved' = Proved
    BY <1>1, <1>3 DEF TypeInv, ToolType, Grow, Proved
  <2>3. /\ txs'[awaiting].kind = txs[awaiting].kind
        /\ txs'[awaiting].machine = txs[awaiting].machine
    BY <1>1, <2>1 DEF Grow
  <2>4. QED
    BY <1>3, <2>2, <2>3 DEF AwaitInv, Belongs
<1>4. CASE Sends
  <2>1. PICK kind, m, arg : Appended(kind, m, arg) /\ Belongs(kind, m)
    BY <1>4 DEF Sends
  <2>2. txs'[awaiting'].kind = kind /\ txs'[awaiting'].machine = m
    BY <1>4, <2>1 DEF Sends, Appended
  <2>3. UNCHANGED <<pc, run, check>> /\ pc # "idle" /\ awaiting' = Len(txs) + 1
    BY <1>4 DEF Sends
  <2>4. pc = "production" => Proved' = Proved
    BY <1>1, <2>3 DEF TypeInv, ToolType, Grow, Proved
  <2>5. run.first <= Len(txs) + 1 /\ run.first \in Nat /\ Len(txs) \in Nat
    BY <2>3, TxFields DEF TypeInv, ToolType, Runs
  <2>6. QED
    BY <2>1, <2>2, <2>3, <2>4, <2>5 DEF AwaitInv, Belongs
<1>5. QED
  BY <1>2, <1>3, <1>4, Waits

-----------------------------------------------------------------------------
(* What a state file, and a run's copy of it, say.                         *)

Truth(s) ==
  /\ s.steps \cap {"r", "R"} # {} => IsAttestation(s.attest)
  /\ "a" \in s.steps => /\ s.check \in DOMAIN txs
                        /\ txs[s.check].kind = "check"
                        /\ txs[s.check].receipt = "ok"

Fresh(i) ==
  i >= run.first /\ IsAttestation(i) /\ txs[i].machine = run.machine

(* The steps of a run that resumes nothing.                                *)
Afresh ==
  /\ pc = "r" => state.steps = {}
  /\ pc = "R" => /\ state.steps \subseteq {"r"}
                 /\ "r" \in run.command => Fresh(attest)
  /\ pc = "a" => state.steps \subseteq {"r", "R"}
  /\ pc \in {"a", "request"} /\ run.command \cap {"r", "R"} # {} => Fresh(attest)
  /\ pc \in {"p", "production"} /\ "a" \in run.command =>
       check \in DOMAIN txs /\ txs[check].machine = run.machine

RunInv ==
  /\ file \in {NoFile, Torn} \/ Truth(file)
  /\ Truth(state)
  /\ run.loaded = {} => Afresh

LEMMA Grown ==
  ASSUME Grow
  PROVE  /\ \A i : IsAttestation(i) => IsAttestation(i)'
         /\ \A s : Truth(s) => Truth(s)'
         /\ UNCHANGED run => \A i : Fresh(i) => Fresh(i)'
<1>1. ASSUME NEW i, IsAttestation(i) PROVE IsAttestation(i)'
  BY <1>1 DEF IsAttestation, Grow
<1>2. ASSUME NEW s, Truth(s) PROVE Truth(s)'
  BY <1>1, <1>2 DEF Truth, Grow
<1>3. ASSUME NEW i, Fresh(i), UNCHANGED run PROVE Fresh(i)'
  BY <1>1, <1>3 DEF Fresh, IsAttestation, Grow
<1>4. QED
  BY <1>1, <1>2, <1>3

Late == {"r", "R", "a", "request", "p", "production"}

(* A run that has not begun RegisterNode, or has left it. *)
LEMMA Outside ==
  ASSUME RunInv, Grow, pc' \notin Late, state' \in {state, NoState},
         file' \in {file, NoFile, Torn}
  PROVE  RunInv'
<1>1. PICK s, f : s = state' /\ f = file'
  OBVIOUS
<1>2. Truth(s)' /\ (f \in {NoFile, Torn} \/ Truth(f)')
  <2>1. Truth(NoState)'
    BY DEF Truth, NoState
  <2>2. QED
    BY <1>1, <2>1, Grown DEF RunInv
<1>3. Afresh'
  BY DEF Afresh, Late
<1>4. QED
  BY <1>1, <1>2, <1>3 DEF RunInv, Truth, IsAttestation

(* A step that leaves the run where it is. *)
LEMMA Waiting ==
  ASSUME RunInv, Grow, UNCHANGED <<run, state, attest, check, pc, file>>
  PROVE  RunInv'
<1>1. PICK s, f : s = state /\ f = file
  OBVIOUS
<1>2. Truth(s)' /\ (f \in {NoFile, Torn} \/ Truth(f)')
  BY <1>1, Grown DEF RunInv
<1>3. ASSUME run.loaded = {} PROVE Afresh'
  <2>1. Afresh
    BY <1>3 DEF RunInv
  <2>2. Fresh(attest) => Fresh(attest)'
    BY DEF Fresh, IsAttestation, Grow
  <2>3. QED
    BY <2>1, <2>2 DEF Afresh, Grow
<1>4. QED
  BY <1>1, <1>2, <1>3 DEF RunInv, Truth, IsAttestation

LEMMA LoadRun ==
  ASSUME RunInv, LoadState PROVE RunInv'
<1>1. UNCHANGED <<txs, file>>
  BY DEF LoadState, chain
<1>2. CASE Fails
  BY <1>1, <1>2, Outside, SameGrows DEF Fails, Late
<1>3. CASE ~ Fails
  <2>1. PICK loaded : /\ loaded = IF file = NoFile THEN NoState ELSE file
                      /\ file # Torn /\ state' = loaded
                      /\ run' = [run EXCEPT !.loaded = loaded.steps]
                      /\ pc' = "r"
    BY <1>3 DEF LoadState, Goto
  <2>2. Truth(loaded)
    <3>1. Truth(NoState)
      BY DEF Truth, NoState
    <3>2. QED
      BY <2>1, <3>1 DEF RunInv
  <2>3. run'.loaded = {} => state'.steps = {}
    BY <2>1
  <2>4. QED
    BY <1>1, <2>1, <2>2, <2>3 DEF RunInv, Afresh, Truth, IsAttestation
<1>4. QED
  BY <1>2, <1>3

LEMMA SkipRun ==
  ASSUME RunInv, SkipAttestation("r", "R") \/ SkipAttestation("R", "a")
  PROVE  RunInv'
<1>1. UNCHANGED <<txs, file, run, state, check>>
  BY DEF SkipAttestation, chain
<1>2. ASSUME run.loaded = {} PROVE Afresh'
  <2>1. Afresh
    BY <1>2 DEF RunInv
  <2>2. CASE SkipAttestation("r", "R")
    BY <1>1, <2>1, <2>2
    DEF Afresh, Fresh, IsAttestation, SkipAttestation, At, Goto, Done, Wanted
  <2>3. CASE SkipAttestation("R", "a")
    BY <1>1, <2>1, <2>3
    DEF Afresh, Fresh, IsAttestation, SkipAttestation, At, Goto, Done, Wanted
  <2>4. QED
    BY <2>2, <2>3
<1>3. QED
  BY <1>1, <1>2 DEF RunInv, Truth, IsAttestation

(* The transaction a step waited for was mined and accepted. *)
LEMMA AwaitedIs ==
  ASSUME TypeInv, AwaitInv, NEW where, Mined(where), where # "idle"
  PROVE  /\ awaiting \in DOMAIN txs /\ txs[awaiting].receipt = "ok"
         /\ where \in {"r", "R"} => Fresh(awaiting)
         /\ where = "request" => /\ txs[awaiting].kind = "check"
                                 /\ txs[awaiting].machine = run.machine
         /\ where = "production" => /\ txs[awaiting].kind = "toProduction"
                                    /\ txs[awaiting].machine = Proved
<1>1. awaiting \in DOMAIN txs
  BY TxFields DEF Mined, TypeInv, ToolType
<1>2. QED
  BY <1>1 DEF Mined, AwaitInv, Belongs, Fresh, IsAttestation

LEMMA AttestationRun ==
  ASSUME TypeInv, AwaitInv, RunInv, NEW step, NEW next,
         AttestationMined(step, next),
         <<step, next>> \in {<<"r", "R">>, <<"R", "a">>}
  PROVE  RunInv'
<1>1. PICK s : /\ s = [state EXCEPT !.steps = @ \cup {step}, !.attest = awaiting]
               /\ state' = s /\ attest' = awaiting /\ SaveState(s)
               /\ pc' = next /\ UNCHANGED <<txs, run, check>>
  BY DEF AttestationMined, chain
<1>2. pc = step /\ Fresh(awaiting)
  BY AwaitedIs DEF AttestationMined, Mined
<1>3. /\ s.steps = state.steps \cup {step} /\ s.attest = awaiting
      /\ s.check = state.check
  BY <1>1 DEF TypeInv, ToolType, IsState, States
<1>4. Truth(s)
  BY <1>2, <1>3 DEF RunInv, Truth, Fresh
<1>5. file' = file \/ file' = s
  BY <1>1 DEF SaveState
<1>6. ASSUME run.loaded = {} PROVE Afresh'
  BY <1>1, <1>2, <1>3, <1>6 DEF RunInv, Afresh, Fresh, IsAttestation
<1>7. QED
  BY <1>1, <1>4, <1>5, <1>6 DEF RunInv, Truth, IsAttestation

LEMMA CheckRun ==
  ASSUME TypeInv, AwaitInv, RunInv, CheckMined PROVE RunInv'
<1>1. PICK s : /\ s = [state EXCEPT !.steps = @ \cup {"a"}, !.check = awaiting]
               /\ state' = s /\ check' = awaiting /\ SaveState(s)
               /\ pc' = "p" /\ UNCHANGED <<txs, run, attest>>
  BY DEF CheckMined, chain
<1>2. /\ awaiting \in DOMAIN txs /\ txs[awaiting].receipt = "ok"
      /\ txs[awaiting].kind = "check" /\ txs[awaiting].machine = run.machine
  BY AwaitedIs DEF CheckMined
<1>3. /\ s.steps = state.steps \cup {"a"} /\ s.check = awaiting
      /\ s.attest = state.attest
  BY <1>1 DEF TypeInv, ToolType, IsState, States
<1>4. Truth(s)
  BY <1>2, <1>3 DEF RunInv, Truth
<1>5. file' = file \/ file' = s
  BY <1>1 DEF SaveState
<1>6. Afresh'
  BY <1>1, <1>2 DEF Afresh
<1>7. QED
  BY <1>1, <1>4, <1>5, <1>6 DEF RunInv, Truth, IsAttestation

(* The steps from a to p that save nothing. *)
LEMMA OnwardRun ==
  ASSUME RunInv, UNCHANGED <<txs, file, run, state, attest>>,
         \/ pc = "a" /\ pc' = "request"
         \/ pc = "a" /\ pc' = "p" /\ (Done("a") \/ ~ Wanted("a"))
         \/ pc = "p" /\ pc' = "production" /\ UNCHANGED check
  PROVE  RunInv'
<1>1. ASSUME run.loaded = {} PROVE Afresh'
  BY <1>1 DEF RunInv, Afresh, Fresh, IsAttestation, Done, Wanted
<1>2. QED
  BY <1>1 DEF RunInv, Truth, IsAttestation

LEMMA RunStep ==
  ASSUME TypeInv, AwaitInv, RunInv, [Next]_vars PROVE RunInv'
<1>1. Grow
  BY StepType
<1>2. CASE Fails /\ file' \in {file, NoFile, Torn}
  BY <1>1, <1>2, Outside DEF Fails, Late
<1>3. CASE Finishes
  BY <1>1, <1>3, Outside DEF Finishes, Late
<1>4. CASE Sends
  BY <1>1, <1>4, Waiting DEF Sends
<1>5. CASE World \/ UNCHANGED vars
  BY <1>1, <1>5, Waiting
  DEF World, Mine, ChallengeExpires, Cosign, EpochAdvances, ProxyAdvances, vars
<1>6. CASE \/ \E m \in Machines, env \in Environments : PostBuild(m, env)
           \/ \E m \in Machines, resume \in BOOLEAN : StartRegisterTee(m, resume)
  BY <1>1, <1>6, Outside DEF PostBuild, StartRegisterTee, Begins, Late
<1>7. CASE \/ AddTeeVersion /\ pc' # "governance"
           \/ SetTeeGovernance /\ pc' # "start"
           \/ StepR \/ StepReattest \/ RequestCheck \/ ToProduction
  BY <1>1, <1>2, <1>4, <1>7, SendersSend DEF GivesUp
<1>8. CASE \/ AddTeeVersion /\ pc' = "governance"
           \/ SetTeeGovernance /\ pc' = "start"
           \/ AllowTeeVersion
           \/ TeeVersionAllowed \/ TeeGovernanceSet \/ RegisterTeeStarts
  <2>1. pc' \notin Late
    BY <1>8
    DEF AllowTeeVersion, Goto, TeeVersionAllowed, TeeGovernanceSet,
        RegisterTeeStarts, Late
  <2>2. file' \in {file, NoFile} /\ state' \in {state, NoState}
    BY <1>8
    DEF AllowTeeVersion, AddTeeVersion, TeeVersionAllowed, SetTeeGovernance,
        TeeGovernanceSet, RegisterTeeStarts, RemoveStale, Submit, Fails, local
  <2>3. QED
    BY <1>1, <2>1, <2>2, Outside
<1>9. CASE CheckTxFails \/ Interrupted \/ CrashInSave
  BY <1>2, <1>9 DEF CheckTxFails, Interrupted, CrashInSave
<1>10. CASE \/ LoadState
            \/ SkipAttestation("r", "R") \/ SkipAttestation("R", "a")
            \/ AttestationMined("r", "R") \/ AttestationMined("R", "a")
            \/ CheckMined
  BY <1>10, LoadRun, SkipRun, AttestationRun, CheckRun
<1>11. CASE SkipCheck \/ CheckPolicy \/ FetchProof
  <2>1. \/ Fails /\ UNCHANGED file
        \/ /\ UNCHANGED <<txs, file, run, state, attest>>
           /\ \/ pc = "a" /\ pc' = "request"
              \/ pc = "a" /\ pc' = "p" /\ (Done("a") \/ ~ Wanted("a"))
              \/ pc = "p" /\ pc' = "production" /\ UNCHANGED check
    BY <1>11 DEF SkipCheck, CheckPolicy, FetchProof, At, Goto, chain, local
  <2>2. QED
    BY <1>2, <2>1, OnwardRun
<1>12. CASE NoProductionWanted \/ AlreadyInProduction \/ ProductionMined
  BY <1>3, <1>12 DEF NoProductionWanted, AlreadyInProduction, ProductionMined
<1>13. QED
  BY <1>5, <1>6, <1>7, <1>8, <1>9, <1>10, <1>11, <1>12
  DEF Next, Tools, RegisterTee

-----------------------------------------------------------------------------
(* What a success says.                                                    *)

InProduction(m) == machines[m] = "PRODUCTION"

ProdInv ==
  /\ \A i \in DOMAIN txs :
        txs[i].kind = "toProduction" /\ txs[i].receipt = "ok"
          => InProduction(txs[i].machine)
  /\ SuccessMeansProduction

(* A machine leaves production never. *)
LEMMA ProductionStays ==
  ASSUME TypeInv, [Next]_vars
  PROVE  \A m \in Machines : InProduction(m) => InProduction(m)'
<1>1. CASE Mine
  <2>1. PICK i \in DOMAIN txs :
          machines' = IF /\ Accepts(txs[i].kind, txs[i].machine, txs[i].arg)
                         /\ txs[i].kind \in {"register", "toProduction"}
                      THEN [machines EXCEPT ![txs[i].machine] = Status(txs[i].kind)]
                      ELSE machines
    BY <1>1 DEF Mine
  <2>2. txs[i].kind = "register" =>
          \/ ~ Accepts(txs[i].kind, txs[i].machine, txs[i].arg)
          \/ machines[txs[i].machine] = "NONE"
    BY DEF Accepts
  <2>3. QED
    BY <2>1, <2>2 DEF InProduction, Status, TypeInv, ChainType
<1>2. CASE ~ Mine
  <2>1. UNCHANGED machines
    BY <1>2, ToolsLeaveChain
    DEF Next, World, ChallengeExpires, Cosign, EpochAdvances, ProxyAdvances,
        PostBuild, StartRegisterTee, Begins, chain, vars
  <2>2. QED
    BY <2>1 DEF InProduction
<1>3. QED
  BY <1>1, <1>2

(* A step is Mine, or appends at most a transaction that is pending.       *)
LEMMA ReceiptsFromMine ==
  ASSUME TypeInv, [Next]_vars, ~ Mine
  PROVE  \A i \in DOMAIN txs' :
           txs'[i].receipt = "ok" => i \in DOMAIN txs /\ txs'[i] = txs[i]
<1>1. CASE UNCHANGED txs
  BY <1>1
<1>2. CASE Sends
  BY <1>2 DEF Sends, Appended
<1>3. CASE \/ AddTeeVersion /\ pc' # "governance"
           \/ SetTeeGovernance /\ pc' # "start"
           \/ StepR \/ StepReattest \/ RequestCheck \/ ToProduction
  BY <1>1, <1>2, <1>3, SendersSend DEF GivesUp
<1>4. CASE \/ AddTeeVersion /\ pc' = "governance"
           \/ SetTeeGovernance /\ pc' = "start"
  <2>1. pc # pc' /\ pc' # "idle"
    BY <1>4 DEF AddTeeVersion, SetTeeGovernance, At
  <2>2. ASSUME NEW kind, NEW arg, Submit(run.machine, kind, arg) PROVE FALSE
    BY <2>1, <2>2 DEF Submit, Fails
  <2>3. UNCHANGED chain
    BY <1>4, <2>2 DEF AddTeeVersion, SetTeeGovernance, Unsent
  <2>4. QED
    BY <1>1, <2>3 DEF chain
<1>5. CASE \/ AllowTeeVersion
           \/ TeeVersionAllowed \/ TeeGovernanceSet \/ RegisterTeeStarts
           \/ LoadState \/ SkipAttestation("r", "R") \/ SkipAttestation("R", "a")
           \/ AttestationMined("r", "R") \/ AttestationMined("R", "a")
           \/ SkipCheck \/ CheckPolicy \/ CheckMined
           \/ NoProductionWanted \/ FetchProof \/ AlreadyInProduction
           \/ ProductionMined \/ CheckTxFails \/ Interrupted \/ CrashInSave
  BY <1>1, <1>5
  DEF AllowTeeVersion, Unsent,
      TeeVersionAllowed, TeeGovernanceSet, RegisterTeeStarts, LoadState,
      SkipAttestation, AttestationMined, SkipCheck, CheckPolicy, CheckMined,
      NoProductionWanted, FetchProof, AlreadyInProduction, ProductionMined,
      CheckTxFails, Interrupted, CrashInSave, chain
<1>6. CASE \/ World \/ UNCHANGED vars
           \/ \E m \in Machines, env \in Environments : PostBuild(m, env)
           \/ \E m \in Machines, resume \in BOOLEAN : StartRegisterTee(m, resume)
  BY <1>1, <1>6
  DEF World, ChallengeExpires, Cosign, EpochAdvances, ProxyAdvances, vars,
      PostBuild, StartRegisterTee, Begins, chain
<1>7. QED
  BY <1>3, <1>4, <1>5, <1>6 DEF Next, Tools, RegisterTee

(* A run that ends well, and what it is remembered by. *)
Ends ==
  \/ outcome' = outcome
  \/ /\ outcome' = [machine |-> run.machine, command |-> run.command,
                    loaded |-> run.loaded]
     /\ run.machine \in Machines
     /\ run.loaded = {} /\ {"a", "p"} \subseteq run.command
          => InProduction(run.machine)

LEMMA EndsWell ==
  ASSUME TypeInv, AwaitInv, RunInv, ProdInv, [Next]_vars PROVE Ends
<1>1. CASE NoProductionWanted
  BY <1>1, UnderWay DEF NoProductionWanted, Finishes, At, Wanted, Ends
<1>2. CASE AlreadyInProduction \/ ProductionMined
  <2>1. /\ pc = "production" /\ Finishes /\ run.machine \in Machines
    BY <1>2, UnderWay DEF AlreadyInProduction, ProductionMined, At, Mined
  <2>2. InProduction(Proved)
    <3>1. CASE AlreadyInProduction
      BY <3>1 DEF AlreadyInProduction, InProduction
    <3>2. CASE ProductionMined
      <4>1. /\ awaiting \in DOMAIN txs /\ txs[awaiting].receipt = "ok"
            /\ txs[awaiting].kind = "toProduction"
            /\ txs[awaiting].machine = Proved
        BY <3>2, AwaitedIs DEF ProductionMined
      <4>2. QED
        BY <4>1 DEF ProdInv
    <3>3. QED
      BY <1>2, <3>1, <3>2
  <2>3. run.loaded = {} /\ "a" \in run.command => Proved = run.machine
    BY <2>1 DEF RunInv, Afresh, Proved
  <2>4. QED
    BY <2>1, <2>2, <2>3 DEF Finishes, Ends
<1>3. CASE UNCHANGED outcome
  BY <1>3 DEF Ends
<1>4. CASE \/ AllowTeeVersion \/ AddTeeVersion \/ TeeVersionAllowed
           \/ SetTeeGovernance \/ TeeGovernanceSet
           \/ CheckTxFails \/ Interrupted \/ CrashInSave
           \/ RegisterTeeStarts \/ LoadState
           \/ SkipAttestation("r", "R") \/ StepR \/ AttestationMined("r", "R")
           \/ SkipAttestation("R", "a") \/ StepReattest
           \/ AttestationMined("R", "a")
           \/ SkipCheck \/ CheckPolicy \/ RequestCheck \/ CheckMined
           \/ FetchProof \/ ToProduction
  BY <1>3, <1>4
  DEF AllowTeeVersion, AddTeeVersion, TeeVersionAllowed, SetTeeGovernance,
      TeeGovernanceSet, CheckTxFails, Interrupted, CrashInSave, RegisterTeeStarts, LoadState,
      SkipAttestation, StepR, AttestationMined, StepReattest, SkipCheck,
      CheckPolicy, RequestCheck, CheckMined, FetchProof, ToProduction, Submit,
      Fails
<1>5. CASE \/ World \/ UNCHANGED vars
           \/ \E m \in Machines, env \in Environments : PostBuild(m, env)
           \/ \E m \in Machines, resume \in BOOLEAN : StartRegisterTee(m, resume)
  BY <1>3, <1>5
  DEF World, Mine, ChallengeExpires, Cosign, EpochAdvances, ProxyAdvances, vars,
      PostBuild, StartRegisterTee, Begins
<1>6. QED
  BY <1>1, <1>2, <1>4, <1>5 DEF Next, Tools, RegisterTee

(* ProdInv, and that a success remembered is of a machine there is. *)
EndInv == ProdInv /\ (outcome # None => outcome.machine \in Machines)

LEMMA EndStep ==
  ASSUME TypeInv, AwaitInv, RunInv, EndInv, [Next]_vars PROVE EndInv'
<1>1. \A m \in Machines : InProduction(m) => InProduction(m)'
  BY ProductionStays
<1>2. \A i \in DOMAIN txs : txs[i].machine \in Machines
  BY TxFields DEF Tx
<1>3. /\ outcome' # None => outcome'.machine \in Machines
      /\ SuccessMeansProduction'
  BY <1>1, EndsWell
  DEF EndInv, ProdInv, Ends, SuccessMeansProduction, InProduction
<1>4. ASSUME NEW i \in DOMAIN txs', txs'[i].kind = "toProduction",
             txs'[i].receipt = "ok"
      PROVE  InProduction(txs[i].machine)'
  <2>1. CASE ~ Mine
    BY <1>1, <1>2, <1>4, <2>1, ReceiptsFromMine DEF EndInv, ProdInv, InProduction
  <2>2. CASE Mine
    <3>1. PICK j \in DOMAIN txs :
            /\ MinedAt(j)
            /\ machines' = IF /\ Accepts(txs[j].kind, txs[j].machine, txs[j].arg)
                              /\ txs[j].kind \in {"register", "toProduction"}
                           THEN [machines EXCEPT ![txs[j].machine] = Status(txs[j].kind)]
                           ELSE machines
      <4>1. PICK j \in DOMAIN txs :
              /\ txs[j].receipt = "pending"
              /\ txs' = [txs EXCEPT ![j].receipt =
                           IF Accepts(txs[j].kind, txs[j].machine, txs[j].arg)
                           THEN "ok" ELSE "reverted"]
              /\ machines' = IF /\ Accepts(txs[j].kind, txs[j].machine, txs[j].arg)
                                /\ txs[j].kind \in {"register", "toProduction"}
                             THEN [machines EXCEPT ![txs[j].machine] = Status(txs[j].kind)]
                             ELSE machines
        BY <2>2 DEF Mine
      <4>2. PICK ok \in BOOLEAN :
              ok <=> Accepts(txs[j].kind, txs[j].machine, txs[j].arg)
        OBVIOUS
      <4>3. MinedAt(j)
        BY <4>1, <4>2, ReceiptSet
      <4>4. QED
        BY <4>1, <4>3
    <3>2. /\ i \in DOMAIN txs /\ txs'[i].machine = txs[i].machine
          /\ txs[i].kind = "toProduction"
      BY <1>4, <3>1 DEF MinedAt
    <3>3. CASE i = j
      <4>1. machines' = [machines EXCEPT ![txs[j].machine] = "PRODUCTION"]
        BY <1>4, <3>1, <3>2, <3>3 DEF MinedAt, Status
      <4>2. QED
        BY <1>2, <3>2, <3>3, <4>1 DEF InProduction, TypeInv, ChainType
    <3>4. CASE i # j
      BY <1>1, <1>2, <1>4, <3>1, <3>2, <3>4 DEF MinedAt, EndInv, ProdInv, InProduction
    <3>5. QED
      BY <3>3, <3>4
  <2>3. QED
    BY <2>1, <2>2
<1>5. QED
  BY <1>3, <1>4 DEF EndInv, ProdInv, InProduction

-----------------------------------------------------------------------------
(* The inductive invariant, and what follows from it.                      *)

IInv == TypeInv /\ AwaitInv /\ RunInv /\ EndInv

THEOREM InductiveInvariant == Spec => []IInv
<1>1. Init => AwaitInv /\ RunInv /\ EndInv
  BY DEF Init, AwaitInv, RunInv, Truth, NoState, Afresh, EndInv, ProdInv,
         SuccessMeansProduction
<1>2. IInv /\ [Next]_vars => AwaitInv' /\ RunInv' /\ EndInv'
  BY AwaitStep, RunStep, EndStep DEF IInv
<1>3. QED
  BY <1>1, <1>2, TypesHold, PTL DEF Spec, IInv

(* A run that resumes nothing asks for its availability check with an      *)
(* attestation of its own machine that was requested since it began.       *)
THEOREM AttestsAfresh == Spec => []FreshRunsAttestAfresh
<1>1. IInv => FreshRunsAttestAfresh
  BY DEF IInv, RunInv, Afresh, Fresh, FreshRunsAttestAfresh
<1>2. QED
  BY <1>1, InductiveInvariant, PTL

(* Where the state file says a step is done, it was done.                  *)
THEOREM FileIsTrue == Spec => []FileTellsTruth
<1>1. IInv => FileTellsTruth
  BY DEF IInv, RunInv, Truth, FileTellsTruth
<1>2. QED
  BY <1>1, InductiveInvariant, PTL

(* A whole run that resumes nothing and succeeds has its machine in        *)
(* production.                                                             *)
THEOREM SuccessIsProduction == Spec => []SuccessMeansProduction
<1>1. IInv => SuccessMeansProduction
  BY DEF IInv, EndInv, ProdInv
<1>2. QED
  BY <1>1, InductiveInvariant, PTL
=============================================================================
