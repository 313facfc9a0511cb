-------------------------- MODULE InstructionsProofs --------------------------
(* Proofs about Instructions, for every value of its constants: any number *)
(* of tests at once and one after another, of identities and of faults.    *)
EXTENDS Instructions, SequenceTheorems, TLAPS

-----------------------------------------------------------------------------
(* The inductive invariant.                                                *)

Instruction == {"updateKey", "sign"}

Transactions ==
  [op : Instruction \cup {"setExtensionId"}, message : Identities \cup {None},
   to : Identities \cup {None}, receipt : {"pending", "ok", "reverted"}]

(* TypeOK, with what it leaves open: the transactions are a sequence of    *)
(* transactions, and a result is of its instruction's kind.                *)
TypeInv ==
  /\ TypeOK
  /\ txs \in Seq(Transactions)
  /\ \A i \in DOMAIN results :
        results[i].op = txs[i].op /\ results[i].ok \in BOOLEAN

(* What a transaction says of the contract and the registry.  The tools    *)
(* send an instruction only when its gas estimate succeeds, what the       *)
(* estimate asked for is never undone, and so no instruction is reverted.  *)
TxInv ==
  \A i \in DOMAIN txs :
    /\ txs[i].op = "setExtensionId" =>
         txs[i].to = None /\ (txs[i].receipt # "pending" => bound)
    /\ txs[i].op \in Instruction =>
         bound /\ active # {} /\ txs[i].receipt # "reverted"

Places ==
  {"idle", "setExtensionId", "info", "updateKey", "poll key", "sign",
   "poll signature", "passed", "failed", "hung"}

(* The transaction a test waits for at a place. *)
AwaitedAt(where) ==
  CASE where \in {"updateKey", "poll key"} -> "updateKey"
    [] where \in {"sign", "poll signature"} -> "sign"
    [] OTHER -> "setExtensionId"

(* A test waits for a transaction of the kind its place asks for, polls    *)
(* only for one that was mined, and goes past step 1 only when the         *)
(* extension id is set.                                                    *)
Placed(where, id) ==
  /\ where \in {"idle", "info", "passed", "failed", "hung"} => id = 0
  /\ id # 0 => txs[id].op = AwaitedAt(where)
  /\ where \in {"poll key", "poll signature"} =>
       id # 0 /\ txs[id].receipt = "ok"
  /\ where \in {"info", "updateKey", "poll key", "sign", "poll signature"} => bound

TestInv == \A t \in Tests : Placed(pc[t], awaiting[t])

(* What holds at a place while there was no fault: the key is encrypted    *)
(* for the machine that runs, which has it before it is asked to sign.     *)
Served(where, recipient) ==
  /\ where = "updateKey" => recipient = running /\ running # None
  /\ where \in {"sign", "poll signature"} => hasKey

(* The instruction a test waits for was drawn for the machine that runs,   *)
(* or the test is among those that went astray.                            *)
Drawn(t, id) ==
  id # 0 =>
    (txs[id].op \in Instruction /\ txs[id].receipt = "ok" =>
       txs[id].to = running \/ t \in astray)

(* As long as there was no fault, one machine runs from the first start    *)
(* on, every key is encrypted for it, and it has the key before anybody    *)
(* asks it to sign: what it executes succeeds, but for the signatures of   *)
(* the TypeScript extension.                                               *)
CalmInv ==
  faults = 0 =>
    /\ ready # {} => running \in active
    /\ hasKey => running # None
    /\ \A i \in DOMAIN txs :
          /\ txs[i].op = "updateKey" =>
               txs[i].message = running /\ running # None
          /\ txs[i].op = "sign" => hasKey
    /\ \A i \in DOMAIN results :
          /\ results[i].op = "updateKey" => results[i].ok /\ hasKey
          /\ deployed.language = "go" => results[i].ok
    /\ \A t \in Tests :
          Served(pc[t], ciphertext[t]) /\ Drawn(t, awaiting[t])

(* The deployments TestsPass speaks of. *)
Judged == deployed.language = "go" /\ deployed.call # "stripped"

IInv == TypeInv /\ TxInv /\ TestInv /\ CalmInv /\ TestsPass

-----------------------------------------------------------------------------
(* Types.                                                                  *)

LEMMA TxsTypes ==
  ASSUME TypeInv
  PROVE  /\ DOMAIN txs = 1 .. Len(txs) /\ Len(txs) \in Nat
         /\ \A i \in DOMAIN txs : txs[i] \in Transactions
         /\ \A t \in Tests : awaiting[t] # 0 => awaiting[t] \in DOMAIN txs
         /\ DOMAIN results \subseteq DOMAIN txs
<1>1. DOMAIN txs = 1 .. Len(txs) /\ Len(txs) \in Nat
      /\ \A i \in 1 .. Len(txs) : txs[i] \in Transactions
  BY DEF TypeInv
<1>2. \A t \in Tests : awaiting[t] \in 0 .. Len(txs)
  BY DEF TypeInv, TypeOK
<1>3. DOMAIN results \subseteq DOMAIN txs
  BY DEF TypeInv, TypeOK
<1>4. QED
  BY <1>1, <1>2, <1>3

LEMMA InitInv == Init => IInv
<1> SUFFICES ASSUME Init PROVE IInv
  OBVIOUS
<1> USE InstructionsAssumption DEF Init
<1>1. TypeInv
  <2>1. DOMAIN txs = {} /\ DOMAIN results = {} /\ Len(txs) = 0 /\ txs \in Seq(Transactions)
    OBVIOUS
  <2>2. awaiting \in [Tests -> 0 .. Len(txs)] /\ begun \in 0 .. MaxTests
        /\ faults \in 0 .. MaxFaults
    BY <2>1
  <2>3. TypeOK
    BY <2>1, <2>2 DEF TypeOK
  <2>4. QED
    BY <2>1, <2>3 DEF TypeInv
<1>2. TxInv /\ TestInv
  BY DEF TxInv, TestInv, Placed
<1>3. CalmInv /\ TestsPass
  BY DEF CalmInv, TestsPass, Served, Drawn
<1>4. QED
  BY <1>1, <1>2, <1>3 DEF IInv

-----------------------------------------------------------------------------
(* What the transactions say stays true.                                   *)

(* A transaction keeps what it is, and stays mined once it is. *)
Kept ==
  /\ bound => bound'
  /\ \A i \in DOMAIN txs :
        /\ txs'[i].op = txs[i].op
        /\ txs[i].receipt = "ok" => txs'[i].receipt = "ok"

LEMMA PlacedStays ==
  ASSUME Kept, NEW where, NEW id, id # 0 => id \in DOMAIN txs, Placed(where, id)
  PROVE  Placed(where, id)'
BY DEF Kept, Placed

LEMMA TestsStay ==
  ASSUME TypeInv, TestInv, Kept, UNCHANGED <<pc, awaiting>>
  PROVE  TestInv'
<1>1. ASSUME NEW t \in Tests PROVE Placed(pc[t], awaiting[t])'
  <2>1. Placed(pc[t], awaiting[t]) /\ (awaiting[t] # 0 => awaiting[t] \in DOMAIN txs)
    BY TxsTypes DEF TestInv
  <2>2. PICK where, id : where = pc[t] /\ id = awaiting[t]
    OBVIOUS
  <2>3. Placed(where, id)'
    BY <2>1, <2>2, PlacedStays
  <2>4. QED
    BY <2>2, <2>3 DEF Placed
<1>2. QED
  BY <1>1 DEF TestInv

-----------------------------------------------------------------------------
(* The steps of a test.                                                    *)

(* A test goes somewhere, perhaps as it begins, and nothing else changes.  *)
Enrols(t) ==
  /\ begun < MaxTests /\ begun' = begun + 1
  /\ ready' = IF running \in active THEN ready \cup {t} ELSE ready \ {t}
  /\ astray' = astray \ {t}

Moves(t, where, id, recipient) ==
  /\ pc' = [pc EXCEPT ![t] = where]
  /\ awaiting' = [awaiting EXCEPT ![t] = id]
  /\ ciphertext' = [ciphertext EXCEPT ![t] = recipient]
  /\ UNCHANGED <<deployed, bound, machine, txs>>
  /\ UNCHANGED <<ready, astray, begun>> \/ (Enrols(t) /\ id = 0)
  /\ faults' = faults \/ Fault

LEMMA MoveKeeps ==
  ASSUME IInv, NEW t \in Tests, NEW where \in Places, NEW id, NEW recipient,
         Moves(t, where, id, recipient),
         id \in {0, awaiting[t]}, recipient \in Identities \cup {None},
         Placed(where, id),
         faults' = 0 => /\ Served(where, recipient)
                        /\ Judged /\ where = "failed" =>
                             (t \in ready' => t \in astray')
  PROVE  IInv'
<1>1. /\ UNCHANGED <<deployed, bound, active, running, hasKey, results, txs>>
      /\ pc' = [pc EXCEPT ![t] = where]
      /\ awaiting' = [awaiting EXCEPT ![t] = id]
      /\ ciphertext' = [ciphertext EXCEPT ![t] = recipient]
  BY DEF Moves, machine
<1>2. faults' \in 0 .. MaxFaults /\ (faults' = 0 => faults = 0)
  <2>1. faults \in 0 .. MaxFaults /\ MaxFaults \in Nat
    BY InstructionsAssumption DEF IInv, TypeInv, TypeOK
  <2>2. QED
    BY <2>1 DEF Moves, Fault
<1>begun.
      /\ begun' \in 0 .. MaxTests /\ ready' \subseteq ready \cup {t}
      /\ ready' \subseteq Tests /\ astray' \subseteq Tests
      /\ \A u \in Tests : u # t \/ id # 0 => (u \in astray <=> u \in astray')
      /\ faults = 0 /\ ready' # {} => running \in active
  <2>1. /\ begun \in 0 .. MaxTests /\ MaxTests \in Nat
        /\ ready \subseteq Tests /\ astray \subseteq Tests
    BY InstructionsAssumption DEF IInv, TypeInv, TypeOK
  <2>2. CASE UNCHANGED <<ready, astray, begun>>
    BY <2>1, <2>2 DEF IInv, CalmInv
  <2>3. CASE Enrols(t) /\ id = 0
    BY <2>1, <2>3 DEF IInv, CalmInv, Enrols
  <2>4. QED
    BY <2>2, <2>3 DEF Moves
<1>3. TypeInv'
  <2>1. TypeOK
    BY DEF IInv, TypeInv
  <2>2. /\ pc' \in [Tests -> Places]
        /\ ciphertext' \in [Tests -> Identities \cup {None}]
    BY <1>1, <2>1 DEF TypeOK, Places
  <2>3. awaiting' \in [Tests -> 0 .. Len(txs)]
    <3>1. 0 \in 0 .. Len(txs)
      BY TxsTypes DEF IInv
    <3>2. QED
      BY <1>1, <2>1, <3>1 DEF TypeOK
  <2>4. TypeOK'
    BY <1>1, <1>2, <1>begun, <2>1, <2>2, <2>3 DEF TypeOK, Places
  <2>5. QED
    BY <1>1, <2>4 DEF IInv, TypeInv
<1>4. TxInv'
  BY <1>1 DEF IInv, TxInv
<1>5. TestInv'
  <2>1. ASSUME NEW u \in Tests PROVE Placed(pc[u], awaiting[u])'
    <3>1. Placed(pc'[u], awaiting'[u])
      BY <1>1 DEF IInv, TypeInv, TypeOK, TestInv
    <3>2. QED
      BY <1>1, <3>1 DEF Placed
  <2>2. QED
    BY <2>1 DEF TestInv
<1>6. CalmInv' /\ TestsPass'
  <2> SUFFICES ASSUME faults' = 0 PROVE CalmInv' /\ TestsPass'
    BY DEF CalmInv, TestsPass
  <2>1. faults = 0
    BY <1>2
  <2>2. ASSUME NEW u \in Tests
        PROVE  /\ Served(pc[u], ciphertext[u])' /\ Drawn(u, awaiting[u])'
               /\ Judged /\ pc'[u] = "failed" => (u \in ready' => u \in astray')
    <3>1. /\ Served(pc[u], ciphertext[u]) /\ Drawn(u, awaiting[u])
          /\ Judged /\ pc[u] = "failed" => (u \in ready => u \in astray)
      BY <2>1 DEF IInv, CalmInv, TestsPass, Judged
    <3>2. CASE u = t
      <4>1. pc'[u] = where /\ awaiting'[u] = id /\ ciphertext'[u] = recipient
        BY <1>1, <3>2 DEF IInv, TypeInv, TypeOK
      <4>2. Drawn(u, awaiting[u])'
        BY <1>1, <1>begun, <3>1, <3>2, <4>1 DEF Drawn
      <4>3. QED
        BY <1>1, <3>2, <4>1, <4>2 DEF Served
    <3>3. CASE u # t
      <4>1. /\ pc'[u] = pc[u] /\ awaiting'[u] = awaiting[u]
            /\ ciphertext'[u] = ciphertext[u]
        BY <1>1, <3>3 DEF IInv, TypeInv, TypeOK
      <4>2. Drawn(u, awaiting[u])'
        BY <1>1, <1>begun, <3>1, <3>3, <4>1 DEF Drawn
      <4>3. QED
        BY <1>1, <1>begun, <3>1, <3>3, <4>1, <4>2 DEF Served
    <3>4. QED
      BY <3>2, <3>3
  <2>3. CalmInv'
    BY <1>1, <1>begun, <2>1, <2>2 DEF IInv, CalmInv, TypeInv, TypeOK
  <2>4. TestsPass'
    BY <1>1, <1>begun, <2>2 DEF TestsPass, Judged
  <2>5. QED
    BY <2>3, <2>4
<1>7. QED
  BY <1>3, <1>4, <1>5, <1>6 DEF IInv

(* A failure is no harm to a test that is not among the ready, or after a  *)
(* fault.                                                                  *)
LEMMA FailureKeeps ==
  ASSUME IInv, NEW t \in Tests, Fails(t), Elsewhere, UNCHANGED txs,
         faults' = faults \/ Fault,
         faults' = 0 /\ Judged => (t \in ready => t \in astray)
  PROVE  IInv'
<1>1. Moves(t, "failed", 0, None)
  BY DEF Moves, Fails, Goes, Reset, Elsewhere
<1>2. Placed("failed", 0) /\ Served("failed", None)
  BY DEF Placed, Served
<1>3. "failed" \in Places /\ ready' = ready /\ astray' = astray
  BY DEF Places, Elsewhere
<1>4. QED
  BY <1>1, <1>2, <1>3, MoveKeeps

LEMMA BeginStep ==
  ASSUME IInv, NEW t \in Tests, Begin(t) PROVE IInv'
<1>1. pc[t] \in {"idle", "failed", "passed"} /\ awaiting[t] = 0
  BY DEF Begin, IInv, TestInv, Placed
<1>2. Moves(t, "setExtensionId", 0, ciphertext[t])
  <2>1. /\ awaiting' = [awaiting EXCEPT ![t] = 0]
        /\ ciphertext' = [ciphertext EXCEPT ![t] = ciphertext[t]]
    BY <1>1 DEF Begin, IInv, TypeInv, TypeOK
  <2>2. QED
    BY <2>1 DEF Begin, Moves, Goes, Enrols
<1>3. /\ Placed("setExtensionId", 0) /\ Served("setExtensionId", ciphertext[t])
      /\ ciphertext[t] \in Identities \cup {None}
  BY DEF Placed, Served, IInv, TypeInv, TypeOK
<1>4. QED
  BY <1>2, <1>3, MoveKeeps DEF Places

(* However the node reports a revert, the tool learns the reason, unless   *)
(* its eth_call gives none.                                                *)
LEMMA Reasons ==
  ASSUME IInv, NEW op, deployed.call # "stripped"
  PROVE  SimulateAndDecodeRevert(op) = Refusal(op) /\ EstimateReason(op) = Refusal(op)
<1>1. /\ deployed.call \in {"error data", "error text", "result"}
      /\ deployed.estimate \in {"error data", "error text", "stripped"}
  BY DeploymentsAssumption DEF IInv, TypeInv, TypeOK
<1>2. SimulateAndDecodeRevert(op) = Refusal(op)
  BY <1>1 DEF SimulateAndDecodeRevert, DecodeRevertReason, ErrorText
<1>3. QED
  BY <1>1, <1>2 DEF EstimateReason, DecodeRevertReason, ErrorText

(* Step 1 ends with the id set. *)
LEMMA InfoStep ==
  ASSUME IInv, NEW t \in Tests, SetExtensionIdRefused(t) \/ ExtensionIdSet(t)
  PROVE  IInv'
<1>1. bound
  <2>1. CASE SetExtensionIdRefused(t)
    BY <2>1 DEF SetExtensionIdRefused, Refusal
  <2>2. CASE ExtensionIdSet(t)
    <3>1. /\ awaiting[t] # 0 /\ txs[awaiting[t]].receipt # "pending"
          /\ pc[t] = "setExtensionId"
      BY <2>2 DEF ExtensionIdSet, Receipt
    <3>2. awaiting[t] \in DOMAIN txs /\ txs[awaiting[t]].op = "setExtensionId"
      BY <3>1, TxsTypes DEF IInv, TestInv, Placed, AwaitedAt
    <3>3. QED
      BY <3>1, <3>2 DEF IInv, TxInv
  <2>3. QED
    BY <2>1, <2>2
<1>2. deployed.call # "stripped" =>
        /\ AlreadySet(SimulateAndDecodeRevert("setExtensionId"))
        /\ AlreadySet(EstimateReason("setExtensionId"))
  BY <1>1, Reasons DEF AlreadySet, Refusal
<1>3. \E where \in {"info", "failed"}, recipient \in Identities \cup {None} :
        /\ Moves(t, where, 0, recipient)
        /\ where = "failed" => deployed.call = "stripped"
  <2>1. ciphertext[t] \in Identities \cup {None}
    BY DEF IInv, TypeInv, TypeOK
  <2>2. CASE SetExtensionIdRefused(t)
    <3>1. /\ awaiting' = [awaiting EXCEPT ![t] = 0]
          /\ ciphertext' = [ciphertext EXCEPT ![t] = ciphertext[t]]
      BY <2>2 DEF SetExtensionIdRefused, IInv, TypeInv, TypeOK
    <3>2. PICK where \in {"info", "failed"} :
            /\ Goes(t, where)
            /\ where = "failed" => deployed.call = "stripped"
      BY <1>2, <2>2 DEF SetExtensionIdRefused
    <3>3. Moves(t, where, 0, ciphertext[t])
      BY <2>2, <3>1, <3>2 DEF SetExtensionIdRefused, Moves, Goes, Elsewhere
    <3>4. QED
      BY <2>1, <3>2, <3>3
  <2>3. CASE ExtensionIdSet(t)
    <3>1. PICK where \in {"info", "failed"} :
            /\ Goes(t, where)
            /\ where = "failed" => deployed.call = "stripped"
      BY <1>2, <2>3 DEF ExtensionIdSet
    <3>2. Moves(t, where, 0, None)
      BY <2>3, <3>1 DEF ExtensionIdSet, Moves, Goes, Reset, Elsewhere
    <3>3. QED
      BY <3>1, <3>2
  <2>4. QED
    BY <2>2, <2>3
<1>4. PICK where \in {"info", "failed"}, recipient \in Identities \cup {None} :
        /\ Moves(t, where, 0, recipient)
        /\ where = "failed" => deployed.call = "stripped"
  BY <1>3
<1>5. Placed(where, 0) /\ Served(where, recipient) /\ where \in Places
  BY <1>1, <1>4 DEF Placed, Served, Places
<1>6. QED
  BY <1>4, <1>5, MoveKeeps DEF Judged

LEMMA FetchInfoStep ==
  ASSUME IInv, NEW t \in Tests, FetchInfo(t) PROVE IInv'
<1>1. pc[t] = "info" /\ awaiting[t] = 0 /\ bound
  BY DEF FetchInfo, IInv, TestInv, Placed
<1>2. CASE running = None
  <2>1. Fails(t) /\ Elsewhere /\ UNCHANGED <<txs, faults>>
    BY <1>2 DEF FetchInfo
  <2>2. faults = 0 => ready = {}
    BY <1>2, InstructionsAssumption DEF IInv, CalmInv, TypeInv, TypeOK
  <2>3. QED
    BY <2>1, <2>2, FailureKeeps
<1>3. CASE running # None
  <2>1. Moves(t, "updateKey", 0, running)
    <3>1. awaiting' = [awaiting EXCEPT ![t] = 0]
      BY <1>1, <1>3 DEF FetchInfo, IInv, TypeInv, TypeOK
    <3>2. QED
      BY <1>3, <3>1 DEF FetchInfo, Moves, Goes, Elsewhere
  <2>2. /\ Placed("updateKey", 0) /\ Served("updateKey", running)
        /\ running \in Identities \cup {None}
    BY <1>1, <1>3 DEF Placed, Served, IInv, TypeInv, TypeOK
  <2>3. QED
    BY <2>1, <2>2, MoveKeeps DEF Places
<1>4. QED
  BY <1>2, <1>3

(* No instruction is reverted; a mined one is polled for. *)
LEMMA MinedStep ==
  ASSUME IInv, NEW t \in Tests, NEW op, NEW next,
         \/ op = "updateKey" /\ next = "poll key"
         \/ op = "sign" /\ next = "poll signature",
         InstructionMined(t, op, next)
  PROVE  IInv'
<1>1. pc[t] = op /\ awaiting[t] # 0 /\ bound
  BY DEF InstructionMined, Receipt, IInv, TestInv, Placed
<1>2. awaiting[t] \in DOMAIN txs /\ txs[awaiting[t]].op = op
  BY <1>1, TxsTypes DEF IInv, TestInv, Placed, AwaitedAt
<1>3. txs[awaiting[t]].receipt # "reverted"
  BY <1>2 DEF IInv, TxInv, Instruction
<1>4. txs[awaiting[t]].receipt = "ok"
  BY <1>1, <1>3 DEF InstructionMined, Receipt
<1>5. Moves(t, next, awaiting[t], ciphertext[t])
  <2>1. /\ awaiting' = [awaiting EXCEPT ![t] = awaiting[t]]
        /\ ciphertext' = [ciphertext EXCEPT ![t] = ciphertext[t]]
    BY <1>1, <1>4 DEF InstructionMined, Receipt, IInv, TypeInv, TypeOK
  <2>2. QED
    BY <1>1, <1>4, <2>1 DEF InstructionMined, Receipt, Moves, Goes, Elsewhere
<1>6. Placed(next, awaiting[t])
  BY <1>1, <1>2, <1>4 DEF Placed, AwaitedAt
<1>7. faults' = 0 => Served(next, ciphertext[t])
  BY <1>1, <1>5 DEF Served, IInv, CalmInv, InstructionMined
<1>8. ciphertext[t] \in Identities \cup {None} /\ next \in Places
  BY DEF IInv, TypeInv, TypeOK, Places
<1>9. QED
  BY <1>5, <1>6, <1>7, <1>8, MoveKeeps

(* The result a test finds is of the instruction it sent; without a fault  *)
(* that of a key is a good one, and in the Go extension every one.         *)
LEMMA FoundResult ==
  ASSUME IInv, NEW t \in Tests, Found(t),
         pc[t] \in {"poll key", "poll signature"}
  PROVE  /\ Response(t).op = AwaitedAt(pc[t])
         /\ faults = 0 /\ pc[t] = "poll key" => Response(t).ok /\ hasKey
         /\ faults = 0 /\ Judged => Response(t).ok
<1>1. awaiting[t] # 0 /\ awaiting[t] \in DOMAIN txs /\ awaiting[t] \in DOMAIN results
  BY TxsTypes DEF IInv, TestInv, Placed, Found
<1>2. Response(t).op = AwaitedAt(pc[t])
  BY <1>1 DEF Response, IInv, TypeInv, TestInv, Placed
<1>3. QED
  BY <1>1, <1>2 DEF Response, IInv, CalmInv, AwaitedAt, Judged

LEMMA UpdateKeyResultStep ==
  ASSUME IInv, NEW t \in Tests, UpdateKeyResult(t) PROVE IInv'
<1>1. pc[t] = "poll key" /\ Found(t) /\ bound
  BY DEF UpdateKeyResult, IInv, TestInv, Placed
<1>2. faults = 0 => Response(t).ok /\ hasKey
  BY <1>1, FoundResult
<1>3. CASE ~ Response(t).ok
  BY <1>2, <1>3, FailureKeeps DEF UpdateKeyResult
<1>4. CASE Response(t).ok
  <2>1. Moves(t, "sign", 0, None) /\ faults' = faults
    BY <1>4 DEF UpdateKeyResult, Moves, Goes, Reset, Elsewhere
  <2>2. Placed("sign", 0) /\ (faults = 0 => Served("sign", None))
    BY <1>1, <1>2 DEF Placed, Served
  <2>3. QED
    BY <2>1, <2>2, MoveKeeps DEF Places
<1>5. QED
  BY <1>3, <1>4

LEMMA SignResultStep ==
  ASSUME IInv, NEW t \in Tests, SignResult(t) PROVE IInv'
<1>1. pc[t] = "poll signature" /\ Found(t)
  BY DEF SignResult
<1>2. Response(t).op = "sign" /\ (faults = 0 /\ Judged => Response(t).ok)
  BY <1>1, FoundResult DEF AwaitedAt
<1>3. CASE ~ Response(t).ok
  BY <1>2, <1>3, FailureKeeps DEF SignResult
<1>4. CASE Response(t).ok
  <2>1. Moves(t, "passed", 0, None)
    BY <1>2, <1>4 DEF SignResult, Moves, Goes, Reset, Elsewhere
  <2>2. Placed("passed", 0) /\ Served("passed", None)
    BY DEF Placed, Served
  <2>3. QED
    BY <2>1, <2>2, MoveKeeps DEF Places
<1>5. QED
  BY <1>3, <1>4

(* Without a fault only a test that went astray gives up: what the others  *)
(* poll for is to be executed by the machine that runs.                    *)
LEMMA GiveUpStep ==
  ASSUME IInv, NEW t \in Tests, GiveUp(t) \/ Interrupted(t) PROVE IInv'
<1>1. faults \in Nat /\ MaxFaults \in Nat \ {0}
  <2>1. faults \in 0 .. MaxFaults
    BY DEF IInv, TypeInv, TypeOK
  <2>2. QED
    BY <2>1, InstructionsAssumption
<1>2. ASSUME Fault PROVE faults' # 0
  BY <1>1, <1>2 DEF Fault
<1>3. CASE Interrupted(t)
  BY <1>2, <1>3, FailureKeeps DEF Interrupted
<1>4. CASE GiveUp(t)
  <2>1. CASE Hopeless(t) \/ faults = MaxFaults
    <3>1. pc[t] \in {"poll key", "poll signature"}
      BY <1>4 DEF GiveUp
    <3>2. /\ awaiting[t] \in DOMAIN txs /\ txs[awaiting[t]].receipt = "ok"
          /\ txs[awaiting[t]].op \in Instruction
      BY <3>1, TxsTypes DEF IInv, TestInv, Placed, AwaitedAt, Instruction
    <3>3. faults = 0 => t \in astray
      <4>1. faults = 0 => Hopeless(t) /\ Drawn(t, awaiting[t])
        BY <1>1, <2>1 DEF IInv, CalmInv
      <4>2. awaiting[t] # 0
        BY <3>1 DEF IInv, TestInv, Placed
      <4>3. QED
        BY <3>2, <4>1, <4>2 DEF Hopeless, Drawn
    <3>4. QED
      BY <1>4, <2>1, <3>3, FailureKeeps DEF GiveUp
  <2>2. CASE ~ (Hopeless(t) \/ faults = MaxFaults)
    BY <1>2, <1>4, <2>2, FailureKeeps DEF GiveUp
  <2>3. QED
    BY <2>1, <2>2
<1>5. QED
  BY <1>3, <1>4

(* A test that hangs has not failed. *)
LEMMA HangsStep ==
  ASSUME IInv, NEW t \in Tests, Hangs(t) PROVE IInv'
<1>1. Moves(t, "hung", 0, None)
  BY DEF Hangs, Moves, Goes, Reset, Elsewhere
<1>2. Placed("hung", 0) /\ Served("hung", None) /\ "hung" \in Places
  BY DEF Placed, Served, Places
<1>3. QED
  BY <1>1, <1>2, MoveKeeps

(* A transaction is sent: it is the last, and pending, and the gas         *)
(* estimate has found nothing against it.                                  *)
LEMMA SendKeeps ==
  ASSUME IInv, NEW t \in Tests, NEW op \in Instruction \cup {"setExtensionId"},
         NEW message \in Identities \cup {None},
         Sends(t, op, message), awaiting[t] = 0, AwaitedAt(pc[t]) = op,
         pc[t] \in {"setExtensionId", "updateKey", "sign"},
         faults = 0 /\ op = "updateKey" => message = running /\ running # None,
         Elsewhere, UNCHANGED <<pc, ciphertext, faults>>
  PROVE  IInv'
<1>1. PICK tx : tx = [op |-> op, message |-> message, to |-> None,
                      receipt |-> "pending"]
  OBVIOUS
<1>2. PICK n \in Nat : n = Len(txs) + 1
  BY TxsTypes DEF IInv
<1>3. /\ txs' = Append(txs, tx) /\ awaiting' = [awaiting EXCEPT ![t] = n]
      /\ Refusal(op) = "" /\ tx \in Transactions
      /\ UNCHANGED <<deployed, bound, active, running, hasKey, results, ready,
                     astray, begun, pc, ciphertext, faults>>
  BY <1>1, <1>2 DEF Sends, Elsewhere, machine, Transactions
<1>4. /\ DOMAIN txs' = DOMAIN txs \cup {n} /\ n \notin DOMAIN txs
      /\ \A i \in DOMAIN txs : txs'[i] = txs[i]
      /\ txs'[n] = tx /\ txs' \in Seq(Transactions) /\ Len(txs') = n
  <2>1. txs \in Seq(Transactions) /\ DOMAIN txs = 1 .. Len(txs) /\ Len(txs) \in Nat
    BY TxsTypes DEF IInv, TypeInv
  <2>2. /\ txs' \in Seq(Transactions) /\ Len(txs') = Len(txs) + 1
        /\ \A i \in 1 .. Len(txs) : txs'[i] = txs[i]
        /\ txs'[Len(txs) + 1] = tx
    <3>1. txs' = Append(txs, tx) /\ tx \in Transactions
      BY <1>3
    <3>2. txs \in Seq(Transactions)
      BY <2>1
    <3>3. QED
      BY <3>1, <3>2, AppendProperties
  <2>3. /\ DOMAIN txs' = 1 .. n /\ txs'[n] = tx /\ Len(txs') = n
        /\ 1 .. n = 1 .. Len(txs) \cup {n} /\ n \notin 1 .. Len(txs)
    BY <1>2, <2>1, <2>2
  <2>4. QED
    BY <2>1, <2>2, <2>3
<1>5. op \in Instruction => bound /\ active # {}
  BY <1>3 DEF Refusal, Instruction
<1>6. TypeInv'
  <2>1. TypeOK
    BY DEF IInv, TypeInv
  <2>2. awaiting' \in [Tests -> 0 .. n]
    <3>1. \A u \in Tests : awaiting[u] \in 0 .. Len(txs)
      BY <2>1 DEF TypeOK
    <3>2. \A u \in Tests : awaiting[u] \in 0 .. n
      BY <1>2, <3>1, TxsTypes DEF IInv
    <3>3. n \in 0 .. n
      BY <1>2
    <3>4. DOMAIN awaiting = Tests
      BY <2>1 DEF TypeOK
    <3>5. QED
      BY <1>3, <3>2, <3>3, <3>4
  <2>3. \A i \in DOMAIN txs' : txs'[i] \in Transactions
    BY <1>3, <1>4, TxsTypes DEF IInv
  <2>4. DOMAIN results' \subseteq {i \in DOMAIN txs' : txs'[i].op # "setExtensionId"}
    BY <1>3, <1>4, <2>1 DEF TypeOK
  <2>5. TypeOK'
    <3>1. \A i \in DOMAIN txs' :
            /\ txs'[i].op \in {"setExtensionId", "updateKey", "sign"}
            /\ txs'[i].receipt \in {"pending", "ok", "reverted"}
            /\ {txs'[i].to, txs'[i].message} \subseteq Identities \cup {None}
      BY <2>3 DEF Transactions, Instruction
    <3>2. awaiting' \in [Tests -> 0 .. Len(txs')]
      BY <1>4, <2>2
    <3>3. QED
      BY <1>3, <2>1, <2>4, <3>1, <3>2 DEF TypeOK
  <2>6. QED
    BY <1>3, <1>4, <2>1, <2>5 DEF IInv, TypeInv, TypeOK
<1>7. TxInv'
  <2>1. /\ txs'[n].op = op /\ txs'[n].to = None /\ txs'[n].receipt = "pending"
        /\ \A i \in DOMAIN txs : txs'[i] = txs[i]
        /\ DOMAIN txs' = DOMAIN txs \cup {n}
    BY <1>1, <1>4
  <2>2. QED
    BY <1>3, <1>5, <2>1 DEF IInv, TxInv, Instruction
<1>8. TestInv'
  <2>1. Kept
    BY <1>3, <1>4 DEF Kept
  <2>2. ASSUME NEW u \in Tests PROVE Placed(pc[u], awaiting[u])'
    <3>1. CASE u = t
      <4>1. n # 0
        BY <1>2, TxsTypes DEF IInv
      <4>kept. pc'[t] = pc[t] /\ awaiting'[t] = n /\ Placed(pc[t], awaiting[t])
        BY <1>3 DEF IInv, TypeInv, TypeOK, TestInv
      <4>2. txs'[n].op = AwaitedAt(pc[t])
        BY <1>1, <1>4
      <4>3. QED
        BY <1>3, <3>1, <4>1, <4>kept, <4>2 DEF Placed, AwaitedAt
    <3>2. CASE u # t
      <4>1. pc'[u] = pc[u] /\ awaiting'[u] = awaiting[u]
        BY <1>3, <3>2 DEF IInv, TypeInv, TypeOK
      <4>2. /\ Placed(pc[u], awaiting[u])
            /\ awaiting[u] # 0 => awaiting[u] \in DOMAIN txs
        BY TxsTypes DEF IInv, TestInv
      <4>3. PICK where, id : where = pc[u] /\ id = awaiting[u]
        OBVIOUS
      <4>4. Placed(where, id)'
        BY <2>1, <4>2, <4>3, PlacedStays
      <4>5. QED
        BY <4>1, <4>3, <4>4 DEF Placed
    <3>3. QED
      BY <3>1, <3>2
  <2>3. QED
    BY <2>2 DEF TestInv
<1>9. CalmInv'
  <2> SUFFICES ASSUME faults' = 0 PROVE CalmInv'
    BY DEF CalmInv
  <2>1. faults = 0 /\ CalmInv
    BY <1>3 DEF IInv
  <2>2. op = "sign" => hasKey
    <3>1. op = "sign" => pc[t] = "sign"
      BY DEF AwaitedAt
    <3>2. QED
      BY <2>1, <3>1 DEF CalmInv, Served
  <2>3. \A i \in DOMAIN txs' :
          /\ txs'[i].op = "updateKey" =>
               txs'[i].message = running /\ running # None
          /\ txs'[i].op = "sign" => hasKey
    <3>1. txs'[n].op = op /\ txs'[n].message = message
      BY <1>1, <1>4
    <3>2. \A i \in DOMAIN txs : txs'[i] = txs[i]
      BY <1>4
    <3>3. DOMAIN txs' = DOMAIN txs \cup {n}
      BY <1>4
    <3>4. QED
      BY <2>1, <2>2, <3>1, <3>2, <3>3 DEF CalmInv
  <2>4. \A u \in Tests : Served(pc[u], ciphertext[u])'
    BY <1>3, <2>1 DEF CalmInv, Served
  <2>5. ASSUME NEW u \in Tests PROVE Drawn(u, awaiting[u])'
    <3>1. CASE u = t
      <4>1. awaiting'[u] = n
        BY <1>3, <3>1 DEF IInv, TypeInv, TypeOK
      <4>2. txs'[n].receipt = "pending"
        BY <1>1, <1>4
      <4>3. QED
        BY <4>1, <4>2 DEF Drawn
    <3>2. CASE u # t
      <4>1. awaiting'[u] = awaiting[u] /\ Drawn(u, awaiting[u])
        BY <1>3, <2>1, <3>2 DEF CalmInv, IInv, TypeInv, TypeOK
      <4>2. awaiting[u] # 0 => txs'[awaiting[u]] = txs[awaiting[u]]
        BY <1>4, TxsTypes DEF IInv
      <4>3. QED
        BY <1>3, <4>1, <4>2 DEF Drawn
    <3>3. QED
      BY <3>1, <3>2
  <2>6. QED
    BY <1>3, <2>1, <2>3, <2>4, <2>5 DEF CalmInv
<1>10. TestsPass'
  BY <1>3 DEF IInv, TestsPass
<1>11. QED
  BY <1>6, <1>7, <1>8, <1>9, <1>10 DEF IInv

LEMMA SetExtensionIdStep ==
  ASSUME IInv, NEW t \in Tests, SetExtensionId(t) PROVE IInv'
BY SendKeeps DEF SetExtensionId, AwaitedAt

LEMMA SendStep ==
  ASSUME IInv, NEW t \in Tests, NEW op \in Instruction, Send(t, op) PROVE IInv'
<1>1. /\ pc[t] = op /\ awaiting[t] = 0 /\ bound
      /\ AwaitedAt(pc[t]) = op /\ pc[t] \in {"setExtensionId", "updateKey", "sign"}
      /\ ciphertext[t] \in Identities \cup {None}
  BY DEF Send, Instruction, AwaitedAt, IInv, TypeInv, TypeOK, TestInv, Placed
<1>2. CASE Refusal(op) = ""
  <2>1. /\ Sends(t, op, ciphertext[t]) /\ Elsewhere
        /\ UNCHANGED <<pc, ciphertext, faults>>
    BY <1>2 DEF Send
  <2>2. faults = 0 /\ op = "updateKey" =>
          ciphertext[t] = running /\ running # None
    BY <1>1 DEF IInv, CalmInv, Served
  <2>3. QED
    BY <1>1, <2>1, <2>2, SendKeeps
<1>3. CASE Refusal(op) # ""
  <2>1. Fails(t) /\ Elsewhere /\ UNCHANGED <<txs, faults>>
    BY <1>3 DEF Send, Sends
  <2>2. active = {}
    BY <1>1, <1>3 DEF Refusal, Instruction
  <2>3. faults = 0 => t \notin ready
    BY <2>2 DEF IInv, CalmInv
  <2>4. QED
    BY <2>1, <2>3, FailureKeeps
<1>4. QED
  BY <1>2, <1>3

LEMMA TestStep ==
  ASSUME IInv, NEW t \in Tests,
         Begin(t) \/ Step(t) \/ Hangs(t) \/ Interrupted(t)
  PROVE  IInv'
<1>1. CASE Begin(t)
  BY <1>1, BeginStep
<1>2. CASE SetExtensionIdRefused(t) \/ ExtensionIdSet(t)
  BY <1>2, InfoStep
<1>3. CASE SetExtensionId(t)
  BY <1>3, SetExtensionIdStep
<1>4. CASE FetchInfo(t)
  BY <1>4, FetchInfoStep
<1>5. CASE SendUpdateKey(t) \/ SendSign(t)
  BY <1>5, SendStep DEF SendUpdateKey, SendSign, Instruction
<1>6. CASE \/ InstructionMined(t, "updateKey", "poll key")
           \/ InstructionMined(t, "sign", "poll signature")
  BY <1>6, MinedStep
<1>7. CASE UpdateKeyResult(t)
  BY <1>7, UpdateKeyResultStep
<1>8. CASE SignResult(t)
  BY <1>8, SignResultStep
<1>9. CASE GiveUp(t) \/ Interrupted(t)
  BY <1>9, GiveUpStep
<1>10. CASE Hangs(t)
  BY <1>10, HangsStep
<1>11. QED
  BY <1>1, <1>2, <1>3, <1>4, <1>5, <1>6, <1>7, <1>8, <1>9, <1>10 DEF Step

-----------------------------------------------------------------------------
(* The steps of the chain and the machines.                                *)

(* A transaction is mined: it gets its receipt, and an instruction its     *)
(* machine; nothing that estimated well is reverted.                       *)
LEMMA MineStep ==
  ASSUME IInv, Mine PROVE IInv'
<1>1. PICK i \in DOMAIN txs :
        /\ txs[i].receipt = "pending"
        /\ \/ /\ Refusal(txs[i].op) # ""
              /\ txs' = [txs EXCEPT ![i].receipt = "reverted"]
              /\ UNCHANGED <<bound, astray>>
           \/ /\ Refusal(txs[i].op) = "" /\ txs[i].op = "setExtensionId"
              /\ txs' = [txs EXCEPT ![i].receipt = "ok"]
              /\ bound' = TRUE
              /\ UNCHANGED astray
           \/ /\ Refusal(txs[i].op) = "" /\ txs[i].op # "setExtensionId"
              /\ \E m \in active :
                   /\ txs' = [txs EXCEPT ![i].receipt = "ok", ![i].to = m]
                   /\ astray' = astray \cup
                                  {t \in Tests : awaiting[t] = i /\ m # running}
              /\ UNCHANGED bound
  BY DEF Mine
<1>2. /\ txs[i] \in Transactions /\ txs \in Seq(Transactions)
      /\ txs[i].op \in Instruction \cup {"setExtensionId"}
  BY TxsTypes DEF IInv, TypeInv, Transactions
<1>3. UNCHANGED <<deployed, active, running, hasKey, results, pc, awaiting,
                  ciphertext, ready, begun, faults>>
  BY DEF Mine, machine
<1>4. \E tx \in Transactions :
        /\ txs' = [txs EXCEPT ![i] = tx]
        /\ tx.op = txs[i].op /\ tx.message = txs[i].message
        /\ tx.op = "setExtensionId" => tx.to = None /\ bound'
        /\ tx.op \in Instruction =>
             /\ tx.receipt = "ok" /\ tx.to \in active /\ bound' = bound
             /\ \A t \in Tests :
                   awaiting[t] = i => tx.to = running \/ t \in astray'
        /\ bound' \in BOOLEAN /\ (bound => bound')
        /\ astray \subseteq astray' /\ astray' \subseteq Tests
  <2>1. bound \in BOOLEAN /\ active \subseteq Identities /\ astray \subseteq Tests
    BY DEF IInv, TypeInv, TypeOK
  <2>2. CASE Refusal(txs[i].op) # ""
    <3>1. txs[i].op = "setExtensionId" /\ bound /\ txs[i].to = None
      BY <1>2, <2>2 DEF IInv, TxInv, Refusal, Instruction
    <3>2. PICK tx : tx = [txs[i] EXCEPT !.receipt = "reverted"]
      OBVIOUS
    <3>3. /\ tx \in Transactions /\ tx.op = "setExtensionId" /\ tx.to = None
          /\ tx.message = txs[i].message
      BY <1>2, <3>1, <3>2 DEF Transactions
    <3>4. txs' = [txs EXCEPT ![i] = tx] /\ bound' = bound /\ astray' = astray
      BY <1>1, <2>2, <3>2
    <3>5. QED
      BY <2>1, <3>1, <3>3, <3>4 DEF Instruction
  <2>3. CASE Refusal(txs[i].op) = "" /\ txs[i].op = "setExtensionId"
    <3>1. PICK tx : tx = [txs[i] EXCEPT !.receipt = "ok"]
      OBVIOUS
    <3>2. txs[i].to = None
      BY <2>3 DEF IInv, TxInv
    <3>3. /\ tx \in Transactions /\ tx.op = "setExtensionId" /\ tx.to = None
          /\ tx.message = txs[i].message
      BY <1>2, <2>3, <3>1, <3>2 DEF Transactions
    <3>4. txs' = [txs EXCEPT ![i] = tx] /\ bound' = TRUE /\ astray' = astray
      BY <1>1, <2>3, <3>1
    <3>5. QED
      BY <2>1, <2>3, <3>3, <3>4 DEF Instruction
  <2>4. CASE Refusal(txs[i].op) = "" /\ txs[i].op # "setExtensionId"
    <3>1. PICK m \in active :
            /\ txs' = [txs EXCEPT ![i].receipt = "ok", ![i].to = m]
            /\ bound' = bound
            /\ astray' = astray \cup
                           {t \in Tests : awaiting[t] = i /\ m # running}
      BY <1>1, <2>4
    <3>2. PICK tx : tx = [txs[i] EXCEPT !.receipt = "ok", !.to = m]
      OBVIOUS
    <3>3. /\ tx \in Transactions /\ tx.op = txs[i].op /\ tx.to = m
          /\ tx.receipt = "ok" /\ tx.message = txs[i].message
      BY <1>2, <2>1, <3>1, <3>2 DEF Transactions
    <3>4. txs' = [txs EXCEPT ![i] = tx]
      BY <1>2, <3>1, <3>2
    <3>5. /\ astray \subseteq astray' /\ astray' \subseteq Tests
          /\ \A t \in Tests : awaiting[t] = i => tx.to = running \/ t \in astray'
      BY <2>1, <3>1, <3>3
    <3>6. QED
      BY <2>1, <2>4, <3>1, <3>3, <3>4, <3>5
  <2>5. QED
    BY <2>2, <2>3, <2>4
<1>5. PICK tx \in Transactions :
        /\ txs' = [txs EXCEPT ![i] = tx]
        /\ tx.op = txs[i].op /\ tx.message = txs[i].message
        /\ tx.op = "setExtensionId" => tx.to = None /\ bound'
        /\ tx.op \in Instruction =>
             /\ tx.receipt = "ok" /\ tx.to \in active /\ bound' = bound
             /\ \A t \in Tests :
                   awaiting[t] = i => tx.to = running \/ t \in astray'
        /\ bound' \in BOOLEAN /\ (bound => bound')
        /\ astray \subseteq astray' /\ astray' \subseteq Tests
  BY <1>4
<1>6. /\ DOMAIN txs' = DOMAIN txs /\ Len(txs') = Len(txs) /\ txs' \in Seq(Transactions)
      /\ txs'[i] = tx /\ \A j \in DOMAIN txs : j # i => txs'[j] = txs[j]
  BY <1>2, <1>5
<1>7. TypeInv'
  <2>1. TypeOK
    BY DEF IInv, TypeInv
  <2>2. \A j \in DOMAIN txs' : txs'[j] \in Transactions
    BY <1>5, <1>6, TxsTypes DEF IInv
  <2>3. DOMAIN results' \subseteq {j \in DOMAIN txs' : txs'[j].op # "setExtensionId"}
    BY <1>3, <1>5, <1>6, <2>1 DEF TypeOK
  <2>4. TypeOK'
    <3>1. \A j \in DOMAIN txs' :
            /\ txs'[j].op \in {"setExtensionId", "updateKey", "sign"}
            /\ txs'[j].receipt \in {"pending", "ok", "reverted"}
            /\ {txs'[j].to, txs'[j].message} \subseteq Identities \cup {None}
      BY <2>2 DEF Transactions, Instruction
    <3>2. awaiting' \in [Tests -> 0 .. Len(txs')]
      BY <1>3, <1>6, <2>1 DEF TypeOK
    <3>3. QED
      BY <1>3, <1>5, <2>1, <2>3, <3>1, <3>2 DEF TypeOK
  <2>5. \A j \in DOMAIN results' :
          results'[j].op = txs'[j].op /\ results'[j].ok \in BOOLEAN
    BY <1>3, <1>5, <1>6, TxsTypes DEF IInv, TypeInv
  <2>6. QED
    BY <1>6, <2>4, <2>5 DEF TypeInv
<1>8. TxInv'
  BY <1>3, <1>5, <1>6 DEF IInv, TxInv, Instruction
<1>9. TestInv'
  <2>1. Kept
    BY <1>1, <1>5, <1>6 DEF Kept
  <2>2. QED
    BY <1>3, <2>1, TestsStay DEF IInv
<1>10. CalmInv'
  <2> SUFFICES ASSUME faults' = 0 PROVE CalmInv'
    BY DEF CalmInv
  <2>1. faults = 0 /\ CalmInv
    BY <1>3 DEF IInv
  <2>2. \A j \in DOMAIN txs' :
          /\ txs'[j].op = "updateKey" =>
               txs'[j].message = running /\ running # None
          /\ txs'[j].op = "sign" => hasKey
    BY <1>5, <1>6, <2>1 DEF CalmInv
  <2>3. \A u \in Tests : Served(pc[u], ciphertext[u])'
    BY <1>3, <2>1 DEF CalmInv, Served
  <2>4. ASSUME NEW u \in Tests PROVE Drawn(u, awaiting[u])'
    <3>1. CASE awaiting[u] = i
      BY <1>3, <1>5, <1>6, <3>1 DEF Drawn
    <3>2. CASE awaiting[u] # i
      <4>1. /\ Drawn(u, awaiting[u])
            /\ awaiting[u] # 0 => txs'[awaiting[u]] = txs[awaiting[u]]
        BY <1>6, <2>1, <3>2, TxsTypes DEF CalmInv, IInv
      <4>2. QED
        BY <1>3, <1>5, <4>1 DEF Drawn
    <3>3. QED
      BY <3>1, <3>2
  <2>5. QED
    BY <1>3, <2>1, <2>2, <2>3, <2>4 DEF CalmInv
<1>11. TestsPass'
  BY <1>3, <1>5 DEF IInv, TestsPass
<1>12. QED
  BY <1>7, <1>8, <1>9, <1>10, <1>11 DEF IInv

(* While there was no fault, a key is readable, and a signature possible   *)
(* in the Go extension.                                                    *)
LEMMA ExecuteStep ==
  ASSUME IInv, Execute PROVE IInv'
<1> DEFINE Ok(i) == IF txs[i].op = "updateKey" THEN txs[i].message = running
                    ELSE hasKey /\ deployed.language = "go"
<1>1. PICK i \in DOMAIN txs :
        /\ running # None
        /\ txs[i].receipt = "ok" /\ txs[i].to = running
        /\ i \notin DOMAIN results
        /\ hasKey' = (hasKey \/ (Ok(i) /\ txs[i].op = "updateKey"))
        /\ results' = [j \in DOMAIN results \cup {i} |->
                         IF j = i THEN [op |-> txs[i].op, ok |-> Ok(i)]
                         ELSE results[j]]
  BY DEF Execute
<1>2. UNCHANGED <<deployed, bound, active, running, txs, pc, awaiting, ciphertext,
                  ready, astray, begun, faults>>
  BY DEF Execute
<1>3. PICK ok \in BOOLEAN : ok = Ok(i)
  BY DEF IInv, TypeInv, TypeOK
<1>4. /\ hasKey' = (hasKey \/ (ok /\ txs[i].op = "updateKey"))
      /\ DOMAIN results' = DOMAIN results \cup {i}
      /\ results'[i].op = txs[i].op /\ results'[i].ok = ok
      /\ \A j \in DOMAIN results : results'[j] = results[j]
  BY <1>1, <1>3
<1>5. txs[i].op \in Instruction
  BY <1>1, TxsTypes, InstructionsAssumption
  DEF IInv, TypeInv, TypeOK, TxInv, Transactions
<1>6. TypeInv'
  <2>1. TypeOK
    BY DEF IInv, TypeInv
  <2>2. DOMAIN results' \subseteq {j \in DOMAIN txs' : txs'[j].op # "setExtensionId"}
    BY <1>2, <1>4, <1>5, <2>1 DEF TypeOK, Instruction
  <2>3. hasKey' \in BOOLEAN
    BY <1>4, <2>1 DEF TypeOK
  <2>4. TypeOK'
    BY <1>2, <2>1, <2>2, <2>3 DEF TypeOK
  <2>5. QED
    BY <1>2, <1>4, <2>4 DEF IInv, TypeInv
<1>7. TxInv'
  BY <1>2 DEF IInv, TxInv
<1>8. TestInv'
  <2>1. Kept
    BY <1>2 DEF Kept
  <2>2. QED
    BY <1>2, <2>1, TestsStay DEF IInv
<1>9. CalmInv'
  <2> SUFFICES ASSUME faults' = 0 PROVE CalmInv'
    BY DEF CalmInv
  <2>1. faults = 0 /\ CalmInv
    BY <1>2 DEF IInv
  <2>2. txs[i].op = "updateKey" \/ deployed.language = "go" => ok
    BY <1>1, <1>3, <1>5, <2>1 DEF CalmInv, Instruction
  <2>3. (hasKey => hasKey') /\ (txs[i].op = "updateKey" => hasKey')
    BY <1>4, <2>2
  <2>4. \A j \in DOMAIN results' :
          /\ results'[j].op = "updateKey" => results'[j].ok /\ hasKey'
          /\ deployed'.language = "go" => results'[j].ok
    BY <1>2, <1>4, <2>1, <2>2, <2>3 DEF CalmInv
  <2>5. \A u \in Tests :
          Served(pc[u], ciphertext[u])' /\ Drawn(u, awaiting[u])'
    BY <1>2, <2>1, <2>3 DEF CalmInv, Served, Drawn
  <2>6. QED
    BY <1>1, <1>2, <2>1, <2>3, <2>4, <2>5 DEF CalmInv
<1>10. TestsPass'
  BY <1>2 DEF IInv, TestsPass
<1>11. QED
  BY <1>6, <1>7, <1>8, <1>9, <1>10 DEF IInv

(* The first start finds nothing that could be lost; any other is a fault. *)
LEMMA StackStep ==
  ASSUME IInv, StartStack \/ RestartExtension PROVE IInv'
<1>1. UNCHANGED <<deployed, bound, active, txs, pc, awaiting, ciphertext, ready,
                  astray, begun>>
  BY DEF StartStack, RestartExtension
<1>2. /\ running' \in Identities \cup {None} /\ hasKey' = FALSE
      /\ results' = <<>> \/ results' = results
  BY DEF StartStack, RestartExtension, IInv, TypeInv, TypeOK
<1>3. faults \in 0 .. MaxFaults /\ MaxFaults \in Nat
  BY InstructionsAssumption DEF IInv, TypeInv, TypeOK
<1>4. /\ faults' \in 0 .. MaxFaults
      /\ faults' = 0 => /\ faults = 0 /\ running = None /\ running' \in Identities
                        /\ results' = <<>>
  BY <1>3 DEF StartStack, RestartExtension, Fault
<1>5. TypeInv'
  <2>1. TypeOK
    BY DEF IInv, TypeInv
  <2>2. DOMAIN results' \subseteq {i \in DOMAIN txs : txs[i].op # "setExtensionId"}
    <3>1. DOMAIN <<>> = {}
      OBVIOUS
    <3>2. QED
      BY <1>2, <2>1, <3>1 DEF TypeOK
  <2>3. TypeOK'
    BY <1>1, <1>2, <1>4, <2>1, <2>2 DEF TypeOK
  <2>4. \A i \in DOMAIN results' : i \in DOMAIN results /\ results' = results
    BY <1>2
  <2>5. QED
    BY <1>1, <2>3, <2>4 DEF IInv, TypeInv
<1>6. TxInv'
  BY <1>1 DEF IInv, TxInv
<1>7. TestInv'
  <2>1. Kept
    BY <1>1 DEF Kept
  <2>2. QED
    BY <1>1, <2>1, TestsStay DEF IInv
<1>8. CalmInv' /\ TestsPass'
  <2> SUFFICES ASSUME faults' = 0 PROVE CalmInv' /\ TestsPass'
    BY DEF CalmInv, TestsPass
  <2>1. /\ faults = 0 /\ running = None /\ running' # None /\ results' = <<>>
        /\ CalmInv /\ TestsPass
    BY <1>4, InstructionsAssumption DEF IInv
  <2>2. ready = {} /\ ~ hasKey
    BY <2>1, InstructionsAssumption DEF CalmInv, IInv, TypeInv, TypeOK
  <2>3. \A i \in DOMAIN txs : txs[i].op \notin Instruction
    BY <2>1, <2>2, TxsTypes DEF CalmInv, IInv, Instruction
  <2>4. \A u \in Tests : Served(pc[u], ciphertext[u])'
    BY <1>1, <2>1, <2>2 DEF CalmInv, Served
  <2>5. \A u \in Tests : Drawn(u, awaiting[u])'
    BY <1>1, <2>3, TxsTypes DEF Drawn, IInv
  <2>6. DOMAIN results' = {}
    BY <2>1
  <2>7. QED
    BY <1>1, <1>2, <2>1, <2>2, <2>3, <2>4, <2>5, <2>6
    DEF CalmInv, TestsPass, Instruction
<1>9. QED
  BY <1>5, <1>6, <1>7, <1>8 DEF IInv

(* More machines in production do no harm: a test whose instruction one of *)
(* them draws counts among those that went astray.                         *)
LEMMA MachineStep ==
  ASSUME IInv, PostBuild \/ AnotherMachine PROVE IInv'
<1>1. /\ active \subseteq active' /\ active' \subseteq Identities
      /\ UNCHANGED <<deployed, bound, running, hasKey, txs, results, pc, awaiting,
                     ciphertext, ready, astray, begun, faults>>
  BY DEF PostBuild, AnotherMachine, IInv, TypeInv, TypeOK
<1>2. TypeInv'
  BY <1>1 DEF IInv, TypeInv, TypeOK
<1>3. TxInv'
  BY <1>1 DEF IInv, TxInv
<1>4. TestInv'
  <2>1. Kept
    BY <1>1 DEF Kept
  <2>2. QED
    BY <1>1, <2>1, TestsStay DEF IInv
<1>5. CalmInv' /\ TestsPass'
  BY <1>1 DEF IInv, CalmInv, TestsPass, Served, Drawn
<1>6. QED
  BY <1>2, <1>3, <1>4, <1>5 DEF IInv

LEMMA StutterStep ==
  ASSUME IInv, UNCHANGED vars PROVE IInv'
<1>1. UNCHANGED <<deployed, bound, active, running, hasKey, txs, results, pc, awaiting,
                  ciphertext, ready, astray, begun, faults>>
  BY DEF vars
<1>2. TypeInv' /\ TxInv'
  BY <1>1 DEF IInv, TypeInv, TypeOK, TxInv
<1>3. TestInv'
  BY <1>1 DEF IInv, TestInv, Placed
<1>4. CalmInv' /\ TestsPass'
  BY <1>1 DEF IInv, CalmInv, TestsPass, Served, Drawn
<1>5. QED
  BY <1>2, <1>3, <1>4 DEF IInv

-----------------------------------------------------------------------------
(* The theorems.                                                           *)

(* Tools send instructions that the contract accepts; while nothing is     *)
(* restarted every key is encrypted for the machine that runs, which has   *)
(* it before it is asked to sign, and a test whose instruction another     *)
(* machine drew is known: the invariant the theorems below follow from.    *)
THEOREM InductiveInvariant == Spec => []IInv
<1>1. Init => IInv
  BY InitInv
<1>2. IInv /\ [Next]_vars => IInv'
  <2> SUFFICES ASSUME IInv, [Next]_vars PROVE IInv'
    OBVIOUS
  <2>1. CASE Mine
    BY <2>1, MineStep
  <2>2. CASE Execute
    BY <2>2, ExecuteStep
  <2>3. CASE StartStack \/ RestartExtension
    BY <2>3, StackStep
  <2>4. CASE PostBuild \/ AnotherMachine
    BY <2>4, MachineStep
  <2>5. ASSUME NEW t \in Tests,
               Begin(t) \/ Step(t) \/ Hangs(t) \/ Interrupted(t)
        PROVE  IInv'
    BY <2>5, TestStep
  <2>6. CASE UNCHANGED vars
    BY <2>6, StutterStep
  <2>7. QED
    BY <2>1, <2>2, <2>3, <2>4, <2>5, <2>6 DEF Next
<1>3. QED
  BY <1>1, <1>2, PTL DEF Spec

(* The types of Instructions hold in every state: a test waits for nothing *)
(* that was not sent, and a result belongs to an instruction.              *)
THEOREM TypeCorrect == Spec => []TypeOK
<1>1. IInv => TypeOK
  BY DEF IInv, TypeInv
<1>2. QED
  BY <1>1, InductiveInvariant, PTL

(* run-test, with the Go extension: begun with the machine registered, and *)
(* with nothing restarted or given up, a test fails only when another      *)
(* machine drew one of its instructions - for any number of machines and   *)
(* of tests, at once and one after another, and whichever way the RPC node *)
(* reports a revert, if its eth_call reports the reason at all.            *)
THEOREM TestsDoPass == Spec => []TestsPass
<1>1. IInv => TestsPass
  BY DEF IInv
<1>2. QED
  BY <1>1, InductiveInvariant, PTL
=============================================================================
