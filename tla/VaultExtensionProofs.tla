------------------------ MODULE VaultExtensionProofs ------------------------
(* Proofs about VaultExtension, for every value of its constants. *)
EXTENDS VaultExtension, SequenceTheorems, TLAPS

(* What a request can be: each command with its own payloads. *)
LEMMA RequestPayload ==
  ASSUME NEW r \in Request
  PROVE  /\ r.op \in Commands \cup {"STATE"}
         /\ r.op = "UPDATE" => r.msg \in Keys \cup {BadKey, Undecodable, Empty}
         /\ r.op = "SET_POLICY" =>
               r.msg \in PolicyMessages \cup {Undecodable, Empty}
         /\ r.op = "SIGN" => r.msg \in IntentMessages \cup {Undecodable, Empty}
BY DEF Request, Payloads, Commands

(* The verdict on a policy is "ok" only if the policy is valid, and an     *)
(* error otherwise: the early returns of handleSetPolicy leave no gap.     *)
LEMMA PolicyVerdictSound ==
  ASSUME NEW m \in PolicyMessages \cup {Undecodable, Empty}
  PROVE  /\ PolicyVerdict(m) \in Errors \cup {"ok"}
         /\ PolicyVerdict(m) = "ok" <=> m \in ValidPolicies
<1>1. PolicyVerdict(m) \in Errors \cup {"ok"}
  BY DEF PolicyVerdict, Errors
<1>2. CASE m \in {Undecodable, Empty}
  BY <1>1, <1>2, DataAssumption DEF PolicyVerdict, ValidPolicies
<1>3. CASE m \in PolicyMessages
  <2>1. m.allowedRecipients \in Seq(Addresses) /\ m # Empty /\ m # Undecodable
    BY <1>3, DataAssumption
  <2>2. m.allowedRecipients = <<>> <=> Len(m.allowedRecipients) = 0
    BY <2>1
  <2>3. Len(m.allowedRecipients) \in Nat
    BY <2>1
  <2>4. m \in ValidPolicies <=>
           /\ m.allowedRecipients # <<>>
           /\ ~ (Len(m.allowedRecipients) > AllowLimit)
           /\ ~ Occurs(ZeroAddress, m.allowedRecipients)
    BY <1>3, <2>2, <2>3, DataAssumption DEF ValidPolicies
  <2>5. QED
    BY <1>1, <2>1, <2>4 DEF PolicyVerdict, NamesZero
<1>4. QED
  BY <1>1, <1>2, <1>3

LEMMA SignVerdictType ==
  ASSUME NEW m PROVE SignVerdict(m) \in Errors \cup {"ok"}
BY DEF SignVerdict, Errors

(* Under the type invariant, what each kind of answer looks like. *)
LEMMA ReplyType ==
  ASSUME TypeOK
  PROVE  /\ \A log \in Errors \cup {"ok"} : Reply(log) \in Result
         /\ Signature \in Result
         /\ StateReport \in Result
         /\ Waiting \in Result
BY DEF TypeOK, Reply, Signature, StateReport, Waiting, Result

(* The request at the head of the chain, once its handler may run. *)
LEMMA HeadRequest ==
  ASSUME TypeOK, started < Len(handlerQueue)
  PROVE  /\ started + 1 \in 1 .. Len(handlerQueue)
         /\ handlerQueue[started + 1] \in Request
BY DEF TypeOK

(* Answering a request keeps the results well typed, and only its own      *)
(* entry changes.                                                          *)
LEMMA AnswerType ==
  ASSUME TypeOK, NEW i \in 1 .. Len(handlerQueue), NEW r \in Result
  PROVE  /\ [results EXCEPT ![i] = r] \in Seq(Result)
         /\ Len([results EXCEPT ![i] = r]) = Len(handlerQueue)
         /\ \A j \in 1 .. Len(handlerQueue) :
               [results EXCEPT ![i] = r][j] = IF j = i THEN r ELSE results[j]
BY ExceptSeq DEF TypeOK

(* TypeOK is inductive. *)
THEOREM TypeCorrect == Spec => []TypeOK
<1> USE DEF Answer
<1>1. Init => TypeOK
  BY DEF Init, TypeOK
<1>2. TypeOK /\ [Next]_vars => TypeOK'
  <2> SUFFICES ASSUME TypeOK, [Next]_vars PROVE TypeOK'
    OBVIOUS
  <2>1. ASSUME NEW r \in Request, Receive(r) PROVE TypeOK'
    <3>1. results' \in Seq(Result) /\ Len(results') = Len(results) + 1
      BY <2>1, ReplyType DEF Receive, TypeOK
    <3>2. handlerQueue' \in Seq(Request)
          /\ Len(handlerQueue') = Len(handlerQueue) + 1
      BY <2>1 DEF Receive, TypeOK
    <3>3. QED
      BY <2>1, <3>1, <3>2 DEF Receive, TypeOK
  <2>2. CASE HandleKeyUpdate
    <3>1. ASSUME NEW log \in {"emptyMessage", "invalidHex"},
                 Answer(started + 1, Reply(log)), UNCHANGED decrypting
          PROVE  TypeOK'
      <4>1. Reply(log) \in Result
        BY ReplyType DEF Errors
      <4>2. QED
        BY <2>2, <3>1, <4>1, AnswerType, HeadRequest
        DEF HandleKeyUpdate, Runs, TypeOK
    <3>2. CASE decrypting' = started + 1 /\ UNCHANGED results
      BY <2>2, <3>2, HeadRequest DEF HandleKeyUpdate, Runs, TypeOK
    <3>3. QED
      BY <2>2, <3>1, <3>2 DEF HandleKeyUpdate
  <2>3. CASE DecryptRejects
    <3>1. Reply("decryptionFailed") \in Result
      BY ReplyType DEF Errors
    <3>2. QED
      BY <2>3, <3>1, AnswerType DEF DecryptRejects, TypeOK
  <2>4. CASE DecryptResolves
    <3>1. Reply("ok") \in Result /\ Reply("invalidKey") \in Result
      BY ReplyType DEF Errors
    <3>2. decrypting \in 1 .. Len(handlerQueue)
      BY <2>4 DEF DecryptResolves, TypeOK
    <3>3. results' \in Seq(Result) /\ Len(results') = Len(handlerQueue)
      BY <2>4, <3>1, <3>2, AnswerType DEF DecryptResolves
    <3>4. privateKey' \in Keys \cup {None}
      BY <2>4 DEF DecryptResolves, TypeOK
    <3>5. QED
      BY <2>4, <3>3, <3>4 DEF DecryptResolves, TypeOK
  <2>5. CASE HandleSetPolicy
    <3>1. Msg \in PolicyMessages \cup {Undecodable, Empty}
      BY <2>5, HeadRequest, RequestPayload
      DEF HandleSetPolicy, Runs, Msg
    <3>2. Reply(PolicyVerdict(Msg)) \in Result
      BY <3>1, PolicyVerdictSound, ReplyType
    <3>3. policy' \in ValidPolicies \cup {None}
      BY <2>5, <3>1, PolicyVerdictSound DEF HandleSetPolicy, TypeOK
    <3>4. QED
      BY <2>5, <3>2, <3>3, AnswerType, HeadRequest
      DEF HandleSetPolicy, Runs, TypeOK
  <2>6. CASE HandleKeySign
    <3> DEFINE answer == IF SignVerdict(Msg) = "ok" THEN Signature
                         ELSE Reply(SignVerdict(Msg))
    <3>1. answer \in Result
      BY ReplyType, SignVerdictType
    <3>2. Answer(started + 1, answer)
      BY <2>6 DEF HandleKeySign
    <3> HIDE DEF answer
    <3>3. QED
      BY <2>6, <3>1, <3>2, AnswerType, HeadRequest
      DEF HandleKeySign, Runs, TypeOK
  <2>7. CASE ReportState
    BY <2>7, ReplyType, AnswerType, HeadRequest
    DEF ReportState, Runs, TypeOK
  <2>8. CASE Crash
    BY <2>8 DEF Crash, TypeOK
  <2>9. CASE Restart
    BY <2>9 DEF Restart, TypeOK
  <2>10. CASE Tick
    BY <2>10 DEF Tick, TypeOK
  <2>11. CASE UNCHANGED vars
    BY <2>11 DEF vars, TypeOK
  <2>12. QED
    BY <2>1, <2>2, <2>3, <2>4, <2>5, <2>6, <2>7, <2>8, <2>9, <2>10, <2>11
    DEF Next
<1>3. QED
  BY <1>1, <1>2, PTL DEF Spec

-----------------------------------------------------------------------------
(* The chain: the only request without an answer among those begun is the  *)
(* last one begun, a key update awaiting the node.                         *)
ChainInv ==
  /\ decrypting # 0 => /\ decrypting = started
                       /\ handlerQueue[decrypting].op = "UPDATE"
  /\ \A i \in 1 .. Len(handlerQueue) :
        Answered(i) <=> i <= started /\ i # decrypting

(* The extension's memory is what the accepted requests made of it. *)
MemoryInv ==
  /\ InForce("UPDATE", privateKey, Finished + 1)
  /\ InForce("SET_POLICY", policy, Finished + 1)

AnswerCorrect(i) ==
  SignatureAuthorized(i) /\ RefusalJustified(i) /\ ReportCurrent(i)

AnswersInv == \A i \in 1 .. Len(handlerQueue) : AnswerCorrect(i)

IInv == TypeOK /\ ChainInv /\ MemoryInv /\ AnswersInv

(* Only one value is in force at a time. *)
LEMMA InForceUnique ==
  ASSUME NEW op, NEW v, NEW w, NEW i \in Nat,
         InForce(op, v, i), InForce(op, w, i)
  PROVE  v = w
<1>1. CASE \A j \in 1 .. i - 1 : ~ Accepted(op, j)
  BY <1>1 DEF InForce
<1>2. CASE ~ \A j \in 1 .. i - 1 : ~ Accepted(op, j)
  <2>1. PICK j \in 1 .. i - 1 :
           /\ Accepted(op, j) /\ handlerQueue[j].msg = v
           /\ \A k \in j + 1 .. i - 1 : ~ Accepted(op, k)
    BY <1>2 DEF InForce
  <2>2. PICK l \in 1 .. i - 1 :
           /\ Accepted(op, l) /\ handlerQueue[l].msg = w
           /\ \A k \in l + 1 .. i - 1 : ~ Accepted(op, k)
    BY <1>2 DEF InForce
  <2>3. j = l
    BY <2>1, <2>2
  <2>4. QED
    BY <2>1, <2>2, <2>3
<1>3. QED
  BY <1>1, <1>2

(* What is in force before request n depends on the requests before n      *)
(* only; what is in force after it, on its own answer as well.             *)
LEMMA InForceStep ==
  ASSUME NEW op, NEW v, NEW n \in Nat \ {0},
         \A j \in 1 .. n - 1 : /\ handlerQueue'[j] = handlerQueue[j]
                               /\ results'[j] = results[j]
  PROVE  /\ InForce(op, v, n)' <=> InForce(op, v, n)
         /\ Accepted(op, n)' /\ handlerQueue'[n].msg = v
               => InForce(op, v, n + 1)'
         /\ ~ Accepted(op, n)' /\ InForce(op, v, n) => InForce(op, v, n + 1)'
<1>1. \A j \in 1 .. n - 1 : Accepted(op, j)' <=> Accepted(op, j)
  BY DEF Accepted
<1>2. InForce(op, v, n)' <=> InForce(op, v, n)
  BY <1>1 DEF InForce
<1>3. ASSUME Accepted(op, n)', handlerQueue'[n].msg = v
      PROVE  InForce(op, v, n + 1)'
  BY <1>3 DEF InForce
<1>4. ASSUME ~ Accepted(op, n)', InForce(op, v, n)
      PROVE  InForce(op, v, n + 1)'
  BY <1>1, <1>4 DEF InForce
<1>5. QED
  BY <1>2, <1>3, <1>4

(* An answer once correct stays correct while it and the answers before it *)
(* are left alone.                                                         *)
LEMMA AnswerStable ==
  ASSUME NEW i \in Nat \ {0}, AnswerCorrect(i),
         \A j \in 1 .. i : /\ handlerQueue'[j] = handlerQueue[j]
                           /\ results'[j] = results[j]
  PROVE  AnswerCorrect(i)'
<1>1. \A op, v : InForce(op, v, i)' <=> InForce(op, v, i)
  BY InForceStep
<1>2. \A k, p : Permit(k, p, i)' <=> Permit(k, p, i)
  BY <1>1 DEF Permit
<1>3. \A op : Accepted(op, i)' <=> Accepted(op, i)
  BY DEF Accepted
<1>4. QED
  BY <1>1, <1>2, <1>3
  DEF AnswerCorrect, SignatureAuthorized, RefusalJustified, ReportCurrent

(* The verdict on an intent is "ok" exactly when the gate permits it: the  *)
(* early returns of handleKeySign leave no gap and overlap nowhere.        *)
LEMMA SignVerdictExact ==
  ASSUME TypeOK, NEW m \in IntentMessages \cup {Undecodable, Empty}
  PROVE  SignVerdict(m) = "ok" <=>
           /\ privateKey # None /\ policy # None
           /\ m \in IntentMessages /\ Allows(policy, m, now)
<1>1. CASE privateKey = None \/ policy = None \/ m \in {Undecodable, Empty}
  BY <1>1, DataAssumption DEF SignVerdict
<1>2. CASE privateKey # None /\ policy # None /\ m \in IntentMessages
  <2>1. policy \in ValidPolicies /\ policy \in PolicyMessages
    BY <1>2 DEF TypeOK, ValidPolicies
  <2>2. policy.maxAmount \in Nat /\ policy.expiresAt \in Nat
    BY <2>1, DataAssumption
  <2>3. m.amount \in Nat /\ m.deadline \in Nat /\ m # Undecodable /\ m # Empty
    BY <1>2, DataAssumption
  <2>4. now \in Nat
    BY DEF TypeOK
  <2>5. \A limit \in Nat : Expired(limit) <=> ~ InTime(limit, now)
    BY <2>4 DEF Expired, InTime
  <2>6. ExceedsMax(m.amount) <=> ~ (m.amount <= policy.maxAmount)
    BY <2>2, <2>3 DEF ExceedsMax
  <2>7. Expired(policy.expiresAt) <=> ~ InTime(policy.expiresAt, now)
    BY <2>2, <2>5
  <2>8. Expired(m.deadline) <=> ~ InTime(m.deadline, now)
    BY <2>3, <2>5
  <2>9. QED
    BY <1>2, <2>3, <2>6, <2>7, <2>8 DEF SignVerdict, Allows
<1>3. QED
  BY <1>1, <1>2

(* A step that answers the next request n with r, and nothing else of the  *)
(* chain: what every handler but the first half of a key update does.      *)
Settles(n, r) ==
  /\ n = Finished + 1 /\ n \in 1 .. Len(handlerQueue)
  /\ r \in Result /\ r.log # "waiting"
  /\ results' = [results EXCEPT ![n] = r]
  /\ handlerQueue' = handlerQueue
  /\ started' = n /\ decrypting' = 0

LEMMA SettleStep ==
  ASSUME IInv, NEW n, NEW r, Settles(n, r)
  PROVE  /\ n \in Nat \ {0}
         /\ results'[n] = r /\ handlerQueue'[n] = handlerQueue[n]
         /\ Finished' = n
         /\ \A j \in 1 .. n - 1 : /\ handlerQueue'[j] = handlerQueue[j]
                                 /\ results'[j] = results[j]
         /\ ChainInv'
         /\ AnswerCorrect(n)' => AnswersInv'
<1>1. /\ n = Finished + 1 /\ n \in 1 .. Len(handlerQueue)
      /\ r \in Result /\ r.log # "waiting"
      /\ results' = [results EXCEPT ![n] = r]
      /\ handlerQueue' = handlerQueue
      /\ started' = n /\ decrypting' = 0
  BY DEF Settles
<1>2. Len(handlerQueue) \in Nat /\ started \in Nat /\ decrypting \in Nat
  BY DEF IInv, TypeOK
<1>3. \A j \in 1 .. Len(handlerQueue) :
         results'[j] = IF j = n THEN r ELSE results[j]
  BY <1>1, AnswerType DEF IInv
<1>4. Finished' = n
  BY <1>1 DEF Finished
<1>5. \A i \in 1 .. Len(handlerQueue) :
         Answered(i) <=> i <= started /\ i # decrypting
  BY DEF IInv, ChainInv
<1>6. decrypting # 0 => decrypting = started
  BY DEF IInv, ChainInv
<1>7. \A i \in 1 .. Len(handlerQueue) : Answered(i) <=> i < n
  BY <1>1, <1>2, <1>5, <1>6 DEF Finished
<1>8. \A i \in 1 .. Len(handlerQueue) : Answered(i)' <=> i <= n
  BY <1>1, <1>2, <1>3, <1>7 DEF Answered
<1>9. ChainInv'
  BY <1>1, <1>2, <1>8 DEF ChainInv
<1>10. ASSUME AnswerCorrect(n)', NEW i \in 1 .. Len(handlerQueue)
       PROVE  AnswerCorrect(i)'
  <2>1. CASE i < n
    <3>1. \A j \in 1 .. i : /\ handlerQueue'[j] = handlerQueue[j]
                            /\ results'[j] = results[j]
      BY <1>1, <1>2, <1>3, <2>1
    <3>2. AnswerCorrect(i)
      BY DEF IInv, AnswersInv
    <3>3. QED
      BY <1>2, <3>1, <3>2, AnswerStable
  <2>2. CASE i = n
    BY <1>10, <2>2
  <2>3. CASE i > n
    <3>1. results'[i].log = "waiting"
      BY <1>1, <1>2, <1>8, <2>3 DEF Answered
    <3>2. QED
      BY <3>1 DEF AnswerCorrect, SignatureAuthorized, RefusalJustified,
                  ReportCurrent, Accepted, Errors
  <2>4. QED
    BY <1>1, <1>2, <2>1, <2>2, <2>3
<1>11. AnswerCorrect(n)' => AnswersInv'
  BY <1>1, <1>10 DEF AnswersInv
<1>12. QED
  BY <1>1, <1>2, <1>3, <1>4, <1>9, <1>11

(* A handler that begins when the chain is free answers the next request.  *)
LEMMA HandlerSettles ==
  ASSUME IInv, NEW op, Runs(op), UNCHANGED <<handlerQueue, decrypting>>,
         NEW r \in Result, r.log # "waiting", Answer(started + 1, r)
  PROVE  Settles(started + 1, r) /\ handlerQueue[started + 1].op = op
<1>1. decrypting = 0 /\ started < Len(handlerQueue)
  BY DEF Runs, ChainFree
<1>2. started + 1 \in 1 .. Len(handlerQueue)
  BY <1>1, HeadRequest DEF IInv
<1>3. QED
  BY <1>1, <1>2 DEF Runs, Answer, Settles, Finished

(* A settled node request answers the key update that awaited it. *)
LEMMA AwaitSettles ==
  ASSUME IInv, decrypting # 0, decrypting' = 0,
         UNCHANGED <<handlerQueue, started>>,
         NEW r \in Result, r.log # "waiting", Answer(decrypting, r)
  PROVE  Settles(decrypting, r) /\ handlerQueue[decrypting].op = "UPDATE"
<1>1. decrypting = started /\ handlerQueue[decrypting].op = "UPDATE"
  BY DEF IInv, ChainInv
<1>2. decrypting \in 1 .. Len(handlerQueue) /\ started \in Nat
  BY DEF IInv, TypeOK
<1>3. QED
  BY <1>1, <1>2 DEF Answer, Settles, Finished

(* When request n settles and memory follows its answer, memory stays what *)
(* the accepted requests made of it.                                       *)
LEMMA MemoryStep ==
  ASSUME IInv, NEW n, NEW r, Settles(n, r),
         IF handlerQueue[n].op = "UPDATE" /\ r.log = "ok"
         THEN privateKey' = handlerQueue[n].msg ELSE privateKey' = privateKey,
         IF handlerQueue[n].op = "SET_POLICY" /\ r.log = "ok"
         THEN policy' = handlerQueue[n].msg ELSE policy' = policy
  PROVE  MemoryInv'
<1>1. /\ n \in Nat \ {0} /\ results'[n] = r
      /\ handlerQueue'[n] = handlerQueue[n] /\ Finished' = n
      /\ \A j \in 1 .. n - 1 : /\ handlerQueue'[j] = handlerQueue[j]
                              /\ results'[j] = results[j]
  BY SettleStep
<1>2. n = Finished + 1
  BY DEF Settles
<1>3. InForce("UPDATE", privateKey, n) /\ InForce("SET_POLICY", policy, n)
  BY <1>2 DEF IInv, MemoryInv
<1>4. \A op : Accepted(op, n)' <=> handlerQueue[n].op = op /\ r.log = "ok"
  BY <1>1 DEF Accepted
<1>5. \A op, v :
         /\ Accepted(op, n)' /\ handlerQueue'[n].msg = v
               => InForce(op, v, n + 1)'
         /\ ~ Accepted(op, n)' /\ InForce(op, v, n) => InForce(op, v, n + 1)'
  BY <1>1, InForceStep
<1>6. ASSUME NEW k, privateKey' = k PROVE InForce("UPDATE", k, n + 1)'
  BY <1>1, <1>3, <1>4, <1>5, <1>6
<1>7. ASSUME NEW p, policy' = p PROVE InForce("SET_POLICY", p, n + 1)'
  BY <1>1, <1>3, <1>4, <1>5, <1>7
<1>8. InForce("UPDATE", privateKey, n + 1)'
  BY <1>6 DEF InForce
<1>9. InForce("SET_POLICY", policy, n + 1)'
  BY <1>7 DEF InForce
<1>10. QED
  BY <1>1, <1>8, <1>9 DEF MemoryInv, InForce

(* An answer to an instruction that is neither a signature, nor a refusal  *)
(* to sign, nor a state report claims nothing.                             *)
LEMMA InstructionAnswer ==
  ASSUME NEW n, handlerQueue'[n].op \in {"UPDATE", "SET_POLICY"}
  PROVE  AnswerCorrect(n)'
BY DEF AnswerCorrect, SignatureAuthorized, RefusalJustified, ReportCurrent,
       Accepted

(* IInv is inductive; the type invariant of the next state is taken from   *)
(* TypeCorrect.                                                            *)
LEMMA IInvInit == Init => IInv
<1> SUFFICES ASSUME Init PROVE IInv
  OBVIOUS
<1>1. TypeOK
  BY DEF Init, TypeOK
<1>2. Len(handlerQueue) = 0 /\ Finished = 0
  BY DEF Init, Finished
<1>3. ChainInv /\ AnswersInv
  BY <1>2 DEF Init, ChainInv, AnswersInv
<1>4. MemoryInv
  BY <1>2 DEF Init, MemoryInv, InForce
<1>5. QED
  BY <1>1, <1>3, <1>4 DEF IInv

LEMMA ReceiveStep ==
  ASSUME IInv, NEW req \in Request, Receive(req)
  PROVE  ChainInv' /\ MemoryInv' /\ AnswersInv'
<1>a. PICK L \in Nat : L = Len(handlerQueue)
  BY DEF IInv, TypeOK
<1>1. /\ handlerQueue \in Seq(Request) /\ results \in Seq(Result)
      /\ Len(handlerQueue) = L /\ Len(results) = L
      /\ started \in 0 .. L /\ decrypting \in 0 .. L
  BY <1>a DEF IInv, TypeOK
<1>2. Waiting \in Result
  BY ReplyType DEF IInv
<1>3. /\ Len(handlerQueue') = L + 1
      /\ \A j \in 1 .. L : handlerQueue'[j] = handlerQueue[j]
  BY <1>1, AppendProperties DEF Receive
<1>4. /\ results'[L + 1] = Waiting
      /\ \A j \in 1 .. L : results'[j] = results[j]
  BY <1>1, <1>2, AppendProperties DEF Receive
<1>5. UNCHANGED <<privateKey, policy, started, decrypting>>
  BY DEF Receive
<1>6. \A op : ~ Accepted(op, L + 1)' /\ ~ Answered(L + 1)'
  BY <1>4 DEF Answered, Accepted, Waiting
<1>7. \A i \in 1 .. L : Answered(i) <=> i <= started /\ i # decrypting
  BY <1>1 DEF IInv, ChainInv
<1>8. decrypting # 0 =>
         decrypting = started /\ handlerQueue[decrypting].op = "UPDATE"
  BY DEF IInv, ChainInv
<1>9. ChainInv'
  <2>1. \A i \in 1 .. L : Answered(i)' <=> i <= started /\ i # decrypting
    BY <1>4, <1>7 DEF Answered
  <2>2. \A i \in 1 .. L + 1 : Answered(i)' <=> i <= started /\ i # decrypting
    BY <1>1, <1>6, <2>1
  <2>3. decrypting # 0 => handlerQueue'[decrypting].op = "UPDATE"
    BY <1>1, <1>3, <1>8
  <2>4. QED
    BY <1>3, <1>5, <1>8, <2>2, <2>3 DEF ChainInv
<1>10. MemoryInv'
  <2>1. Finished \in 0 .. L
    BY <1>1, <1>8 DEF Finished
  <2>2. Finished' = Finished
    BY <1>5 DEF Finished
  <2>3. \A j \in 1 .. (Finished + 1) - 1 :
           handlerQueue'[j] = handlerQueue[j] /\ results'[j] = results[j]
    BY <1>1, <1>3, <1>4, <2>1
  <2>4. Finished + 1 \in Nat \ {0}
    BY <1>1, <2>1
  <2>5. ASSUME NEW op, NEW v, NEW n \in Nat \ {0}, n = Finished + 1
        PROVE  InForce(op, v, n)' <=> InForce(op, v, n)
    BY <2>3, <2>5, InForceStep
  <2>6. ASSUME NEW k, NEW p, NEW n, k = privateKey, p = policy,
               n = Finished + 1
        PROVE  InForce("UPDATE", k, n)' /\ InForce("SET_POLICY", p, n)'
    BY <2>4, <2>5, <2>6 DEF IInv, MemoryInv
  <2>7. QED
    BY <1>5, <2>2, <2>6 DEF MemoryInv, InForce
<1>11. AnswersInv'
  <2>1. ASSUME NEW i \in 1 .. L PROVE AnswerCorrect(i)'
    <3>1. \A j \in 1 .. i : /\ handlerQueue'[j] = handlerQueue[j]
                            /\ results'[j] = results[j]
      BY <1>1, <1>3, <1>4
    <3>2. AnswerCorrect(i) /\ i \in Nat \ {0}
      BY <1>1 DEF IInv, AnswersInv
    <3>3. QED
      BY <3>1, <3>2, AnswerStable
  <2>2. AnswerCorrect(L + 1)'
    <3>1. results'[L + 1].log \notin Errors
      BY <1>4 DEF Waiting, Errors
    <3>2. QED
      BY <1>6, <3>1 DEF AnswerCorrect, SignatureAuthorized, RefusalJustified,
                        ReportCurrent
  <2>3. ASSUME NEW i \in 1 .. L + 1 PROVE AnswerCorrect(i)'
    BY <1>1, <2>1, <2>2
  <2>4. QED
    BY <1>3, <2>3 DEF AnswersInv
<1>12. QED
  BY <1>9, <1>10, <1>11

LEMMA KeyUpdateStep ==
  ASSUME IInv, HandleKeyUpdate
  PROVE  ChainInv' /\ MemoryInv' /\ AnswersInv'
<1>1. ASSUME NEW log \in {"emptyMessage", "invalidHex"},
             Answer(started + 1, Reply(log)), UNCHANGED decrypting
      PROVE  ChainInv' /\ MemoryInv' /\ AnswersInv'
  <2> DEFINE r == Reply(log)
  <2>1. r \in Result /\ r.log = log
    BY ReplyType DEF IInv, Errors, Reply
  <2>2. Runs("UPDATE") /\ UNCHANGED <<privateKey, policy, handlerQueue>>
    BY DEF HandleKeyUpdate
  <2> HIDE DEF r
  <2>3. Settles(started + 1, r) /\ handlerQueue[started + 1].op = "UPDATE"
    BY <1>1, <2>1, <2>2, HandlerSettles DEF r
  <2>4. MemoryInv'
    BY <2>1, <2>2, <2>3, MemoryStep
  <2>5. QED
    BY <2>2, <2>3, <2>4, SettleStep, InstructionAnswer
<1>2. CASE decrypting' = started + 1 /\ UNCHANGED results
  <2>1. /\ decrypting = 0 /\ started' = started + 1
        /\ handlerQueue[started + 1].op = "UPDATE"
        /\ UNCHANGED <<privateKey, policy, handlerQueue, results>>
        /\ decrypting' = started'
    BY <1>2 DEF HandleKeyUpdate, Runs, ChainFree
  <2>2. started \in Nat /\ Len(handlerQueue) \in Nat
    BY DEF IInv, TypeOK
  <2>3. \A i \in 1 .. Len(handlerQueue) :
           Answered(i) <=> i <= started /\ i # decrypting
    BY DEF IInv, ChainInv
  <2>4. ChainInv'
    BY <2>1, <2>2, <2>3 DEF ChainInv, Answered
  <2>5. Finished' = Finished
    BY <2>1, <2>2 DEF Finished
  <2>6. MemoryInv'
    BY <2>1, <2>5 DEF IInv, MemoryInv, InForce, Accepted
  <2>7. AnswersInv'
    <3>1. ASSUME NEW i \in 1 .. Len(handlerQueue) PROVE AnswerCorrect(i)'
      BY <2>1, <2>2, AnswerStable DEF IInv, AnswersInv
    <3>2. QED
      BY <2>1, <3>1 DEF AnswersInv
  <2>8. QED
    BY <2>4, <2>6, <2>7
<1>3. QED
  BY <1>1, <1>2 DEF HandleKeyUpdate

LEMMA DecryptStep ==
  ASSUME IInv, DecryptRejects \/ DecryptResolves
  PROVE  ChainInv' /\ MemoryInv' /\ AnswersInv'
<1>1. PICK log \in {"ok", "decryptionFailed", "invalidKey"} :
         /\ Answer(decrypting, Reply(log))
         /\ privateKey' = IF log = "ok" THEN handlerQueue[decrypting].msg
                          ELSE privateKey
  BY DEF DecryptRejects, DecryptResolves
<1>2. /\ decrypting # 0 /\ decrypting' = 0
      /\ UNCHANGED <<policy, handlerQueue, started>>
  BY DEF DecryptRejects, DecryptResolves
<1>3. Reply(log) \in Result /\ Reply(log).log = log
  BY ReplyType DEF IInv, Errors, Reply
<1>4. Settles(decrypting, Reply(log)) /\ handlerQueue[decrypting].op = "UPDATE"
  BY <1>1, <1>2, <1>3, AwaitSettles
<1>5. MemoryInv'
  BY <1>1, <1>2, <1>3, <1>4, MemoryStep
<1>6. QED
  BY <1>2, <1>4, <1>5, SettleStep, InstructionAnswer

LEMMA SetPolicyStep ==
  ASSUME IInv, HandleSetPolicy
  PROVE  ChainInv' /\ MemoryInv' /\ AnswersInv'
<1>1. PICK n \in 1 .. Len(handlerQueue) : n = started + 1
  BY HeadRequest DEF IInv, HandleSetPolicy, Runs
<1>2. PICK log : log = PolicyVerdict(Msg)
  OBVIOUS
<1>3. /\ Runs("SET_POLICY") /\ Answer(started + 1, Reply(log))
      /\ policy' = IF log = "ok" THEN handlerQueue[n].msg ELSE policy
      /\ UNCHANGED <<privateKey, handlerQueue, decrypting>>
  BY <1>1, <1>2 DEF HandleSetPolicy, Msg
<1>4. Msg \in PolicyMessages \cup {Undecodable, Empty}
  BY <1>3, HeadRequest, RequestPayload DEF Runs, Msg, IInv
<1>5. log \in Errors \cup {"ok"}
  BY <1>2, <1>4, PolicyVerdictSound
<1>6. Reply(log) \in Result /\ Reply(log).log = log /\ log # "waiting"
  BY <1>5, ReplyType DEF IInv, Reply, Errors
<1>7. Settles(n, Reply(log)) /\ handlerQueue[n].op = "SET_POLICY"
  BY <1>1, <1>3, <1>6, HandlerSettles
<1>8. MemoryInv'
  BY <1>3, <1>6, <1>7, MemoryStep
<1>9. QED
  BY <1>3, <1>7, <1>8, SettleStep, InstructionAnswer

LEMMA SignStep ==
  ASSUME IInv, HandleKeySign
  PROVE  ChainInv' /\ MemoryInv' /\ AnswersInv'
<1>1. PICK n \in 1 .. Len(handlerQueue) : n = started + 1
  BY HeadRequest DEF IInv, HandleKeySign, Runs
<1>2. PICK log : log = SignVerdict(Msg)
  OBVIOUS
<1>3. PICK r : r = IF log = "ok" THEN Signature ELSE Reply(log)
  OBVIOUS
<1>4. /\ Runs("SIGN") /\ Answer(started + 1, r)
      /\ UNCHANGED <<privateKey, policy, handlerQueue, decrypting>>
  BY <1>2, <1>3 DEF HandleKeySign
<1>5. log \in Errors \cup {"ok"}
  BY <1>2, SignVerdictType
<1>6. /\ r \in Result /\ r.log = log /\ r.at = now /\ log # "waiting"
      /\ log = "ok" => r.key = privateKey
  BY <1>3, <1>5, ReplyType DEF IInv, Reply, Signature, Errors
<1>7. Settles(n, r) /\ handlerQueue[n].op = "SIGN"
  BY <1>1, <1>4, <1>6, HandlerSettles
<1>8. MemoryInv'
  BY <1>4, <1>6, <1>7, MemoryStep
<1>9. /\ results'[n] = r /\ handlerQueue'[n] = handlerQueue[n]
      /\ \A op, v : InForce(op, v, n)' <=> InForce(op, v, n)
  BY <1>7, SettleStep, InForceStep
<1>10. InForce("UPDATE", privateKey, n) /\ InForce("SET_POLICY", policy, n)
  BY <1>7 DEF IInv, MemoryInv, Settles
<1>11. PICK m : m = handlerQueue[n].msg
  OBVIOUS
<1>12. m \in IntentMessages \cup {Undecodable, Empty} /\ m = Msg
  BY <1>1, <1>7, <1>11, RequestPayload, HeadRequest DEF IInv, TypeOK, Msg
<1>13. \A k, p : Permit(k, p, n)' <=>
          /\ InForce("UPDATE", k, n) /\ InForce("SET_POLICY", p, n)
          /\ m \in IntentMessages /\ Allows(p, m, now)
  BY <1>6, <1>9, <1>11 DEF Permit
<1>14. log = "ok" <=> /\ privateKey # None /\ policy # None
                      /\ m \in IntentMessages /\ Allows(policy, m, now)
  BY <1>2, <1>12, SignVerdictExact DEF IInv
<1>15. ASSUME log = "ok" PROVE SignatureAuthorized(n)'
  <2>1. privateKey \in Keys /\ policy \in ValidPolicies
    BY <1>14, <1>15 DEF IInv, TypeOK
  <2>2. PICK k \in Keys, p \in ValidPolicies : k = privateKey /\ p = policy
    BY <2>1
  <2>3. Permit(k, p, n)' /\ results'[n].key = k
    BY <1>6, <1>9, <1>10, <1>13, <1>14, <1>15, <2>2
  <2>4. QED
    BY <2>3 DEF SignatureAuthorized
<1>16. ASSUME log # "ok", NEW k \in Keys, NEW p \in ValidPolicies,
              Permit(k, p, n)'
       PROVE  FALSE
  <2>1. k # None /\ p # None /\ n \in Nat
    BY DataAssumption DEF ValidPolicies
  <2>2. k = privateKey /\ p = policy
    BY <1>10, <1>13, <1>16, <2>1, InForceUnique
  <2>3. QED
    BY <1>13, <1>14, <1>16, <2>1, <2>2
<1>17. AnswerCorrect(n)'
  <2>1. SignatureAuthorized(n)'
    <3>1. CASE log = "ok"
      BY <1>15, <3>1
    <3>2. CASE log # "ok"
      BY <1>6, <1>9, <3>2 DEF SignatureAuthorized, Accepted
    <3>3. QED
      BY <3>1, <3>2
  <2>2. RefusalJustified(n)'
    BY <1>6, <1>9, <1>16 DEF RefusalJustified, Errors
  <2>3. ReportCurrent(n)'
    BY <1>7, <1>9 DEF ReportCurrent, Accepted
  <2>4. QED
    BY <2>1, <2>2, <2>3 DEF AnswerCorrect
<1>18. QED
  BY <1>7, <1>8, <1>17, SettleStep

LEMMA ReportStep ==
  ASSUME IInv, ReportState
  PROVE  ChainInv' /\ MemoryInv' /\ AnswersInv'
<1>1. PICK n \in 1 .. Len(handlerQueue) : n = started + 1
  BY HeadRequest DEF IInv, ReportState, Runs
<1>2. PICK r : r = StateReport
  OBVIOUS
<1>3. /\ Runs("STATE") /\ Answer(started + 1, r)
      /\ UNCHANGED <<privateKey, policy, handlerQueue, decrypting>>
  BY <1>2 DEF ReportState
<1>4. /\ r \in Result /\ r.log = "ok"
      /\ r.key = privateKey /\ r.policy = policy
  BY <1>2, ReplyType DEF IInv, Reply, StateReport
<1>5. Settles(n, r) /\ handlerQueue[n].op = "STATE"
  BY <1>1, <1>3, <1>4, HandlerSettles
<1>6. MemoryInv'
  BY <1>3, <1>4, <1>5, MemoryStep
<1>7. /\ results'[n] = r /\ handlerQueue'[n] = handlerQueue[n]
      /\ \A op, v : InForce(op, v, n)' <=> InForce(op, v, n)
  BY <1>5, SettleStep, InForceStep
<1>8. InForce("UPDATE", privateKey, n) /\ InForce("SET_POLICY", policy, n)
  BY <1>5 DEF IInv, MemoryInv, Settles
<1>9. PICK k \in Keys \cup {None}, p \in ValidPolicies \cup {None} :
         k = privateKey /\ p = policy
  BY DEF IInv, TypeOK
<1>10. ReportCurrent(n)'
  BY <1>4, <1>7, <1>8, <1>9 DEF ReportCurrent
<1>11. AnswerCorrect(n)'
  BY <1>5, <1>7, <1>10
  DEF AnswerCorrect, SignatureAuthorized, RefusalJustified, Accepted
<1>12. QED
  BY <1>5, <1>6, <1>11, SettleStep

LEMMA CrashStep ==
  ASSUME IInv, Crash
  PROVE  ChainInv' /\ MemoryInv' /\ AnswersInv'
<1>1. Len(handlerQueue') = 0 /\ Finished' = 0
  BY DEF Crash, Finished
<1>2. ChainInv' /\ AnswersInv'
  BY <1>1 DEF Crash, ChainInv, AnswersInv
<1>3. MemoryInv'
  BY <1>1 DEF Crash, MemoryInv, InForce
<1>4. QED
  BY <1>2, <1>3

(* Time passing, a restart or a stutter touches nothing these speak of. *)
LEMMA QuietStep ==
  ASSUME IInv, UNCHANGED <<privateKey, policy, handlerQueue, results,
                           started, decrypting>>
  PROVE  ChainInv' /\ MemoryInv' /\ AnswersInv'
<1>1. ChainInv'
  BY DEF IInv, ChainInv, Answered
<1>2. MemoryInv'
  BY DEF IInv, MemoryInv, InForce, Accepted, Finished
<1>3. AnswersInv'
  <2>1. Len(handlerQueue) \in Nat
    BY DEF IInv, TypeOK
  <2>2. ASSUME NEW i \in 1 .. Len(handlerQueue) PROVE AnswerCorrect(i)'
    BY <2>1, AnswerStable DEF IInv, AnswersInv
  <2>3. QED
    BY <2>2 DEF AnswersInv
<1>4. QED
  BY <1>1, <1>2, <1>3

(* The inductive invariant holds in every reachable state. *)
THEOREM InductiveInvariant == Spec => []IInv
<1>1. Init => IInv
  BY IInvInit
<1>2. IInv /\ TypeOK' /\ [Next]_vars => IInv'
  <2> SUFFICES ASSUME IInv, TypeOK', [Next]_vars
               PROVE  ChainInv' /\ MemoryInv' /\ AnswersInv'
    BY DEF IInv
  <2>1. ASSUME NEW req \in Request, Receive(req)
        PROVE  ChainInv' /\ MemoryInv' /\ AnswersInv'
    BY <2>1, ReceiveStep
  <2>2. CASE HandleKeyUpdate
    BY <2>2, KeyUpdateStep
  <2>3. CASE DecryptRejects \/ DecryptResolves
    BY <2>3, DecryptStep
  <2>4. CASE HandleSetPolicy
    BY <2>4, SetPolicyStep
  <2>5. CASE HandleKeySign
    BY <2>5, SignStep
  <2>6. CASE ReportState
    BY <2>6, ReportStep
  <2>7. CASE Crash
    BY <2>7, CrashStep
  <2>8. CASE Restart \/ Tick \/ UNCHANGED vars
    BY <2>8, QuietStep DEF Restart, Tick, vars
  <2>9. QED
    BY <2>1, <2>2, <2>3, <2>4, <2>5, <2>6, <2>7, <2>8 DEF Next
<1>3. QED
  BY <1>1, <1>2, TypeCorrect, PTL DEF Spec

-----------------------------------------------------------------------------
(* Every signature handed out was permitted by the last policy accepted    *)
(* before it and made with the last key accepted before it.                *)
THEOREM SignaturesAreAuthorized == Spec => []SignaturesAuthorized
<1>1. IInv => SignaturesAuthorized
  BY DEF IInv, AnswersInv, AnswerCorrect, SignaturesAuthorized
<1>2. QED
  BY <1>1, InductiveInvariant, PTL

(* No intent that the key and policy in force permit is ever refused. *)
THEOREM RefusalsAreJustified == Spec => []RefusalsJustified
<1>1. IInv => RefusalsJustified
  BY DEF IInv, AnswersInv, AnswerCorrect, RefusalsJustified
<1>2. QED
  BY <1>1, InductiveInvariant, PTL

(* A state report shows what the accepted requests before it left. *)
THEOREM ReportsAreCurrent == Spec => []ReportsCurrent
<1>1. IInv => ReportsCurrent
  BY DEF IInv, AnswersInv, AnswerCorrect, ReportsCurrent
<1>2. QED
  BY <1>1, InductiveInvariant, PTL

(* Requests are answered in the order of their arrival. *)
THEOREM AnsweredInOrder == Spec => []AnswersInOrder
<1>1. IInv => AnswersInOrder
  BY DEF IInv, TypeOK, ChainInv, AnswersInOrder
<1>2. QED
  BY <1>1, InductiveInvariant, PTL

-----------------------------------------------------------------------------
(* A request that fails leaves the key and the policy as they were.        *)
THEOREM ErrorsLeaveMemory == Spec => ErrorsChangeNothing
<1> DEFINE Fails == \E i \in 1 .. Len(results) :
                       /\ ~ Answered(i) /\ i \in DOMAIN results'
                       /\ results'[i].log \in Errors
<1>1. ASSUME TypeOK, NEW n \in 1 .. Len(handlerQueue),
             Answer(n, Reply("ok")), Fails
      PROVE  FALSE
  <2>1. PICK i \in 1 .. Len(handlerQueue) :
           /\ results[i].log = "waiting" /\ results'[i].log \in Errors
    BY <1>1 DEF Answered, TypeOK
  <2>2. Reply("ok") \in Result /\ Reply("ok").log = "ok"
    BY <1>1, ReplyType DEF Reply
  <2>3. results'[i] = IF i = n THEN Reply("ok") ELSE results[i]
    BY <1>1, <2>2, AnswerType DEF Answer
  <2>4. QED
    BY <2>1, <2>2, <2>3 DEF Errors
<1>2. TypeOK /\ [Next]_vars /\ Fails => UNCHANGED <<privateKey, policy>>
  <2> SUFFICES ASSUME TypeOK, [Next]_vars, Fails
               PROVE  UNCHANGED <<privateKey, policy>>
    OBVIOUS
  <2>1. CASE DecryptResolves
    <3>1. decrypting \in 1 .. Len(handlerQueue)
      BY <2>1 DEF DecryptResolves, TypeOK
    <3>2. ~ Answer(decrypting, Reply("ok"))
      BY <1>1, <3>1
    <3>3. QED
      BY <2>1, <3>2 DEF DecryptResolves
  <2>2. CASE HandleSetPolicy
    <3>1. started + 1 \in 1 .. Len(handlerQueue)
      BY <2>2, HeadRequest DEF HandleSetPolicy, Runs
    <3>2. ~ Answer(started + 1, Reply("ok"))
      BY <1>1, <3>1
    <3>3. QED
      BY <2>2, <3>2 DEF HandleSetPolicy
  <2>3. CASE Crash
    <3>1. results' = <<>>
      BY <2>3 DEF Crash
    <3>2. QED
      BY <3>1
  <2>4. CASE (\E r \in Request : Receive(r)) \/ HandleKeyUpdate
    BY <2>4 DEF Receive, HandleKeyUpdate
  <2>5. CASE DecryptRejects \/ HandleKeySign \/ ReportState
    BY <2>5 DEF DecryptRejects, HandleKeySign, ReportState
  <2>6. CASE Restart \/ Tick \/ UNCHANGED vars
    BY <2>6 DEF Restart, Tick, vars
  <2>7. QED
    BY <2>1, <2>2, <2>3, <2>4, <2>5, <2>6 DEF Next
<1>3. TypeOK /\ [Next]_vars =>
         [(\E i \in 1 .. Len(results) :
             ~ Answered(i) /\ i \in DOMAIN results' /\ results'[i].log \in Errors)
          => UNCHANGED <<privateKey, policy>>]_vars
  BY <1>2
<1>4. QED
  BY <1>3, TypeCorrect, PTL DEF Spec, ErrorsChangeNothing

-----------------------------------------------------------------------------
(* The proof that VaultExtension implements VaultGate: its initial states  *)
(* are the gate's, and each of its steps is a step of the gate or a        *)
(* stutter.                                                                *)

(* The gate's log entry for a request and the result it got. *)
LogEntry(req, r) ==
  [request |-> req,
   verdict |-> IF r.log = "ok" THEN "granted" ELSE "refused",
   key |-> r.key, policy |-> r.policy, at |-> r.at]

Entries == [request : Request, verdict : {"granted", "refused"},
            key : Keys \cup {None}, policy : ValidPolicies \cup {None},
            at : Nat]

LEMMA AnswerLogType ==
  ASSUME IInv
  PROVE  /\ AnswerLog \in Seq(Entries)
         /\ Len(AnswerLog) = Finished
         /\ Finished \in Nat /\ Finished <= Len(handlerQueue)
         /\ \A i \in 1 .. Finished :
               AnswerLog[i] = LogEntry(handlerQueue[i], results[i])
<1>1. /\ started \in Nat /\ started <= Len(handlerQueue)
      /\ Len(handlerQueue) \in Nat /\ decrypting \in Nat
      /\ decrypting # 0 => decrypting = started
      /\ Len(results) = Len(handlerQueue)
      /\ handlerQueue \in Seq(Request) /\ results \in Seq(Result)
  BY DEF IInv, TypeOK, ChainInv
<1>2. Finished \in Nat /\ Finished <= Len(handlerQueue)
  BY <1>1 DEF Finished
<1>3. \A i \in 1 .. Finished :
         /\ AnswerLog[i] = LogEntry(handlerQueue[i], results[i])
         /\ AnswerLog[i] \in Entries
  <2> SUFFICES ASSUME NEW i \in 1 .. Finished
               PROVE  /\ AnswerLog[i] = LogEntry(handlerQueue[i], results[i])
                      /\ AnswerLog[i] \in Entries
    OBVIOUS
  <2>1. handlerQueue[i] \in Request /\ results[i] \in Result
    BY <1>1, <1>2
  <2>2. AnswerLog[i] = LogEntry(handlerQueue[i], results[i])
    BY DEF AnswerLog, LogEntry, Verdict
  <2>3. LogEntry(handlerQueue[i], results[i]) \in Entries
    BY <2>1 DEF LogEntry, Entries, Result
  <2>4. QED
    BY <2>2, <2>3
<1>4. AnswerLog \in [1 .. Finished -> Entries]
  BY <1>3 DEF AnswerLog
<1>5. QED
  BY <1>2, <1>3, <1>4

(* Settling a request appends its entry to the log. *)
LEMMA LogStep ==
  ASSUME IInv, IInv', NEW n, NEW r, Settles(n, r)
  PROVE  AnswerLog' = Append(AnswerLog, LogEntry(handlerQueue[n], r))
<1>1. /\ n \in Nat \ {0} /\ results'[n] = r
      /\ handlerQueue'[n] = handlerQueue[n] /\ Finished' = n
      /\ \A j \in 1 .. n - 1 : /\ handlerQueue'[j] = handlerQueue[j]
                              /\ results'[j] = results[j]
  BY SettleStep
<1>2. n = Finished + 1 /\ n \in 1 .. Len(handlerQueue) /\ r \in Result
  BY DEF Settles
<1>3. /\ AnswerLog \in Seq(Entries) /\ Len(AnswerLog) = Finished
      /\ Finished \in Nat
      /\ \A i \in 1 .. Finished :
            AnswerLog[i] = LogEntry(handlerQueue[i], results[i])
  BY AnswerLogType
<1>4. /\ AnswerLog' \in Seq(Entries) /\ Len(AnswerLog') = n
      /\ \A i \in 1 .. n :
            AnswerLog'[i] = LogEntry(handlerQueue'[i], results'[i])
  <2>1. (/\ AnswerLog \in Seq(Entries) /\ Len(AnswerLog) = Finished
         /\ \A i \in 1 .. Finished :
               AnswerLog[i] = LogEntry(handlerQueue[i], results[i]))'
    BY AnswerLogType, PTL
  <2>2. QED
    BY <1>1, <2>1 DEF LogEntry
<1>5. LogEntry(handlerQueue[n], r) \in Entries
  <2>1. handlerQueue[n] \in Request
    BY <1>2 DEF IInv, TypeOK
  <2>2. QED
    BY <1>2, <2>1 DEF LogEntry, Entries, Result
<1> DEFINE s == Append(AnswerLog, LogEntry(handlerQueue[n], r))
<1>6. /\ s \in Seq(Entries) /\ Len(s) = n
      /\ \A i \in 1 .. Finished : s[i] = AnswerLog[i]
      /\ s[n] = LogEntry(handlerQueue[n], r)
  BY <1>2, <1>3, <1>5, AppendProperties
<1>7. \A i \in 1 .. n : s[i] = AnswerLog'[i]
  <2>1. \A i \in 1 .. Finished : s[i] = AnswerLog'[i]
    BY <1>1, <1>2, <1>3, <1>4, <1>6
  <2>2. s[n] = AnswerLog'[n]
    BY <1>1, <1>4, <1>6
  <2>3. QED
    BY <1>2, <1>3, <2>1, <2>2
<1> HIDE DEF s
<1>8. AnswerLog' = s
  BY <1>4, <1>6, <1>7, SeqEqual
<1>9. QED
  BY <1>8 DEF s

(* A step that leaves the finished requests alone leaves the log alone. *)
LEMMA LogStable ==
  ASSUME IInv, Finished' = Finished,
         \A i \in 1 .. Finished : /\ handlerQueue'[i] = handlerQueue[i]
                                 /\ results'[i] = results[i]
  PROVE  AnswerLog' = AnswerLog
BY DEF AnswerLog, Verdict

-----------------------------------------------------------------------------
(* The gate and the extension speak of the same data. *)
LEMMA GateData ==
  Gate!Request = Request /\ Gate!ValidPolicies = ValidPolicies
<1>1. Gate!Commands = Commands /\ \A op : Gate!Payloads(op) = Payloads(op)
  BY DEF Gate!Commands, Commands, Gate!Payloads, Payloads
<1>2. Gate!Request = Request
  BY <1>1 DEF Gate!Request, Request
<1>3. Gate!ValidPolicies = ValidPolicies
  BY DEF Gate!ValidPolicies, ValidPolicies, Gate!Occurs, Occurs
<1>4. QED
  BY <1>2, <1>3

(* One lemma for each kind of step: the step of the gate it is. *)
LEMMA ReceiveStutters ==
  ASSUME IInv, NEW req \in Request, Receive(req)
  PROVE  UNCHANGED Gate!vars
<1>1. /\ handlerQueue \in Seq(Request) /\ results \in Seq(Result)
      /\ Len(results) = Len(handlerQueue) /\ Waiting \in Result
  BY ReplyType DEF IInv, TypeOK
<1>2. Finished \in Nat /\ Finished <= Len(handlerQueue)
  BY AnswerLogType
<1>3. \A i \in 1 .. Len(handlerQueue) :
         /\ handlerQueue'[i] = handlerQueue[i] /\ results'[i] = results[i]
  BY <1>1, AppendProperties DEF Receive
<1>4. Finished' = Finished
  BY DEF Receive, Finished
<1>5. \A i \in 1 .. Finished :
         /\ handlerQueue'[i] = handlerQueue[i] /\ results'[i] = results[i]
  BY <1>2, <1>3
<1>6. AnswerLog' = AnswerLog
  BY <1>4, <1>5, LogStable
<1>7. QED
  BY <1>6 DEF Receive, Gate!vars

(* A key update the node fails to decrypt, or whose key is no key, is one  *)
(* the gate refuses; otherwise the gate takes the key.                     *)
LEMMA UpdateServes ==
  ASSUME IInv, IInv', NEW n, NEW log \in {"ok"} \cup Errors,
         Settles(n, Reply(log)), handlerQueue[n].op = "UPDATE",
         IF log = "ok" THEN /\ handlerQueue[n].msg \in Keys
                            /\ privateKey' = handlerQueue[n].msg
                       ELSE privateKey' = privateKey,
         UNCHANGED <<policy, now>>
  PROVE  \E req \in Request : Gate!Serve(req)
<1>1. handlerQueue[n] \in Request
  BY DEF Settles, IInv, TypeOK
<1>2. AnswerLog' = Append(AnswerLog, LogEntry(handlerQueue[n], Reply(log)))
  BY LogStep
<1>3. CASE log = "ok"
  <2>1. Gate!Grant(handlerQueue[n], None, None)
    BY <1>2, <1>3 DEF LogEntry, Reply, Gate!Grant, Gate!Entry
  <2>2. QED
    BY <1>1, <1>3, <2>1 DEF Gate!Serve, Gate!UpdateKey
<1>4. CASE log # "ok"
  <2>1. Gate!Refuse(handlerQueue[n])
    BY <1>2, <1>4 DEF LogEntry, Reply, Gate!Refuse, Gate!Entry
  <2>2. QED
    BY <1>1, <1>4, <2>1 DEF Gate!Serve, Gate!UpdateKey
<1>5. QED
  BY <1>3, <1>4

LEMMA KeyUpdateServes ==
  ASSUME IInv, IInv', HandleKeyUpdate
  PROVE  (\E req \in Request : Gate!Serve(req)) \/ UNCHANGED Gate!vars
<1>1. ASSUME NEW log \in {"emptyMessage", "invalidHex"},
             Answer(started + 1, Reply(log)), UNCHANGED decrypting
      PROVE  \E req \in Request : Gate!Serve(req)
  <2>1. PICK r : r = Reply(log)
    OBVIOUS
  <2>2. r \in Result /\ r.log # "waiting"
    BY <2>1, ReplyType DEF IInv, Errors, Reply
  <2>3. /\ Runs("UPDATE")
        /\ UNCHANGED <<privateKey, policy, handlerQueue, now>>
    BY DEF HandleKeyUpdate
  <2>4. /\ Settles(started + 1, r)
        /\ handlerQueue[started + 1].op = "UPDATE"
    BY <1>1, <2>1, <2>2, <2>3, HandlerSettles
  <2>5. log \in Errors
    BY DEF Errors
  <2>6. QED
    BY <2>1, <2>3, <2>4, <2>5, UpdateServes
<1>2. CASE decrypting' = started + 1 /\ UNCHANGED results
  <2>1. /\ decrypting = 0 /\ started' = started + 1
        /\ UNCHANGED <<privateKey, policy, handlerQueue, results, now>>
        /\ decrypting' = started' /\ started \in Nat
    BY <1>2 DEF HandleKeyUpdate, Runs, ChainFree, IInv, TypeOK
  <2>2. Finished' = Finished
    BY <2>1 DEF Finished
  <2>3. AnswerLog' = AnswerLog
    BY <2>1, <2>2, LogStable
  <2>4. QED
    BY <2>1, <2>3 DEF Gate!vars
<1>3. QED
  BY <1>1, <1>2 DEF HandleKeyUpdate

LEMMA DecryptServes ==
  ASSUME IInv, IInv', DecryptRejects \/ DecryptResolves
  PROVE  \E req \in Request : Gate!Serve(req)
<1>1. PICK log \in {"ok", "decryptionFailed", "invalidKey"} :
         /\ Answer(decrypting, Reply(log))
         /\ IF log = "ok" THEN /\ handlerQueue[decrypting].msg \in Keys
                               /\ privateKey' = handlerQueue[decrypting].msg
                          ELSE privateKey' = privateKey
  BY DEF DecryptRejects, DecryptResolves
<1>2. /\ decrypting # 0 /\ decrypting' = 0
      /\ UNCHANGED <<policy, handlerQueue, started, now>>
  BY DEF DecryptRejects, DecryptResolves
<1>3. Reply(log) \in Result /\ Reply(log).log = log
  BY ReplyType DEF IInv, Errors, Reply
<1>4. Settles(decrypting, Reply(log)) /\ handlerQueue[decrypting].op = "UPDATE"
  BY <1>1, <1>2, <1>3, AwaitSettles
<1>5. log \in {"ok"} \cup Errors
  BY DEF Errors
<1>6. QED
  BY <1>1, <1>2, <1>4, <1>5, UpdateServes

LEMMA SetPolicyServes ==
  ASSUME IInv, IInv', HandleSetPolicy
  PROVE  \E req \in Request : Gate!Serve(req)
<1>1. PICK n \in 1 .. Len(handlerQueue) : n = started + 1
  BY HeadRequest DEF IInv, HandleSetPolicy, Runs
<1>2. PICK log : log = PolicyVerdict(Msg)
  OBVIOUS
<1>3. /\ Runs("SET_POLICY") /\ Answer(started + 1, Reply(log))
      /\ policy' = IF log = "ok" THEN handlerQueue[n].msg ELSE policy
      /\ UNCHANGED <<privateKey, handlerQueue, decrypting, now>>
  BY <1>1, <1>2 DEF HandleSetPolicy, Msg
<1>4. handlerQueue[n].msg \in PolicyMessages \cup {Undecodable, Empty}
  BY <1>1, <1>3, HeadRequest, RequestPayload DEF Runs, IInv
<1>5. /\ log \in Errors \cup {"ok"}
      /\ log = "ok" <=> handlerQueue[n].msg \in ValidPolicies
  BY <1>1, <1>2, <1>4, PolicyVerdictSound DEF Msg
<1>6. Reply(log) \in Result /\ Reply(log).log = log /\ log # "waiting"
  BY <1>5, ReplyType DEF IInv, Reply, Errors
<1>7. Settles(n, Reply(log)) /\ handlerQueue[n].op = "SET_POLICY"
  BY <1>1, <1>3, <1>6, HandlerSettles
<1>8. AnswerLog' = Append(AnswerLog, LogEntry(handlerQueue[n], Reply(log)))
  BY <1>7, LogStep
<1>9. handlerQueue[n] \in Request
  BY DEF IInv, TypeOK
<1>10. CASE log = "ok"
  <2>1. Gate!Grant(handlerQueue[n], None, None)
    BY <1>8, <1>10 DEF LogEntry, Reply, Gate!Grant, Gate!Entry
  <2>2. QED
    BY <1>3, <1>5, <1>7, <1>9, <1>10, <2>1, GateData
    DEF Gate!Serve, Gate!SetPolicy
<1>11. CASE log # "ok"
  <2>1. Gate!Refuse(handlerQueue[n])
    BY <1>8, <1>11 DEF LogEntry, Reply, Gate!Refuse, Gate!Entry
  <2>2. QED
    BY <1>3, <1>5, <1>7, <1>9, <1>11, <2>1, GateData
    DEF Gate!Serve, Gate!SetPolicy
<1>12. QED
  BY <1>10, <1>11

LEMMA SignServes ==
  ASSUME IInv, IInv', HandleKeySign
  PROVE  \E req \in Request : Gate!Serve(req)
<1>1. PICK n \in 1 .. Len(handlerQueue) : n = started + 1
  BY HeadRequest DEF IInv, HandleKeySign, Runs
<1>2. PICK log : log = SignVerdict(Msg)
  OBVIOUS
<1>3. PICK r : r = IF log = "ok" THEN Signature ELSE Reply(log)
  OBVIOUS
<1>4. /\ Runs("SIGN") /\ Answer(started + 1, r)
      /\ UNCHANGED <<privateKey, policy, handlerQueue, decrypting, now>>
  BY <1>2, <1>3 DEF HandleKeySign
<1>5. log \in Errors \cup {"ok"}
  BY <1>2, SignVerdictType
<1>6. /\ r \in Result /\ r.log = log /\ log # "waiting"
      /\ r.at = now /\ r.policy = None
      /\ r.key = IF log = "ok" THEN privateKey ELSE None
  BY <1>3, <1>5, ReplyType DEF IInv, Reply, Signature, Errors
<1>7. Settles(n, r) /\ handlerQueue[n].op = "SIGN"
  BY <1>1, <1>4, <1>6, HandlerSettles
<1>8. AnswerLog' = Append(AnswerLog, LogEntry(handlerQueue[n], r))
  BY <1>7, LogStep
<1>9. handlerQueue[n] \in Request
  BY DEF IInv, TypeOK
<1>10. Msg \in IntentMessages \cup {Undecodable, Empty}
  BY <1>1, <1>7, <1>9, RequestPayload DEF Msg
<1>11. log = "ok" <=> Gate!Permitted(handlerQueue[n].msg)
  BY <1>1, <1>2, <1>10, SignVerdictExact DEF IInv, Msg, Gate!Permitted,
     Gate!Allows, Gate!InTime, Gate!Occurs, Allows, InTime, Occurs
<1>12. CASE log = "ok"
  <2>1. Gate!Grant(handlerQueue[n], privateKey, None)
    BY <1>6, <1>8, <1>12 DEF LogEntry, Gate!Grant, Gate!Entry
  <2>2. QED
    BY <1>4, <1>7, <1>9, <1>11, <1>12, <2>1 DEF Gate!Serve, Gate!Sign
<1>13. CASE log # "ok"
  <2>1. Gate!Refuse(handlerQueue[n])
    BY <1>6, <1>8, <1>13 DEF LogEntry, Gate!Refuse, Gate!Entry
  <2>2. QED
    BY <1>4, <1>7, <1>9, <1>11, <1>13, <2>1 DEF Gate!Serve, Gate!Sign
<1>14. QED
  BY <1>12, <1>13

LEMMA ReportServes ==
  ASSUME IInv, IInv', ReportState
  PROVE  \E req \in Request : Gate!Serve(req)
<1>1. PICK n \in 1 .. Len(handlerQueue) : n = started + 1
  BY HeadRequest DEF IInv, ReportState, Runs
<1>2. PICK r : r = StateReport
  OBVIOUS
<1>3. /\ Runs("STATE") /\ Answer(started + 1, r)
      /\ UNCHANGED <<privateKey, policy, handlerQueue, decrypting, now>>
  BY <1>2 DEF ReportState
<1>4. /\ r \in Result /\ r.log = "ok" /\ r.at = now
      /\ r.key = privateKey /\ r.policy = policy
  BY <1>2, ReplyType DEF IInv, Reply, StateReport
<1>5. Settles(n, r) /\ handlerQueue[n].op = "STATE"
  BY <1>1, <1>3, <1>4, HandlerSettles
<1>6. AnswerLog' = Append(AnswerLog, LogEntry(handlerQueue[n], r))
  BY <1>5, LogStep
<1>7. Gate!Grant(handlerQueue[n], privateKey, policy)
  BY <1>4, <1>6 DEF LogEntry, Gate!Grant, Gate!Entry
<1>8. handlerQueue[n] \in Request
  BY DEF IInv, TypeOK
<1>9. QED
  BY <1>3, <1>5, <1>7, <1>8 DEF Gate!Serve, Gate!Report

LEMMA CrashForgets ==
  ASSUME Crash PROVE Gate!Forget
<1>1. Finished' = 0
  BY DEF Crash, Finished
<1>2. AnswerLog' = <<>>
  BY <1>1 DEF AnswerLog
<1>3. QED
  BY <1>2 DEF Crash, Gate!Forget

-----------------------------------------------------------------------------
(* The extension implements the gate: queued requests, with key updates    *)
(* cut in two by the await, take effect atomically and in order.           *)
THEOREM ExtensionImplementsGate == Spec => ImplementsGate
<1>1. Init => Gate!Init
  <2>1. SUFFICES ASSUME Init PROVE Gate!Init
    OBVIOUS
  <2>2. Finished = 0
    BY <2>1 DEF Init, Finished
  <2>3. AnswerLog = <<>>
    BY <2>2 DEF AnswerLog
  <2>4. QED
    BY <2>1, <2>3 DEF Init, Gate!Init
<1>2. IInv /\ IInv' /\ [Next]_vars => [Gate!Next]_(Gate!vars)
  <2> SUFFICES ASSUME IInv, IInv', [Next]_vars
               PROVE  Gate!Next \/ UNCHANGED Gate!vars
    OBVIOUS
  <2>1. ASSUME NEW req \in Request, Receive(req)
        PROVE  UNCHANGED Gate!vars
    BY <2>1, ReceiveStutters
  <2>2. CASE HandleKeyUpdate
    BY <2>2, KeyUpdateServes, GateData DEF Gate!Next
  <2>3. CASE DecryptRejects \/ DecryptResolves
    BY <2>3, DecryptServes, GateData DEF Gate!Next
  <2>4. CASE HandleSetPolicy
    BY <2>4, SetPolicyServes, GateData DEF Gate!Next
  <2>5. CASE HandleKeySign
    BY <2>5, SignServes, GateData DEF Gate!Next
  <2>6. CASE ReportState
    BY <2>6, ReportServes, GateData DEF Gate!Next
  <2>7. CASE Crash
    BY <2>7, CrashForgets DEF Gate!Next
  <2>8. CASE Restart \/ Tick \/ UNCHANGED vars
    <3>1. UNCHANGED <<privateKey, policy, handlerQueue, results, started,
                      decrypting>>
      BY <2>8 DEF Restart, Tick, vars
    <3>2. AnswerLog' = AnswerLog
      BY <3>1, LogStable DEF Finished
    <3>3. now' = now \/ now' = now + 1
      BY <2>8 DEF Restart, Tick, vars
    <3>4. QED
      BY <3>1, <3>2, <3>3 DEF Gate!Next, Gate!Tick, Gate!vars
  <2>9. QED
    BY <2>1, <2>2, <2>3, <2>4, <2>5, <2>6, <2>7, <2>8 DEF Next
<1>3. QED
  BY <1>1, <1>2, InductiveInvariant, PTL
  DEF Spec, ImplementsGate, Gate!Spec
=============================================================================
