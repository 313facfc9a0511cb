--------------------------- MODULE VaultExtension ---------------------------
(***************************************************************************)
(* The TypeScript vault extension that runs inside the TEE: the HTTP       *)
(* server's promise chain (base/server.ts), the three instruction handlers *)
(* and the state report (app/handlers.ts), the TEE node that decrypts keys *)
(* for it, the clock, and the crash and restart of the process.            *)
(*                                                                         *)
(* The server runs one handler at a time: each request is chained behind   *)
(* the previous one (handlerQueue.then).  A key update suspends in the     *)
(* middle, awaiting the node's /decrypt, and the rest of the chain waits.  *)
(*                                                                         *)
(* A definition named Op_Bug is Op with a bug the code might have had.  No *)
(* action uses it: put in the place of Op, it shows that the properties    *)
(* notice the bug.                                                         *)
(***************************************************************************)
EXTENDS VaultData

CONSTANTS
  MaxTime,      (* bound on the clock                                      *)
  MaxRequests   (* bound on the requests received between two restarts     *)

ASSUME BoundAssumption == MaxTime \in Nat /\ MaxRequests \in Nat

VARIABLES
  privateKey,    (* handlers.ts: the signing key, or None                  *)
  policy,        (* handlers.ts: the policy in force, or None              *)
  handlerQueue,  (* every request chained since boot, settled ones too     *)
  results,       (* results[i] is what request i got, or Waiting           *)
  started,       (* how many requests' handlers have begun                 *)
  decrypting,    (* the request awaiting /decrypt, 0 when there is none    *)
  now,           (* Date.now() in seconds, never 0                         *)
  process        (* "running" or "exited"                                 *)

vars == <<privateKey, policy, handlerQueue, results, started, decrypting,
          now, process>>

(***************************************************************************)
(* A result: its log line ("ok" for status 1, the error for status 0), the *)
(* key that made a signature or that a state report shows the address of,  *)
(* the policy a state report shows, and the time of the answer.            *)
(***************************************************************************)
Errors == {"emptyMessage", "invalidHex", "decryptionFailed", "invalidKey",
           "invalidPolicy", "noRecipients", "tooManyRecipients",
           "zeroRecipient", "noKey", "noPolicy", "invalidIntent",
           "policyExpired", "deadlinePassed", "recipientNotAllowed",
           "amountExceedsMax"}

Waiting == [log |-> "waiting", key |-> None, policy |-> None, at |-> 0]

Reply(log) == [log |-> log, key |-> None, policy |-> None, at |-> now]

Signature == [Reply("ok") EXCEPT !.key = privateKey]

StateReport == [Reply("ok") EXCEPT !.key = privateKey, !.policy = policy]

-----------------------------------------------------------------------------
Init ==
  /\ privateKey = None /\ policy = None
  /\ handlerQueue = <<>> /\ results = <<>>
  /\ started = 0 /\ decrypting = 0
  /\ now = 1
  /\ process = "running"

(* processAction and processState: a well-formed request for a registered  *)
(* command is chained behind those already there.  The 400, 405 and 501    *)
(* replies, given before the chain, change nothing and are no step.        *)
Receive(r) ==
  /\ process = "running"
  /\ Len(handlerQueue) < MaxRequests
  /\ handlerQueue' = Append(handlerQueue, r)
  /\ results' = Append(results, Waiting)
  /\ UNCHANGED <<privateKey, policy, started, decrypting, now, process>>

ChainFree_SkipsAwait == TRUE

(* The previous handler's promise has resolved. *)
ChainFree == decrypting = 0

(* The chain reaches the next request, and it is for the handler of op. *)
Runs(op) ==
  /\ process = "running"
  /\ ChainFree
  /\ started < Len(handlerQueue)
  /\ handlerQueue[started + 1].op = op
  /\ started' = started + 1

Msg == handlerQueue[started + 1].msg

Answer(i, result) == results' = [results EXCEPT ![i] = result]

-----------------------------------------------------------------------------
(* handleKeyUpdate, up to the await: the ciphertext goes to the node. *)
HandleKeyUpdate ==
  /\ Runs("UPDATE")
  /\ \/ /\ Msg = Empty
        /\ Answer(started + 1, Reply("emptyMessage"))
        /\ UNCHANGED decrypting
     \/ /\ Msg = Undecodable
        /\ Answer(started + 1, Reply("invalidHex"))
        /\ UNCHANGED decrypting
     \/ /\ Msg \notin {Empty, Undecodable}
        /\ decrypting' = started + 1
        /\ UNCHANGED results
  /\ UNCHANGED <<privateKey, policy, handlerQueue, now, process>>

DecryptRejects_NotCaught ==
  /\ process = "running" /\ decrypting # 0
  /\ decrypting' = 0
  /\ UNCHANGED <<privateKey, policy, handlerQueue, results, started, now,
                 process>>

(* The node answers with an error status or an unreadable body, or the     *)
(* connection fails: decryptViaNode rejects.                               *)
DecryptRejects ==
  /\ process = "running" /\ decrypting # 0
  /\ Answer(decrypting, Reply("decryptionFailed"))
  /\ decrypting' = 0
  /\ UNCHANGED <<privateKey, policy, handlerQueue, started, now, process>>

DecryptResolves_StoresFirst ==
  LET key == handlerQueue[decrypting].msg IN
  /\ process = "running" /\ decrypting # 0
  /\ Answer(decrypting, Reply(IF key \in Keys THEN "ok"
                              ELSE "invalidKey"))
  /\ privateKey' = IF key \in Keys THEN key ELSE None
  /\ decrypting' = 0
  /\ UNCHANGED <<policy, handlerQueue, started, now, process>>

DecryptResolves_ClearsPolicy ==
  LET key == handlerQueue[decrypting].msg IN
  /\ process = "running" /\ decrypting # 0
  /\ Answer(decrypting, Reply(IF key \in Keys THEN "ok"
                              ELSE "invalidKey"))
  /\ privateKey' = IF key \in Keys THEN key ELSE privateKey
  /\ policy' = IF key \in Keys THEN None ELSE policy
  /\ decrypting' = 0
  /\ UNCHANGED <<handlerQueue, started, now, process>>

(* handleKeyUpdate after the await: parsePrivateKey, then the new key. *)
DecryptResolves ==
  LET key == handlerQueue[decrypting].msg IN
  /\ process = "running" /\ decrypting # 0
  /\ \/ /\ key \in Keys
        /\ privateKey' = key
        /\ Answer(decrypting, Reply("ok"))
     \/ /\ key \notin Keys
        /\ Answer(decrypting, Reply("invalidKey"))
        /\ UNCHANGED privateKey
  /\ decrypting' = 0
  /\ UNCHANGED <<policy, handlerQueue, started, now, process>>

-----------------------------------------------------------------------------
NamesZero_FirstOnly(list) == list[1] = ZeroAddress

NamesZero(list) == Occurs(ZeroAddress, list)

(* The checks of handleSetPolicy, in the order of its early returns. *)
PolicyVerdict(msg) ==
  IF msg = Empty THEN "emptyMessage"
  ELSE IF msg = Undecodable THEN "invalidPolicy"
  ELSE IF msg.allowedRecipients = <<>>
       THEN "noRecipients"
  ELSE IF Len(msg.allowedRecipients) > AllowLimit
       THEN "tooManyRecipients"
  ELSE IF NamesZero(msg.allowedRecipients)
       THEN "zeroRecipient"
  ELSE "ok"

HandleSetPolicy ==
  /\ Runs("SET_POLICY")
  /\ Answer(started + 1, Reply(PolicyVerdict(Msg)))
  /\ policy' = IF PolicyVerdict(Msg) = "ok" THEN Msg ELSE policy
  /\ UNCHANGED <<privateKey, handlerQueue, decrypting, now, process>>

-----------------------------------------------------------------------------
Expired_Inclusive(limit) == limit # 0 /\ now >= limit

(* A limit of 0 never passes, and the second it names is still in time. *)
Expired(limit) == limit # 0 /\ now > limit

ExceedsMax_Never(amount) == FALSE

ExceedsMax(amount) == amount > policy.maxAmount

(* The checks of handleKeySign, in the order of its early returns. *)
SignVerdict(msg) ==
  IF privateKey = None THEN "noKey"
  ELSE IF policy = None THEN "noPolicy"
  ELSE IF msg = Empty THEN "emptyMessage"
  ELSE IF msg = Undecodable THEN "invalidIntent"
  ELSE IF Expired(policy.expiresAt) THEN "policyExpired"
  ELSE IF Expired(msg.deadline) THEN "deadlinePassed"
  ELSE IF ~ Occurs(msg.recipient, policy.allowedRecipients)
       THEN "recipientNotAllowed"
  ELSE IF ExceedsMax(msg.amount) THEN "amountExceedsMax"
  ELSE "ok"

HandleKeySign ==
  /\ Runs("SIGN")
  /\ Answer(started + 1, IF SignVerdict(Msg) = "ok" THEN Signature
                         ELSE Reply(SignVerdict(Msg)))
  /\ UNCHANGED <<privateKey, policy, handlerQueue, decrypting, now, process>>

ReportState ==
  /\ Runs("STATE")
  /\ Answer(started + 1, StateReport)
  /\ UNCHANGED <<privateKey, policy, handlerQueue, decrypting, now, process>>

-----------------------------------------------------------------------------
Crash_KeepsPolicy ==
  /\ process = "running" /\ process' = "exited"
  /\ privateKey' = None
  /\ handlerQueue' = <<>> /\ results' = <<>>
  /\ started' = 0 /\ decrypting' = 0
  /\ UNCHANGED <<policy, now>>

(* The process dies: the key, the policy and the whole chain were only in  *)
(* its memory.  Requests in the chain are never answered.                  *)
Crash ==
  /\ process = "running" /\ process' = "exited"
  /\ privateKey' = None /\ policy' = None
  /\ handlerQueue' = <<>> /\ results' = <<>>
  /\ started' = 0 /\ decrypting' = 0
  /\ UNCHANGED now

(* docker-compose: restart: on-failure. *)
Restart ==
  /\ process = "exited" /\ process' = "running"
  /\ UNCHANGED <<privateKey, policy, handlerQueue, results, started,
                 decrypting, now>>

Tick ==
  /\ now < MaxTime
  /\ now' = now + 1
  /\ UNCHANGED <<privateKey, policy, handlerQueue, results, started,
                 decrypting, process>>

-----------------------------------------------------------------------------
Handle == HandleKeyUpdate \/ HandleSetPolicy \/ HandleKeySign \/ ReportState

Next ==
  \/ \E r \in Request : Receive(r)
  \/ HandleKeyUpdate \/ HandleSetPolicy \/ HandleKeySign \/ ReportState
  \/ DecryptRejects \/ DecryptResolves
  \/ Crash \/ Restart
  \/ Tick

Spec == Init /\ [][Next]_vars

(* The event loop runs the chain's next handler, and the container runtime *)
(* restarts the process.  Nothing is assumed of the node: decryptViaNode   *)
(* sets no timeout, so an unanswered /decrypt is never given up.           *)
FairSpec == Spec /\ WF_vars(Handle) /\ WF_vars(Restart)

-----------------------------------------------------------------------------
(* Type invariant.  The stored policy is always one handleSetPolicy could  *)
(* accept: not empty, within the limit, without the zero address.          *)
Result == [log : Errors \cup {"ok", "waiting"}, key : Keys \cup {None},
           policy : ValidPolicies \cup {None}, at : Nat]

TypeOK ==
  /\ privateKey \in Keys \cup {None}
  /\ policy \in ValidPolicies \cup {None}
  /\ handlerQueue \in Seq(Request)
  /\ results \in Seq(Result)
  /\ Len(results) = Len(handlerQueue)
  /\ started \in 0 .. Len(handlerQueue)
  /\ decrypting \in 0 .. Len(handlerQueue)
  /\ now \in Nat
  /\ process \in {"running", "exited"}

Answered(i) == results[i].log # "waiting"

Accepted(op, i) == handlerQueue[i].op = op /\ results[i].log = "ok"

(* v is what the last accepted op before request i carried, None if there  *)
(* was none since the process booted.                                      *)
InForce(op, v, i) ==
  \/ /\ v = None
     /\ \A j \in 1 .. i - 1 : ~ Accepted(op, j)
  \/ \E j \in 1 .. i - 1 :
        /\ Accepted(op, j) /\ handlerQueue[j].msg = v
        /\ \A k \in j + 1 .. i - 1 : ~ Accepted(op, k)

(* k and p are in force before request i, and permit the intent it names. *)
Permit(k, p, i) ==
  /\ InForce("UPDATE", k, i)
  /\ InForce("SET_POLICY", p, i)
  /\ handlerQueue[i].msg \in IntentMessages
  /\ Allows(p, handlerQueue[i].msg, results[i].at)

SignatureAuthorized(i) ==
  Accepted("SIGN", i) =>
     \E k \in Keys, p \in ValidPolicies : Permit(k, p, i) /\ results[i].key = k

(* Every signature handed out was permitted by the last policy accepted    *)
(* before its request, and made with the last key accepted before it,      *)
(* since the process booted, whatever was queued, awaiting decryption or   *)
(* lost in a crash in between.  handleKeySign reads both after any number  *)
(* of awaits of earlier handlers.                                          *)
SignaturesAuthorized ==
  \A i \in 1 .. Len(handlerQueue) : SignatureAuthorized(i)

RefusalJustified(i) ==
  handlerQueue[i].op = "SIGN" /\ results[i].log \in Errors =>
     ~ \E k \in Keys, p \in ValidPolicies : Permit(k, p, i)

(* The converse: handleKeySign refuses only what the key and policy in     *)
(* force do not permit; a key rotation does not lose the policy, nor a     *)
(* failed update the key.                                                  *)
RefusalsJustified == \A i \in 1 .. Len(handlerQueue) : RefusalJustified(i)

ReportCurrent(i) ==
  Accepted("STATE", i) =>
     \E k \in Keys \cup {None}, p \in ValidPolicies \cup {None} :
        /\ InForce("UPDATE", k, i) /\ InForce("SET_POLICY", p, i)
        /\ results[i].key = k /\ results[i].policy = p

(* GET /state, queued behind the instructions received before it, shows    *)
(* exactly what they left, and nothing of a key update still decrypting.   *)
ReportsCurrent == \A i \in 1 .. Len(handlerQueue) : ReportCurrent(i)

(* Answers are given in the order of arrival: none overtakes a key update  *)
(* that awaits the node.                                                   *)
AnswersInOrder ==
  \A i, j \in 1 .. Len(handlerQueue) : i < j /\ Answered(j) => Answered(i)

(* A request answered with an error left the key and the policy alone,     *)
(* however far its handler got before failing.                             *)
ErrorsChangeNothing ==
  [][(\E i \in 1 .. Len(results) :
        ~ Answered(i) /\ i \in DOMAIN results' /\ results'[i].log \in Errors)
     => UNCHANGED <<privateKey, policy>>]_vars

(* As long as the node keeps settling the decryptions it is given, every   *)
(* request is answered, unless the process dies first: no rejected promise *)
(* breaks the chain.                                                       *)
EveryRequestAnswered ==
  []<>(decrypting = 0) =>
     \A i \in 1 .. MaxRequests :
        (i <= Len(handlerQueue)) ~>
           (process = "exited" \/ (i <= Len(results) /\ Answered(i)))

-----------------------------------------------------------------------------
(* The requests whose handlers have finished, as VaultGate logs them. *)
Finished == IF decrypting = 0 THEN started ELSE started - 1

Verdict(i) == IF results[i].log = "ok" THEN "granted" ELSE "refused"

AnswerLog ==
  [i \in 1 .. Finished |->
     [request |-> handlerQueue[i], verdict |-> Verdict(i),
      key |-> results[i].key, policy |-> results[i].policy,
      at |-> results[i].at]]

Gate == INSTANCE VaultGate WITH key <- privateKey, log <- AnswerLog

(* The extension is a VaultGate: with a key update split in two by the     *)
(* await, requests still take effect atomically and in order, a signature  *)
(* is given exactly when the gate permits it, and a restart is a clean     *)
(* slate.                                                                  *)
ImplementsGate == Gate!Spec
=============================================================================
