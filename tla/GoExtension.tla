----------------------------- MODULE GoExtension -----------------------------
(***************************************************************************)
(* The Go extension (tee/go/internal, started by tee/go/cmd/docker): an    *)
(* HTTP server whose goroutines, one per request, call the handlers one at *)
(* a time under a mutex.  Unlike the promise chain of the TypeScript       *)
(* server, the mutex keeps no order: of the goroutines that wait for it,   *)
(* any may be next.  A key update keeps it while the TEE node decrypts.    *)
(*                                                                         *)
(* A definition named Op_Bug is Op with a bug the code might have had.  No *)
(* action uses it.                                                         *)
(***************************************************************************)
EXTENDS Naturals, Sequences

CONSTANTS
  Order,        (* the order of the curve's group                          *)
  MaxKeyBytes,  (* the longest key accepted: 32 in the code                *)
  Plaintexts,   (* what a key update may decrypt to: length and value      *)
  Texts,        (* hex messages to sign                                    *)
  BadHex,       (* a message that is not hex                               *)
  Empty,        (* ""                                                      *)
  None,         (* nil                                                     *)
  Malformed,    (* a request refused for its method, body, JSON or hex     *)
  Inputs,       (* the well-formed requests that may arrive                *)
  MaxRequests   (* bound on the requests received between two restarts     *)

Messages == Plaintexts \cup Texts \cup {BadHex, Empty}

Request == [opType : {"KEY", "OTHER", "GET /state"},
            opCommand : {"UPDATE", "SIGN", "SET_POLICY", ""},
            originalMessage : Messages, message : Messages]

ASSUME ExtensionAssumption ==
  /\ Order \in Nat \ {0, 1} /\ MaxKeyBytes \in Nat /\ MaxRequests \in Nat
  /\ Plaintexts \subseteq [length : Nat, value : Nat]
  /\ Inputs \subseteq Request
  /\ Malformed \notin Inputs

VARIABLES
  privateKey,  (* handlers.go: the key, a scalar below Order, or None       *)
  inbox,       (* the requests received since boot, in order of arrival     *)
  replies,     (* replies[i] is what request i was answered, or Waiting     *)
  mu,          (* Server.mu: the request that holds it, 0 when it is free   *)
  locked,      (* the requests that took the mutex, in that order           *)
  process      (* "starting", "serving", "deaf" or "exited"                 *)

vars == <<privateKey, inbox, replies, mu, locked, process>>

Reply(log) == [log |-> log, key |-> None, text |-> None]

Waiting == Reply("waiting")

Errors == {"originalMessage is empty", "invalid hex", "decryption failed",
           "invalid private key", "no private key stored"}

(* The HTTP statuses given before any handler runs. *)
Refusals == {"bad request", "unsupported op type"}

-----------------------------------------------------------------------------
(* Register: the table of handlers, in the order they are looked up. *)
Handlers ==
  << [opType |-> "KEY", opCommand |-> "UPDATE", handler |-> "handleKeyUpdate"],
     [opType |-> "KEY", opCommand |-> "SIGN", handler |-> "handleKeySign"] >>

Matches(e, r) ==
  /\ e.opType = r.opType
  /\ e.opCommand \in {"", r.opCommand}

(* Framework.Lookup: the first entry that matches. *)
Lookup(r) ==
  IF \E n \in DOMAIN Handlers : Matches(Handlers[n], r)
  THEN LET first == CHOOSE n \in DOMAIN Handlers :
                       /\ Matches(Handlers[n], r)
                       /\ \A k \in 1 .. n - 1 : ~ Matches(Handlers[k], r)
       IN Handlers[first].handler
  ELSE "nil"

(* A direct instruction carries its message in another field. *)
MsgOf(r) ==
  IF r.originalMessage = Empty THEN r.message ELSE r.originalMessage

TooLong(plaintext) == plaintext.length > MaxKeyBytes

Scalar_NotReduced(plaintext) == plaintext.value

(* PrivKeyFromBytes reduces its argument modulo the order of the group. *)
Scalar(plaintext) == plaintext.value % Order

(* parseSecp256k1PrivateKey: the key, or None for its three errors. *)
ParseKey(plaintext) ==
  IF plaintext.length = 0 \/ TooLong(plaintext) \/ Scalar(plaintext) = 0
  THEN None
  ELSE Scalar(plaintext)

-----------------------------------------------------------------------------
Init ==
  /\ privateKey = None
  /\ inbox = <<>> /\ replies = <<>>
  /\ mu = 0 /\ locked = <<>>
  /\ process = "starting"

(* cmd/docker: the node and the server are started.  A server that cannot  *)
(* listen logs the error and leaves the process running without it.        *)
Boot ==
  /\ process = "starting"
  /\ process' \in {"serving", "deaf"}
  /\ UNCHANGED <<privateKey, inbox, replies, mu, locked>>

Arrives(r, log) ==
  /\ process = "serving"
  /\ Len(inbox) < MaxRequests
  /\ inbox' = Append(inbox, r)
  /\ replies' = Append(replies, Reply(log))
  /\ UNCHANGED <<privateKey, mu, locked, process>>

ReceiveAction_NoLookup(r) ==
  /\ r.opType # "GET /state"
  /\ Arrives(r, "waiting")

(* handleAction, before the mutex. *)
ReceiveAction(r) ==
  /\ r.opType # "GET /state"
  /\ Arrives(r, IF Lookup(r) = "nil" THEN "unsupported op type" ELSE "waiting")

ReceiveMalformed == Arrives(Malformed, "bad request")

ReceiveState(r) ==
  /\ r.opType = "GET /state"
  /\ Arrives(r, "waiting")

-----------------------------------------------------------------------------
Answer(i, reply) == replies' = [replies EXCEPT ![i] = reply]

LocksFor_NotExclusive(i) ==
  /\ process = "serving"
  /\ i \in DOMAIN inbox
  /\ replies[i].log = "waiting" /\ mu # i
  /\ locked' = Append(locked, i)

(* Request i gets the mutex. *)
LocksFor(i) ==
  /\ process = "serving"
  /\ i \in DOMAIN inbox
  /\ replies[i].log = "waiting"
  /\ mu = 0
  /\ locked' = Append(locked, i)

Handles(i, handler) ==
  /\ i \in DOMAIN inbox /\ inbox[i] \in Inputs
  /\ Lookup(inbox[i]) = handler

UpdateRefused(i, log) ==
  /\ Answer(i, Reply(log))
  /\ UNCHANGED mu

(* handleKeyUpdate as far as the call of the node, which is made with the   *)
(* mutex held.                                                             *)
HandleKeyUpdate(i) ==
  /\ Handles(i, "handleKeyUpdate")
  /\ LocksFor(i)
  /\ LET msg == MsgOf(inbox[i]) IN
     \/ msg = Empty /\ UpdateRefused(i, "originalMessage is empty")
     \/ msg = BadHex /\ UpdateRefused(i, "invalid hex")
     \/ /\ msg \notin {Empty, BadHex}
        /\ mu' = i
        /\ UNCHANGED replies
  /\ UNCHANGED <<privateKey, inbox, process>>

(* decryptViaNode: no connection, a status other than 200, or a body that  *)
(* does not decode.                                                        *)
DecryptFails ==
  /\ process = "serving" /\ mu # 0
  /\ Answer(mu, Reply("decryption failed"))
  /\ mu' = 0
  /\ UNCHANGED <<privateKey, inbox, locked, process>>

Decrypts_StoresFirst ==
  LET key == ParseKey(MsgOf(inbox[mu])) IN
  /\ process = "serving" /\ mu # 0
  /\ MsgOf(inbox[mu]) \in Plaintexts
  /\ privateKey' = key
  /\ Answer(mu, IF key = None THEN Reply("invalid private key")
                ELSE [Reply("ok") EXCEPT !.key = key])
  /\ mu' = 0
  /\ UNCHANGED <<inbox, locked, process>>

(* handleKeyUpdate after the node answered.  Only a ciphertext decrypts.   *)
Decrypts ==
  LET key == ParseKey(MsgOf(inbox[mu])) IN
  /\ process = "serving" /\ mu # 0
  /\ MsgOf(inbox[mu]) \in Plaintexts
  /\ \/ /\ key = None
        /\ Answer(mu, Reply("invalid private key"))
        /\ UNCHANGED privateKey
     \/ /\ key # None
        /\ privateKey' = key
        /\ Answer(mu, [Reply("ok") EXCEPT !.key = key])
  /\ mu' = 0
  /\ UNCHANGED <<inbox, locked, process>>

(* signECDSA with the stored key, packed with the message it signs. *)
Signature(text) == [log |-> "ok", key |-> privateKey, text |-> text]

(* The outcome of handleKeySign, in the order of its early returns.  There *)
(* is no policy to consult.                                                *)
SignOutcome(msg) ==
  IF privateKey = None THEN Reply("no private key stored")
  ELSE IF msg = Empty THEN Reply("originalMessage is empty")
  ELSE IF msg = BadHex THEN Reply("invalid hex")
  ELSE Signature(msg)

HandleKeySign(i) ==
  /\ Handles(i, "handleKeySign")
  /\ LocksFor(i)
  /\ Answer(i, SignOutcome(MsgOf(inbox[i])))
  /\ UNCHANGED <<privateKey, inbox, mu, process>>

(* handleState: only whether there is a key is shown; which key it was is  *)
(* kept here for the properties.                                           *)
HandleState(i) ==
  /\ i \in DOMAIN inbox /\ inbox[i] \in Inputs
  /\ inbox[i].opType = "GET /state"
  /\ LocksFor(i)
  /\ Answer(i, [Reply("ok") EXCEPT !.key = privateKey])
  /\ UNCHANGED <<privateKey, inbox, mu, process>>

-----------------------------------------------------------------------------
(* SIGTERM, or a crash: everything was in memory. *)
Exit ==
  /\ process # "exited" /\ process' = "exited"
  /\ privateKey' = None
  /\ inbox' = <<>> /\ replies' = <<>>
  /\ mu' = 0 /\ locked' = <<>>

(* docker-compose: restart: on-failure. *)
Restart ==
  /\ process = "exited" /\ process' = "starting"
  /\ UNCHANGED <<privateKey, inbox, replies, mu, locked>>

Handle(i) == HandleKeyUpdate(i) \/ HandleKeySign(i) \/ HandleState(i)

Node == DecryptFails \/ Decrypts

Next ==
  \/ Boot
  \/ \E r \in Inputs : ReceiveAction(r) \/ ReceiveState(r)
  \/ ReceiveMalformed
  \/ \E i \in 1 .. MaxRequests :
        HandleKeyUpdate(i) \/ HandleKeySign(i) \/ HandleState(i)
  \/ DecryptFails \/ Decrypts
  \/ Exit \/ Restart

Spec == Init /\ [][Next]_vars

(* sync.Mutex in starvation mode hands itself to the goroutine that waited *)
(* longest, so each waiting request gets it.  Nothing is assumed of the    *)
(* node: http.DefaultClient has no timeout.                                *)
FairSpec == Spec /\ \A i \in 1 .. MaxRequests : SF_vars(Handle(i))

-----------------------------------------------------------------------------
Replies == [log : Errors \cup Refusals \cup {"ok", "waiting"},
            key : (1 .. Order - 1) \cup {None},
            text : Texts \cup Plaintexts \cup {None}]

(* Type invariant.  The key is a nonzero scalar. *)
TypeOK ==
  /\ privateKey \in (1 .. Order - 1) \cup {None}
  /\ inbox \in Seq(Inputs \cup {Malformed})
  /\ replies \in Seq(Replies)
  /\ Len(replies) = Len(inbox)
  /\ mu \in 0 .. Len(inbox)
  /\ locked \in Seq(DOMAIN inbox)
  /\ process \in {"starting", "serving", "deaf", "exited"}

Installed(i) == replies[i].log = "ok" /\ Lookup(inbox[i]) = "handleKeyUpdate"

Signed(i) == replies[i].log = "ok" /\ Lookup(inbox[i]) = "handleKeySign"

(* The key the n-th request to take the mutex should find. *)
KeyBefore(n) ==
  IF \E m \in 1 .. n - 1 : Installed(locked[m])
  THEN LET last == CHOOSE m \in 1 .. n - 1 :
                      /\ Installed(locked[m])
                      /\ \A k \in m + 1 .. n - 1 : ~ Installed(locked[k])
       IN replies[locked[last]].key
  ELSE None

(* A signature is made with the key of the last update to take the mutex   *)
(* before it and succeed, and a report tells of that key too: no reader    *)
(* runs inside an update, no update is overtaken between its call of the   *)
(* node and its store.                                                     *)
ReadsLastInstalled ==
  \A n \in DOMAIN locked :
    LET i == locked[n] IN
    (Signed(i) \/ (inbox[i].opType = "GET /state" /\ replies[i].log = "ok")) =>
       replies[i].key = KeyBefore(n)

(* What was given so far, in the order the mutex was taken; the update the *)
(* node is still decrypting for has been given nothing.                    *)
Given(i) ==
  LET what == IF replies[i].log # "ok" THEN "refused"
              ELSE IF Installed(i) THEN "installed"
              ELSE IF Signed(i) THEN "signed" ELSE "reported"
  IN [what |-> what, key |-> replies[i].key, text |-> replies[i].text]

Settled == IF mu = 0 THEN Len(locked) ELSE Len(locked) - 1

GivenLog == [n \in 1 .. Settled |-> Given(locked[n])]

Box == INSTANCE KeyBox WITH
  Key <- 1 .. Order - 1, Text <- Texts \cup Plaintexts, NoKey <- None,
  key <- privateKey, given <- GivenLog

(* However goroutines interleave, and wherever the process dies, the       *)
(* extension is a box that serves one request at a time.                   *)
IsKeyBox == Box!Spec

(* As long as the node answers (the mutex is free again and again), every  *)
(* request that waits is answered, or lost with the process.  With a node  *)
(* that never answers one /decrypt nothing is answered any more, GET       *)
(* /state included.                                                        *)
AnsweredIfNodeAnswers ==
  \A i \in 1 .. MaxRequests :
    []<>(mu = 0) =>
      ((Len(replies) >= i /\ replies[i].log = "waiting")
         ~> (Len(replies) < i \/ replies[i].log # "waiting"))
=============================================================================
