-------------------------- MODULE GoExtensionProofs --------------------------
(* Proofs about GoExtension, for every value of its constants. *)
EXTENDS GoExtension, SequenceTheorems, TLAPS

-----------------------------------------------------------------------------
(* Handlers, keys and replies.                                             *)

(* Only KEY requests have a handler; GET /state has none. *)
LEMMA LookupIsKey ==
  ASSUME NEW r PROVE Lookup(r) # "nil" => r.opType = "KEY"
<1> DEFINE E == {n \in DOMAIN Handlers : Matches(Handlers[n], r)}
<1>1. \A n \in DOMAIN Handlers : Handlers[n].opType = "KEY"
  BY DEF Handlers
<1>2. CASE E # {}
  BY <1>1, <1>2 DEF Matches
<1>3. CASE E = {}
  BY <1>3 DEF Lookup
<1>4. QED
  BY <1>2, <1>3

(* A decrypted key is refused, or a nonzero scalar. *)
LEMMA ParsedKey ==
  ASSUME NEW plaintext \in Plaintexts
  PROVE  ParseKey(plaintext) \in (1 .. Order - 1) \cup {None}
<1>1. plaintext.value \in Nat /\ Order \in Nat \ {0, 1}
  BY ExtensionAssumption
<1>2. plaintext.value % Order \in 0 .. Order - 1
  BY <1>1
<1>3. QED
  BY <1>1, <1>2 DEF ParseKey, Scalar

LEMMA ReplyType ==
  /\ \A log \in Errors \cup Refusals \cup {"ok", "waiting"} : Reply(log) \in Replies
  /\ \A key \in (1 .. Order - 1) \cup {None} :
        [Reply("ok") EXCEPT !.key = key] \in Replies
BY DEF Reply, Replies

LEMMA SignOutcomeType ==
  ASSUME TypeOK, NEW msg \in Messages PROVE SignOutcome(msg) \in Replies
<1>1. CASE SignOutcome(msg) = Signature(msg) /\ msg \in Texts \cup Plaintexts
  BY <1>1 DEF TypeOK, Signature, Replies
<1>2. CASE \E log \in Errors : SignOutcome(msg) = Reply(log)
  BY <1>2, ReplyType
<1>3. QED
  BY <1>1, <1>2 DEF SignOutcome, Messages, Errors

LEMMA InputMessage ==
  ASSUME NEW r \in Inputs PROVE MsgOf(r) \in Messages
BY ExtensionAssumption DEF MsgOf, Request

LEMMA InboxDomain ==
  ASSUME TypeOK PROVE DOMAIN inbox = 1 .. Len(inbox) /\ Len(inbox) \in Nat
BY DEF TypeOK

(* Answering a request changes its own reply only. *)
LEMMA AnswerType ==
  ASSUME TypeOK, NEW i \in DOMAIN inbox, NEW r \in Replies, Answer(i, r)
  PROVE  /\ replies' \in Seq(Replies) /\ Len(replies') = Len(inbox)
         /\ \A j \in DOMAIN inbox :
               replies'[j] = IF j = i THEN r ELSE replies[j]
<1>1. replies \in Seq(Replies) /\ Len(replies) = Len(inbox) /\ Len(inbox) \in Nat
      /\ DOMAIN inbox = 1 .. Len(inbox)
  BY DEF TypeOK
<1>2. i \in 1 .. Len(replies)
  BY <1>1
<1>3. QED
  BY <1>1, <1>2, ExceptSeq DEF Answer

(* TypeOK is inductive. *)
THEOREM TypeCorrect == Spec => []TypeOK
<1>1. Init => TypeOK
  BY DEF Init, TypeOK
<1>2. TypeOK /\ [Next]_vars => TypeOK'
  <2> SUFFICES ASSUME TypeOK, [Next]_vars PROVE TypeOK'
    OBVIOUS
  <2>0. /\ DOMAIN inbox = 1 .. Len(inbox) /\ Len(inbox) \in Nat
        /\ mu # 0 => mu \in DOMAIN inbox
        /\ mu \in 0 .. Len(inbox) /\ 0 \in 0 .. Len(inbox)
        /\ DOMAIN inbox \subseteq 0 .. Len(inbox)
        /\ locked \in Seq(DOMAIN inbox)
        /\ privateKey \in (1 .. Order - 1) \cup {None}
    <3>1. DOMAIN inbox = 1 .. Len(inbox) /\ Len(inbox) \in Nat
      BY InboxDomain
    <3>2. mu \in 0 .. Len(inbox)
      BY DEF TypeOK
    <3>3. QED
      BY <3>1, <3>2 DEF TypeOK
  <2>1. ASSUME NEW r \in Inputs \cup {Malformed},
               NEW log \in Refusals \cup {"waiting"}, Arrives(r, log)
        PROVE  TypeOK'
    <3>1. Reply(log) \in Replies
      BY ReplyType
    <3>2. /\ replies' \in Seq(Replies) /\ Len(replies') = Len(replies) + 1
          /\ inbox' \in Seq(Inputs \cup {Malformed})
          /\ Len(inbox') = Len(inbox) + 1
      BY <2>1, <3>1 DEF Arrives, TypeOK
    <3>3. DOMAIN inbox \subseteq DOMAIN inbox'
      BY <3>2 DEF TypeOK
    <3>4. locked' \in Seq(DOMAIN inbox') /\ mu' \in 0 .. Len(inbox')
      BY <2>1, <3>2, <3>3 DEF Arrives, TypeOK
    <3>5. QED
      BY <2>1, <3>2, <3>4 DEF Arrives, TypeOK
  <2>2. ASSUME NEW i \in 1 .. MaxRequests, LocksFor(i)
        PROVE  locked' \in Seq(DOMAIN inbox) /\ i \in DOMAIN inbox
    BY <2>2 DEF LocksFor, TypeOK
  <2>3. ASSUME NEW i \in DOMAIN inbox, NEW r \in Replies, Answer(i, r),
               locked' \in Seq(DOMAIN inbox), mu' \in 0 .. Len(inbox),
               privateKey' \in (1 .. Order - 1) \cup {None},
               UNCHANGED <<inbox, process>>
        PROVE  TypeOK'
    BY <2>3, AnswerType DEF TypeOK
  <2>4. ASSUME NEW i \in 1 .. MaxRequests, HandleKeyUpdate(i) PROVE TypeOK'
    <3>1. i \in DOMAIN inbox /\ locked' \in Seq(DOMAIN inbox)
      BY <2>2, <2>4 DEF HandleKeyUpdate
    <3>2. ASSUME NEW log \in Errors, Answer(i, Reply(log)), UNCHANGED mu
          PROVE  TypeOK'
      BY <2>3, <2>4, <3>1, <3>2, ReplyType DEF HandleKeyUpdate, TypeOK
    <3>3. CASE mu' = i /\ UNCHANGED replies
      BY <2>0, <2>4, <3>1, <3>3 DEF HandleKeyUpdate, TypeOK
    <3>4. QED
      BY <2>4, <3>2, <3>3 DEF HandleKeyUpdate, UpdateRefused, Errors
  <2>5. CASE DecryptFails
    <3>1. mu \in DOMAIN inbox
      BY <2>5, <2>0 DEF DecryptFails
    <3>2. Reply("decryption failed") \in Replies
      BY ReplyType DEF Errors
    <3>3. QED
      BY <2>0, <2>3, <2>5, <3>1, <3>2 DEF DecryptFails
  <2>6. CASE Decrypts
    <3>1. mu \in DOMAIN inbox
      BY <2>6, <2>0 DEF Decrypts
    <3>2. PICK key : key = ParseKey(MsgOf(inbox[mu]))
      OBVIOUS
    <3>3. key \in (1 .. Order - 1) \cup {None}
      BY <2>6, <3>2, ParsedKey DEF Decrypts
    <3>4. /\ Reply("invalid private key") \in Replies
          /\ [Reply("ok") EXCEPT !.key = key] \in Replies
      BY <3>3, ReplyType DEF Errors
    <3>5. QED
      BY <2>0, <2>3, <2>6, <3>1, <3>2, <3>3, <3>4 DEF Decrypts
  <2>7. ASSUME NEW i \in 1 .. MaxRequests, HandleKeySign(i) PROVE TypeOK'
    <3>1. i \in DOMAIN inbox /\ locked' \in Seq(DOMAIN inbox)
      BY <2>2, <2>7 DEF HandleKeySign
    <3>2. SignOutcome(MsgOf(inbox[i])) \in Replies
      BY <2>7, SignOutcomeType, InputMessage DEF HandleKeySign, Handles
    <3>3. QED
      BY <2>3, <2>7, <3>1, <3>2 DEF HandleKeySign, TypeOK
  <2>8. ASSUME NEW i \in 1 .. MaxRequests, HandleState(i) PROVE TypeOK'
    <3>1. i \in DOMAIN inbox /\ locked' \in Seq(DOMAIN inbox)
      BY <2>2, <2>8 DEF HandleState
    <3>2. [Reply("ok") EXCEPT !.key = privateKey] \in Replies
      BY ReplyType DEF TypeOK
    <3>3. QED
      BY <2>3, <2>8, <3>1, <3>2 DEF HandleState, TypeOK
  <2>9. CASE Boot \/ Restart \/ UNCHANGED vars
    BY <2>9 DEF Boot, Restart, vars, TypeOK
  <2>11. CASE Exit
    <3>1. locked' \in Seq(DOMAIN inbox') /\ mu' \in 0 .. Len(inbox')
      BY <2>11 DEF Exit
    <3>2. QED
      BY <2>11, <3>1 DEF Exit, TypeOK
  <2>10. QED
    BY <2>1, <2>4, <2>5, <2>6, <2>7, <2>8, <2>9, <2>11
    DEF Next, ReceiveAction, ReceiveState, ReceiveMalformed, Refusals
<1>3. QED
  BY <1>1, <1>2, PTL DEF Spec

-----------------------------------------------------------------------------
(* The inductive invariant.                                                *)

(* Of the requests that took the mutex, only the last may still be without *)
(* an answer, and it is the key update that holds the mutex.               *)
LockInv ==
  /\ \A n \in DOMAIN locked :
        /\ inbox[locked[n]] \in Inputs
        /\ replies[locked[n]].log = "waiting" <=> locked[n] = mu
        /\ locked[n] = mu <=> (mu # 0 /\ n = Len(locked))
  /\ mu # 0 => Len(locked) > 0 /\ Lookup(inbox[mu]) = "handleKeyUpdate"

(* The m-th is the last before the n-th to install a key. *)
LastBefore(n, m) ==
  /\ m \in 1 .. n - 1 /\ Installed(locked[m])
  /\ \A k \in m + 1 .. n - 1 : ~ Installed(locked[k])

NoneBefore(n) == \A m \in 1 .. n - 1 : ~ Installed(locked[m])

(* Before each there is a last one if there is any, and memory is what the *)
(* requests answered so far made of it.                                    *)
KeyInv ==
  /\ \A n \in 1 .. Settled + 1 : NoneBefore(n) \/ \E m : LastBefore(n, m)
  /\ privateKey = KeyBefore(Settled + 1)

IInv == TypeOK /\ LockInv /\ KeyInv /\ ReadsLastInstalled

LEMMA LastIsKey ==
  ASSUME NEW n \in Nat, NEW m, LastBefore(n, m)
  PROVE  KeyBefore(n) = replies[locked[m]].key
<1> DEFINE Last(x) == /\ Installed(locked[x])
                      /\ \A k \in x + 1 .. n - 1 : ~ Installed(locked[k])
<1>1. m \in 1 .. n - 1 /\ Last(m)
  BY DEF LastBefore
<1>2. \A x \in 1 .. n - 1 : Last(x) => x = m
  BY <1>1
<1>3. (CHOOSE x \in 1 .. n - 1 : Last(x)) = m
  BY <1>1, <1>2
<1>4. QED
  BY <1>1, <1>3 DEF KeyBefore

LEMMA NoneIsNone ==
  ASSUME NEW n, NoneBefore(n) PROVE KeyBefore(n) = None
BY DEF NoneBefore, KeyBefore

(* The same of the next state. *)
LEMMA LastIsKeyNext ==
  ASSUME NEW n \in Nat, NEW m, LastBefore(n, m)'
  PROVE  KeyBefore(n)' = replies'[locked'[m]].key
<1> DEFINE Last(x) == /\ Installed(locked[x])'
                      /\ \A k \in x + 1 .. n - 1 : ~ Installed(locked[k])'
<1>1. m \in 1 .. n - 1 /\ Last(m)
  BY DEF LastBefore
<1>2. \A x \in 1 .. n - 1 : Last(x) => x = m
  BY <1>1
<1>3. (CHOOSE x \in 1 .. n - 1 : Last(x)) = m
  BY <1>1, <1>2
<1>4. QED
  BY <1>1, <1>3 DEF KeyBefore

LEMMA NoneIsNoneNext ==
  ASSUME NEW n, NoneBefore(n)' PROVE KeyBefore(n)' = None
BY DEF NoneBefore, KeyBefore

(* The first requests to take the mutex, and what they were answered, stay. *)
Kept(n) ==
  \A m \in 1 .. n - 1 :
    /\ locked'[m] = locked[m]
    /\ replies'[locked[m]] = replies[locked[m]]
    /\ inbox'[locked[m]] = inbox[locked[m]]

LEMMA KeptKey ==
  ASSUME NEW n \in Nat, Kept(n), NoneBefore(n) \/ \E m : LastBefore(n, m)
  PROVE  /\ KeyBefore(n)' = KeyBefore(n)
         /\ NoneBefore(n)' \/ \E m : LastBefore(n, m)'
<1>1. \A m \in 1 .. n - 1 : Installed(locked[m])' <=> Installed(locked[m])
  BY DEF Kept, Installed
<1>2. CASE NoneBefore(n)
  <2>1. NoneBefore(n)'
    BY <1>1, <1>2 DEF NoneBefore
  <2>2. QED
    BY <1>2, <2>1, NoneIsNone, NoneIsNoneNext
<1>3. ASSUME NEW m, LastBefore(n, m)
      PROVE  /\ KeyBefore(n)' = KeyBefore(n)
             /\ LastBefore(n, m)'
  <2>1. LastBefore(n, m)'
    BY <1>1, <1>3 DEF LastBefore
  <2>2. replies'[locked'[m]] = replies[locked[m]]
    BY <1>3 DEF LastBefore, Kept
  <2>3. QED
    BY <1>3, <2>1, <2>2, LastIsKey, LastIsKeyNext
<1>4. QED
  BY <1>2, <1>3

-----------------------------------------------------------------------------
(* The steps.                                                              *)

LEMMA LockedTypes ==
  ASSUME TypeOK, LockInv
  PROVE  /\ Len(locked) \in Nat /\ DOMAIN locked = 1 .. Len(locked)
         /\ \A n \in 1 .. Len(locked) : locked[n] \in DOMAIN inbox
         /\ Settled \in Nat /\ Settled <= Len(locked)
         /\ \A n \in 1 .. Settled : locked[n] # mu
<1>1. /\ Len(locked) \in Nat /\ DOMAIN locked = 1 .. Len(locked)
      /\ \A n \in 1 .. Len(locked) : locked[n] \in DOMAIN inbox
  BY DEF TypeOK
<1>2. Settled \in Nat /\ Settled <= Len(locked)
  BY <1>1 DEF Settled, LockInv
<1>3. \A n \in 1 .. Settled : locked[n] # mu
  BY <1>1, <1>2 DEF Settled, LockInv
<1>4. QED
  BY <1>1, <1>2, <1>3

(* A step that leaves what was answered as it is. *)
LEMMA QuietStep ==
  ASSUME IInv, TypeOK', LockInv', Settled' = Settled, Kept(Settled + 1),
         privateKey' = privateKey
  PROVE  IInv'
<1>1. /\ Settled \in Nat
      /\ DOMAIN locked = 1 .. Len(locked) /\ Len(locked) \in Nat
      /\ Settled <= Len(locked)
  BY LockedTypes DEF IInv
<1>2. ASSUME NEW n \in 1 .. Settled + 1
      PROVE  /\ KeyBefore(n)' = KeyBefore(n)
             /\ NoneBefore(n)' \/ \E m : LastBefore(n, m)'
  <2>1. Kept(n)
    BY <1>1 DEF Kept
  <2>2. QED
    BY <1>1, <2>1, KeptKey DEF IInv, KeyInv
<1>3. KeyInv'
  BY <1>1, <1>2 DEF IInv, KeyInv
<1>4. ASSUME NEW n \in DOMAIN locked', n > Settled
      PROVE  replies'[locked'[n]].log = "waiting"
  <2>1. DOMAIN locked' = 1 .. Len(locked') /\ Len(locked') \in Nat
    BY DEF TypeOK
  <2>2. QED
    BY <1>1, <1>4, <2>1 DEF LockInv, Settled
<1>5. ReadsLastInstalled'
  <2>1. SUFFICES ASSUME NEW n \in DOMAIN locked',
                        Signed(locked[n])'
                        \/ (/\ inbox'[locked'[n]].opType = "GET /state"
                            /\ replies'[locked'[n]].log = "ok")
                 PROVE  replies'[locked'[n]].key = KeyBefore(n)'
    BY DEF ReadsLastInstalled
  <2>2. n \in Nat /\ n >= 1
    BY DEF TypeOK
  <2>3. n \in 1 .. Settled
    <3>1. replies'[locked'[n]].log = "ok"
      BY <2>1 DEF Signed
    <3>2. ~ (n > Settled)
      BY <1>4, <3>1
    <3>3. QED
      BY <1>1, <2>2, <3>2
  <2>4. /\ locked'[n] = locked[n] /\ replies'[locked[n]] = replies[locked[n]]
        /\ inbox'[locked[n]] = inbox[locked[n]]
    BY <1>1, <2>3 DEF Kept
  <2>5. KeyBefore(n)' = KeyBefore(n)
    BY <1>1, <1>2, <2>3
  <2>6. /\ Signed(locked[n])' <=> Signed(locked[n])
        /\ n \in DOMAIN locked
    BY <1>1, <2>3, <2>4 DEF Signed
  <2>7. replies[locked[n]].key = KeyBefore(n)
    BY <2>1, <2>4, <2>6 DEF IInv, ReadsLastInstalled
  <2>8. QED
    BY <2>4, <2>5, <2>7
<1>6. QED
  BY <1>3, <1>5 DEF IInv

(* A step that answers request i with r, having the mutex alone. *)
Settles(i, r) ==
  /\ i \in DOMAIN inbox /\ inbox[i] \in Inputs
  /\ r \in Replies /\ r.log # "waiting"
  /\ Answer(i, r)
  /\ UNCHANGED inbox
  /\ mu' = 0
  /\ \/ mu = i /\ mu # 0 /\ locked' = locked
     \/ mu = 0 /\ replies[i].log = "waiting" /\ locked' = Append(locked, i)
  /\ IF r.log = "ok" /\ Lookup(inbox[i]) = "handleKeyUpdate"
     THEN privateKey' = r.key
     ELSE privateKey' = privateKey /\ (r.log = "ok" => r.key = privateKey)

LEMMA SettleShape ==
  ASSUME IInv, NEW i, NEW r, Settles(i, r)
  PROVE  /\ Settled' = Settled + 1 /\ Len(locked') = Settled + 1
         /\ locked'[Settled + 1] = i /\ replies'[i] = r
         /\ DOMAIN locked' = 1 .. Settled + 1
         /\ Kept(Settled + 1)
         /\ \A n \in 1 .. Settled : locked[n] # i
<1>1. /\ Len(locked) \in Nat /\ DOMAIN locked = 1 .. Len(locked)
      /\ \A n \in 1 .. Len(locked) : locked[n] \in DOMAIN inbox
      /\ Settled \in Nat
      /\ \A n \in 1 .. Settled : locked[n] # mu
  BY LockedTypes DEF IInv
<1>2. replies'[i] = r
      /\ \A j \in DOMAIN inbox : j # i => replies'[j] = replies[j]
  BY AnswerType DEF IInv, Settles
<1>3. locked \in Seq(DOMAIN inbox)
  BY DEF IInv, TypeOK
<1>4. CASE mu = 0
  <2>1. /\ locked' = Append(locked, i) /\ i \in DOMAIN inbox
        /\ replies[i].log = "waiting" /\ mu' = 0
    BY <1>4 DEF Settles
  <2>2. Settled = Len(locked)
    BY <1>4 DEF Settled
  <2>3. /\ Len(locked') = Len(locked) + 1 /\ locked'[Len(locked) + 1] = i
        /\ DOMAIN locked' = 1 .. Len(locked) + 1
        /\ \A n \in 1 .. Len(locked) : locked'[n] = locked[n]
    BY <1>1, <1>3, <2>1
  <2>4. \A n \in 1 .. Len(locked) : locked[n] # i
    BY <1>1, <1>4, <2>1 DEF IInv, LockInv
  <2>5. Settled' = Len(locked')
    BY <2>1 DEF Settled
  <2>6. Kept(Settled + 1)
    BY <1>1, <1>2, <2>2, <2>3, <2>4 DEF Kept, Settles
  <2>7. QED
    BY <1>1, <1>2, <2>2, <2>3, <2>4, <2>5, <2>6
<1>5. CASE mu # 0
  <2>1. locked' = locked /\ mu = i /\ mu' = 0
    BY <1>5 DEF Settles
  <2>2. Settled = Len(locked) - 1 /\ Len(locked) > 0
    BY <1>5 DEF Settled, IInv, LockInv
  <2>3. locked[Len(locked)] = i
    BY <1>1, <1>5, <2>1, <2>2 DEF IInv, LockInv
  <2>4. Settled' = Len(locked)
    BY <2>1 DEF Settled
  <2>5. Kept(Settled + 1)
    <3>1. \A m \in 1 .. Settled : locked[m] \in DOMAIN inbox /\ locked[m] # i
      BY <1>1, <2>1, <2>2
    <3>2. inbox' = inbox
      BY DEF Settles
    <3>3. QED
      BY <1>1, <1>2, <2>1, <3>1, <3>2 DEF Kept
  <2>6. QED
    BY <1>1, <1>2, <2>1, <2>2, <2>3, <2>4, <2>5
<1>6. QED
  BY <1>4, <1>5

LEMMA SettleStep ==
  ASSUME IInv, TypeOK', NEW i, NEW r, Settles(i, r)
  PROVE  IInv'
<1>0. PICK N \in Nat : N = Settled
  BY LockedTypes DEF IInv
<1>1. /\ Len(locked) \in Nat /\ DOMAIN locked = 1 .. Len(locked)
      /\ \A n \in 1 .. Len(locked) : locked[n] \in DOMAIN inbox
      /\ N <= Len(locked)
      /\ \A n \in 1 .. N : locked[n] # mu
  BY <1>0, LockedTypes DEF IInv
<1>2. /\ Settled' = N + 1 /\ Len(locked') = N + 1
      /\ locked'[N + 1] = i /\ replies'[i] = r
      /\ DOMAIN locked' = 1 .. N + 1
      /\ Kept(N + 1)
      /\ \A n \in 1 .. N : locked[n] # i
  BY <1>0, SettleShape
<1>3. /\ mu' = 0 /\ inbox' = inbox /\ inbox[i] \in Inputs /\ r.log # "waiting"
      /\ i \in DOMAIN inbox
  BY DEF Settles
<1>4. ASSUME NEW n \in 1 .. N
      PROVE  /\ locked'[n] = locked[n] /\ replies'[locked[n]] = replies[locked[n]]
             /\ inbox'[locked[n]] = inbox[locked[n]]
             /\ locked[n] # mu /\ n \in DOMAIN locked
  BY <1>1, <1>2 DEF Kept
<1>5. LockInv'
  <2>1. \A n \in DOMAIN locked' : locked'[n] \in DOMAIN inbox' /\ locked'[n] # 0
    <3>1. DOMAIN inbox' = 1 .. Len(inbox') /\ Len(inbox') \in Nat
      BY DEF TypeOK
    <3>2. locked' \in Seq(DOMAIN inbox')
      BY DEF TypeOK
    <3>3. QED
      BY <3>1, <3>2
  <2>2. ASSUME NEW n \in DOMAIN locked'
        PROVE  inbox'[locked'[n]] \in Inputs /\ replies'[locked'[n]].log # "waiting"
    <3>1. CASE n = N + 1
      BY <1>2, <1>3, <3>1
    <3>2. CASE n \in 1 .. N
      BY <1>4, <3>2 DEF IInv, LockInv
    <3>3. QED
      BY <1>1, <1>2, <3>1, <3>2
  <2>3. QED
    BY <1>3, <2>1, <2>2 DEF LockInv
<1>6. ASSUME NEW n \in 1 .. N + 1
      PROVE  /\ KeyBefore(n)' = KeyBefore(n)
             /\ NoneBefore(n)' \/ \E m : LastBefore(n, m)'
  <2>1. Kept(n)
    BY <1>1, <1>2 DEF Kept
  <2>2. QED
    BY <1>0, <1>1, <2>1, KeptKey DEF IInv, KeyInv
<1>7. /\ NoneBefore(N + 2)' \/ \E m : LastBefore(N + 2, m)'
      /\ KeyBefore(N + 2)' = privateKey'
  <2>1. CASE Installed(i)'
    <3>1. LastBefore(N + 2, N + 1)'
      BY <1>1, <1>2, <2>1 DEF LastBefore
    <3>2. privateKey' = r.key
      BY <1>2, <1>3, <2>1 DEF Installed, Settles
    <3>3. QED
      BY <1>1, <1>2, <3>1, <3>2, LastIsKeyNext
  <2>2. CASE ~ Installed(i)'
    <3>1. privateKey' = privateKey
      BY <1>2, <1>3, <2>2 DEF Installed, Settles
    <3>2. KeyBefore(N + 1)' = privateKey
      BY <1>0, <1>1, <1>6 DEF IInv, KeyInv
    <3>3. CASE NoneBefore(N + 1)'
      <4>1. NoneBefore(N + 2)'
        BY <1>1, <1>2, <2>2, <3>3 DEF NoneBefore
      <4>2. QED
        BY <1>1, <3>1, <3>2, <3>3, <4>1, NoneIsNoneNext
    <3>4. ASSUME NEW m, LastBefore(N + 1, m)'
          PROVE  LastBefore(N + 2, m)' /\ KeyBefore(N + 2)' = privateKey'
      <4>1. LastBefore(N + 2, m)'
        BY <1>1, <1>2, <2>2, <3>4 DEF LastBefore
      <4>2. QED
        BY <1>1, <3>1, <3>2, <3>4, <4>1, LastIsKeyNext
    <3>5. QED
      BY <1>1, <1>6, <3>3, <3>4
  <2>3. QED
    BY <2>1, <2>2
<1>8. KeyInv'
  <2>1. Settled' + 1 = N + 2
    BY <1>1, <1>2
  <2>2. \A n \in 1 .. N + 2 : NoneBefore(n)' \/ \E m : LastBefore(n, m)'
    BY <1>1, <1>6, <1>7
  <2>3. QED
    BY <1>7, <2>1, <2>2 DEF KeyInv
<1>9. ReadsLastInstalled'
  <2>1. SUFFICES ASSUME NEW n \in DOMAIN locked',
                        Signed(locked[n])'
                        \/ (/\ inbox'[locked'[n]].opType = "GET /state"
                            /\ replies'[locked'[n]].log = "ok")
                 PROVE  replies'[locked'[n]].key = KeyBefore(n)'
    BY DEF ReadsLastInstalled
  <2>2. CASE n = N + 1
    <3>1. r.log = "ok" /\ Lookup(inbox[i]) # "handleKeyUpdate"
      BY <1>2, <1>3, <2>1, <2>2, LookupIsKey DEF Signed
    <3>2. r.key = privateKey
      BY <3>1 DEF Settles
    <3>3. QED
      BY <1>0, <1>1, <1>2, <1>6, <2>2, <3>2 DEF IInv, KeyInv
  <2>3. CASE n \in 1 .. N
    <3>1. Signed(locked[n])' <=> Signed(locked[n])
      BY <1>4, <2>3 DEF Signed
    <3>2. replies[locked[n]].key = KeyBefore(n)
      BY <1>4, <2>1, <2>3, <3>1 DEF IInv, ReadsLastInstalled
    <3>3. QED
      BY <1>1, <1>4, <1>6, <2>3, <3>2
  <2>4. QED
    BY <1>1, <1>2, <2>2, <2>3
<1>10. QED
  BY <1>5, <1>8, <1>9 DEF IInv

(* Which answers the handlers give. *)
LEMMA HandlersSettle ==
  ASSUME IInv
  PROVE  /\ \A i : \A log \in Errors :
              (/\ Handles(i, "handleKeyUpdate") /\ LocksFor(i)
               /\ Answer(i, Reply(log))
               /\ UNCHANGED <<mu, privateKey, inbox>>)
                => Settles(i, Reply(log))
         /\ DecryptFails => Settles(mu, Reply("decryption failed"))
         /\ Decrypts => LET key == ParseKey(MsgOf(inbox[mu])) IN
              IF key = None THEN Settles(mu, Reply("invalid private key"))
              ELSE Settles(mu, [Reply("ok") EXCEPT !.key = key])
         /\ \A i : HandleKeySign(i) => Settles(i, SignOutcome(MsgOf(inbox[i])))
         /\ \A i : HandleState(i) =>
                     Settles(i, [Reply("ok") EXCEPT !.key = privateKey])
<1>1. \A log \in Errors :
        Reply(log) \in Replies /\ Reply(log).log \notin {"ok", "waiting"}
  BY ReplyType DEF Reply, Errors
<1>2. mu # 0 => mu \in DOMAIN inbox /\ inbox[mu] \in Inputs
                /\ Lookup(inbox[mu]) = "handleKeyUpdate"
  <2>1. Len(locked) \in Nat /\ DOMAIN locked = 1 .. Len(locked)
    BY DEF IInv, TypeOK
  <2>2. DOMAIN inbox = 1 .. Len(inbox) /\ Len(inbox) \in Nat /\ mu \in 0 .. Len(inbox)
    BY InboxDomain DEF IInv, TypeOK
  <2>3. QED
    BY <2>1, <2>2 DEF IInv, LockInv
<1>3. ASSUME NEW i, NEW log \in Errors, Handles(i, "handleKeyUpdate"), LocksFor(i),
             Answer(i, Reply(log)), UNCHANGED <<mu, privateKey, inbox>>
      PROVE  Settles(i, Reply(log))
  BY <1>1, <1>3 DEF Handles, LocksFor, Settles
<1>4. ASSUME DecryptFails PROVE Settles(mu, Reply("decryption failed"))
  BY <1>1, <1>2, <1>4 DEF DecryptFails, Settles, Errors
<1>5. ASSUME Decrypts
      PROVE  LET key == ParseKey(MsgOf(inbox[mu])) IN
               IF key = None THEN Settles(mu, Reply("invalid private key"))
               ELSE Settles(mu, [Reply("ok") EXCEPT !.key = key])
  <2>1. PICK key : key = ParseKey(MsgOf(inbox[mu]))
    OBVIOUS
  <2>2. key \in (1 .. Order - 1) \cup {None}
    BY <1>5, <2>1, ParsedKey DEF Decrypts
  <2>3. CASE key = None
    BY <1>1, <1>2, <1>5, <2>1, <2>3 DEF Decrypts, Settles, Errors
  <2>4. CASE key # None
    <3>1. PICK r : r = [Reply("ok") EXCEPT !.key = key]
      OBVIOUS
    <3>2. r \in Replies /\ r.log = "ok" /\ r.key = key
      BY <2>2, <3>1, ReplyType DEF Reply
    <3>3. Settles(mu, r)
      BY <1>2, <1>5, <2>1, <2>4, <3>1, <3>2 DEF Decrypts, Settles
    <3>4. QED
      BY <2>1, <2>4, <3>1, <3>3
  <2>5. QED
    BY <2>1, <2>3, <2>4
<1>6. ASSUME NEW i, HandleKeySign(i)
      PROVE  Settles(i, SignOutcome(MsgOf(inbox[i])))
  <2>1. PICK r : r = SignOutcome(MsgOf(inbox[i]))
    OBVIOUS
  <2>2. r \in Replies
    BY <1>6, <2>1, SignOutcomeType, InputMessage DEF HandleKeySign, Handles, IInv
  <2>3. r.log # "waiting" /\ (r.log = "ok" => r.key = privateKey)
    BY <2>1 DEF SignOutcome, Signature, Reply
  <2>4. Settles(i, r)
    BY <1>6, <2>1, <2>2, <2>3 DEF HandleKeySign, Handles, LocksFor, Settles
  <2>5. QED
    BY <2>1, <2>4
<1>7. ASSUME NEW i, HandleState(i)
      PROVE  Settles(i, [Reply("ok") EXCEPT !.key = privateKey])
  <2>1. PICK r : r = [Reply("ok") EXCEPT !.key = privateKey]
    OBVIOUS
  <2>2. r \in Replies /\ r.log = "ok" /\ r.key = privateKey
    BY <2>1, ReplyType DEF Reply, IInv, TypeOK
  <2>3. Lookup(inbox[i]) # "handleKeyUpdate"
    BY <1>7, LookupIsKey DEF HandleState
  <2>4. Settles(i, r)
    BY <1>7, <2>1, <2>2, <2>3 DEF HandleState, LocksFor, Settles
  <2>5. QED
    BY <2>1, <2>4
<1>8. QED
  BY <1>3, <1>4, <1>5, <1>6, <1>7

(* A request is received. *)
LEMMA ArrivalIsQuiet ==
  ASSUME IInv, NEW r, NEW log, Arrives(r, log)
  PROVE  LockInv' /\ Settled' = Settled /\ Kept(Settled + 1)
         /\ privateKey' = privateKey
<1>1. /\ Len(locked) \in Nat /\ DOMAIN locked = 1 .. Len(locked)
      /\ \A n \in 1 .. Len(locked) : locked[n] \in DOMAIN inbox
      /\ Settled \in Nat /\ Settled <= Len(locked)
  BY LockedTypes DEF IInv
<1>2. /\ locked' = locked /\ mu' = mu /\ privateKey' = privateKey
      /\ inbox' = Append(inbox, r) /\ replies' = Append(replies, Reply(log))
  BY DEF Arrives
<1>3. ASSUME NEW j \in DOMAIN inbox
      PROVE  inbox'[j] = inbox[j] /\ replies'[j] = replies[j]
  BY <1>2, <1>3 DEF IInv, TypeOK
<1>4. mu # 0 => mu \in DOMAIN inbox
  <2>1. DOMAIN inbox = 1 .. Len(inbox) /\ Len(inbox) \in Nat /\ mu \in 0 .. Len(inbox)
    BY InboxDomain DEF IInv, TypeOK
  <2>2. QED
    BY <2>1
<1>5. LockInv'
  BY <1>1, <1>2, <1>3, <1>4 DEF IInv, LockInv
<1>6. Kept(Settled + 1)
  <2>1. \A m \in 1 .. (Settled + 1) - 1 : locked[m] \in DOMAIN inbox
    BY <1>1
  <2>2. QED
    BY <1>2, <1>3, <2>1 DEF Kept
<1>7. Settled' = Settled
  BY <1>2 DEF Settled
<1>8. QED
  BY <1>2, <1>5, <1>6, <1>7

(* A key update takes the mutex and asks the node to decrypt. *)
LEMMA AskingIsQuiet ==
  ASSUME IInv, NEW i, Handles(i, "handleKeyUpdate"), LocksFor(i), mu' = i,
         UNCHANGED <<replies, inbox, privateKey>>
  PROVE  LockInv' /\ Settled' = Settled /\ Kept(Settled + 1)
         /\ privateKey' = privateKey
<1>1. /\ Len(locked) \in Nat /\ DOMAIN locked = 1 .. Len(locked)
      /\ \A n \in 1 .. Len(locked) : locked[n] \in DOMAIN inbox
      /\ locked \in Seq(DOMAIN inbox)
      /\ DOMAIN inbox = 1 .. Len(inbox) /\ Len(inbox) \in Nat
  <2>1. locked \in Seq(DOMAIN inbox)
    BY DEF IInv, TypeOK
  <2>2. QED
    BY <2>1, LockedTypes, InboxDomain DEF IInv
<1>2. /\ mu = 0 /\ locked' = Append(locked, i) /\ i \in DOMAIN inbox
      /\ replies[i].log = "waiting" /\ inbox[i] \in Inputs
      /\ Lookup(inbox[i]) = "handleKeyUpdate"
  BY DEF Handles, LocksFor
<1>3. i # 0
  BY <1>1, <1>2
<1>4. /\ Len(locked') = Len(locked) + 1 /\ locked'[Len(locked) + 1] = i
      /\ DOMAIN locked' = 1 .. Len(locked) + 1
      /\ \A n \in 1 .. Len(locked) : locked'[n] = locked[n]
  BY <1>1, <1>2
<1>5. \A n \in 1 .. Len(locked) :
        replies[locked[n]].log # "waiting" /\ inbox[locked[n]] \in Inputs
  BY <1>1, <1>2 DEF IInv, LockInv
<1>6. \A n \in 1 .. Len(locked) : locked[n] # i
  BY <1>2, <1>5
<1>7. LockInv'
  <2>1. ASSUME NEW n \in DOMAIN locked'
        PROVE  /\ inbox[locked'[n]] \in Inputs
               /\ replies[locked'[n]].log = "waiting" <=> locked'[n] = i
               /\ locked'[n] = i <=> n = Len(locked')
    <3>1. CASE n = Len(locked) + 1
      BY <1>2, <1>4, <3>1
    <3>2. CASE n \in 1 .. Len(locked)
      BY <1>1, <1>4, <1>5, <1>6, <3>2
    <3>3. QED
      BY <1>1, <1>4, <2>1, <3>1, <3>2
  <2>2. Len(locked') > 0
    BY <1>1, <1>4
  <2>3. QED
    BY <1>2, <1>3, <2>1, <2>2 DEF LockInv
<1>8. Settled' = Len(locked) /\ Settled = Len(locked)
  BY <1>1, <1>2, <1>3, <1>4 DEF Settled
<1>9. QED
  BY <1>1, <1>4, <1>7, <1>8 DEF Kept

(* The server has lost everything, or not begun. *)
LEMMA EmptyInv ==
  ASSUME privateKey = None, locked = <<>>, mu = 0
  PROVE  LockInv /\ KeyInv /\ ReadsLastInstalled
<1>1. DOMAIN locked = {} /\ Len(locked) = 0
  OBVIOUS
<1>2. Settled = 0
  BY <1>1 DEF Settled
<1>3. NoneBefore(1)
  BY DEF NoneBefore
<1>4. KeyBefore(1) = None
  BY <1>3, NoneIsNone
<1>5. KeyInv
  BY <1>2, <1>3, <1>4 DEF KeyInv
<1>6. QED
  BY <1>1, <1>5 DEF LockInv, ReadsLastInstalled

LEMMA EmptyInvNext ==
  ASSUME privateKey' = None, locked' = <<>>, mu' = 0
  PROVE  LockInv' /\ KeyInv' /\ ReadsLastInstalled'
<1>1. DOMAIN locked' = {} /\ Len(locked') = 0
  OBVIOUS
<1>2. Settled' = 0
  BY <1>1 DEF Settled
<1>3. NoneBefore(1)'
  BY DEF NoneBefore
<1>4. KeyBefore(1)' = None
  BY <1>3, NoneIsNoneNext
<1>5. KeyInv'
  BY <1>2, <1>3, <1>4 DEF KeyInv
<1>6. QED
  BY <1>1, <1>5 DEF LockInv, ReadsLastInstalled

-----------------------------------------------------------------------------
(* Whoever gets the mutex next, at most the last to get it is unanswered,  *)
(* and memory is what the answers in the order of the mutex made of it.    *)
THEOREM InductiveInvariant == Spec => []IInv
<1>1. Init => IInv
  <2>1. SUFFICES ASSUME Init PROVE IInv
    OBVIOUS
  <2>2. TypeOK
    BY <2>1 DEF Init, TypeOK
  <2>3. QED
    BY <2>1, <2>2, EmptyInv DEF Init, IInv
<1>2. IInv /\ TypeOK' /\ [Next]_vars => IInv'
  <2> SUFFICES ASSUME IInv, TypeOK', [Next]_vars PROVE IInv'
    OBVIOUS
  <2>1. ASSUME NEW r \in Inputs \cup {Malformed}, NEW log, Arrives(r, log)
        PROVE  IInv'
    BY <2>1, ArrivalIsQuiet, QuietStep
  <2>2. ASSUME NEW i \in 1 .. MaxRequests, HandleKeyUpdate(i) PROVE IInv'
    <3>1. ASSUME NEW log \in Errors, Answer(i, Reply(log)), UNCHANGED mu
          PROVE  IInv'
      <4>1. Settles(i, Reply(log))
        BY <2>2, <3>1, HandlersSettle DEF HandleKeyUpdate
      <4>2. QED
        BY <4>1, SettleStep
    <3>2. CASE mu' = i /\ UNCHANGED replies
      BY <2>2, <3>2, AskingIsQuiet, QuietStep DEF HandleKeyUpdate
    <3>3. QED
      BY <2>2, <3>1, <3>2 DEF HandleKeyUpdate, UpdateRefused, Errors
  <2>3. CASE DecryptFails
    BY <2>3, HandlersSettle, SettleStep
  <2>4. CASE Decrypts
    BY <2>4, HandlersSettle, SettleStep
  <2>5. ASSUME NEW i \in 1 .. MaxRequests, HandleKeySign(i) PROVE IInv'
    BY <2>5, HandlersSettle, SettleStep
  <2>6. ASSUME NEW i \in 1 .. MaxRequests, HandleState(i) PROVE IInv'
    BY <2>6, HandlersSettle, SettleStep
  <2>7. CASE Exit
    BY <2>7, EmptyInvNext DEF Exit, IInv
  <2>8. CASE Boot \/ Restart \/ UNCHANGED vars
    <3>1. UNCHANGED <<privateKey, inbox, replies, mu, locked>>
      BY <2>8 DEF Boot, Restart, vars
    <3>2. LockInv'
      BY <3>1 DEF IInv, LockInv
    <3>3. Settled' = Settled /\ Kept(Settled + 1)
      BY <3>1 DEF Settled, Kept
    <3>4. QED
      BY <3>1, <3>2, <3>3, QuietStep
  <2>9. QED
    BY <2>1, <2>2, <2>3, <2>4, <2>5, <2>6, <2>7, <2>8
    DEF Next, ReceiveAction, ReceiveState, ReceiveMalformed
<1>3. QED
  BY <1>1, <1>2, TypeCorrect, PTL DEF Spec

(* A signature is made, and a state reported, with the key last installed  *)
(* in the order of the mutex.                                              *)
THEOREM ReadersSeeLastInstalled == Spec => []ReadsLastInstalled
<1>1. IInv => ReadsLastInstalled
  BY DEF IInv
<1>2. QED
  BY <1>1, InductiveInvariant, PTL

-----------------------------------------------------------------------------
(* The proof that GoExtension implements KeyBox: its initial states are    *)
(* the box's, and each of its steps is a step of the box or a stutter.     *)

Entries == [what : {"refused", "installed", "signed", "reported"},
            key : (1 .. Order - 1) \cup {None},
            text : Texts \cup Plaintexts \cup {None}]

LEMMA GivenLogType ==
  ASSUME IInv
  PROVE  /\ GivenLog \in Seq(Entries) /\ Len(GivenLog) = Settled
         /\ Settled \in Nat
         /\ \A n \in 1 .. Settled : GivenLog[n] = Given(locked[n])
<1>1. /\ Settled \in Nat /\ Settled <= Len(locked) /\ Len(locked) \in Nat
      /\ \A n \in 1 .. Len(locked) : locked[n] \in DOMAIN inbox
  BY LockedTypes DEF IInv
<1>2. \A i \in DOMAIN inbox : replies[i] \in Replies
  <2>1. /\ DOMAIN inbox = 1 .. Len(inbox) /\ replies \in Seq(Replies)
        /\ Len(replies) = Len(inbox)
    BY InboxDomain DEF IInv, TypeOK
  <2>2. QED
    BY <2>1
<1>3. ASSUME NEW n \in 1 .. Settled
      PROVE  GivenLog[n] = Given(locked[n]) /\ Given(locked[n]) \in Entries
  <2>1. replies[locked[n]] \in Replies
    BY <1>1, <1>2
  <2>2. Given(locked[n]) \in Entries
    BY <2>1 DEF Given, Entries, Replies
  <2>3. QED
    BY <2>2 DEF GivenLog
<1>4. GivenLog \in [1 .. Settled -> Entries]
  BY <1>3 DEF GivenLog
<1>5. QED
  BY <1>1, <1>3, <1>4

(* Settling a request gives it its reply. *)
LEMMA GiveStep ==
  ASSUME IInv, IInv', NEW i, NEW r, Settles(i, r)
  PROVE  /\ GivenLog' = Append(GivenLog, Given(i)')
         /\ replies'[i] = r /\ inbox'[i] = inbox[i]
         /\ r \in Replies
<1>1. /\ Settled' = Settled + 1 /\ locked'[Settled + 1] = i /\ replies'[i] = r
      /\ Kept(Settled + 1)
      /\ inbox' = inbox /\ r \in Replies
  BY SettleShape DEF Settles
<1>2. PICK N \in Nat : N = Settled
  BY GivenLogType
<1>3. /\ GivenLog \in Seq(Entries) /\ Len(GivenLog) = N
      /\ \A n \in 1 .. N : GivenLog[n] = Given(locked[n])
  BY <1>2, GivenLogType
<1>4. /\ GivenLog' \in Seq(Entries) /\ Len(GivenLog') = N + 1
      /\ \A n \in 1 .. N + 1 : GivenLog'[n] = Given(locked[n])'
  <2>1. (/\ GivenLog \in Seq(Entries) /\ Len(GivenLog) = Settled
         /\ Settled \in Nat
         /\ \A n \in 1 .. Settled : GivenLog[n] = Given(locked[n]))'
    BY GivenLogType, PTL
  <2>2. QED
    BY <1>1, <1>2, <2>1
<1>5. \A n \in 1 .. N : Given(locked[n])' = Given(locked[n])
  <2>1. ASSUME NEW n \in 1 .. N
        PROVE  /\ locked'[n] = locked[n]
               /\ replies'[locked[n]] = replies[locked[n]]
               /\ inbox'[locked[n]] = inbox[locked[n]]
    BY <1>1, <1>2 DEF Kept
  <2>2. QED
    BY <2>1 DEF Given, Installed, Signed
<1>6. Given(locked[N + 1])' = Given(i)'
  BY <1>1, <1>2 DEF Given, Installed, Signed
<1> DEFINE e == Given(i)'
<1>7. e \in Entries
  BY <1>4, <1>6
<1> HIDE DEF e
<1> DEFINE s == Append(GivenLog, e)
<1>8. /\ s \in Seq(Entries) /\ Len(s) = N + 1
      /\ \A n \in 1 .. N : s[n] = GivenLog[n]
      /\ s[N + 1] = e
  BY <1>3, <1>7, AppendProperties
<1>9. GivenLog'[N + 1] = e
  BY <1>4, <1>6 DEF e
<1>10. \A n \in 1 .. N + 1 : s[n] = GivenLog'[n]
  <2>1. \A n \in 1 .. N : s[n] = GivenLog'[n]
    BY <1>3, <1>4, <1>5, <1>8
  <2>2. QED
    BY <1>8, <1>9, <2>1
<1> HIDE DEF s
<1>11. GivenLog' = s
  BY <1>4, <1>8, <1>10, SeqEqual
<1>12. QED
  BY <1>1, <1>11 DEF e, s

(* A step that leaves what was answered alone is a stutter. *)
LEMMA QuietStutters ==
  ASSUME IInv, Settled' = Settled, Kept(Settled + 1)
  PROVE  GivenLog' = GivenLog
<1>1. Settled \in Nat
  BY GivenLogType
<1>2. ASSUME NEW n \in 1 .. Settled
      PROVE  Given(locked[n])' = Given(locked[n])
  <2>1. /\ locked'[n] = locked[n]
        /\ replies'[locked[n]] = replies[locked[n]]
        /\ inbox'[locked[n]] = inbox[locked[n]]
    BY <1>1 DEF Kept
  <2>2. QED
    BY <2>1 DEF Given, Installed, Signed
<1>3. QED
  BY <1>2 DEF GivenLog

-----------------------------------------------------------------------------
(* Each answer is one of the box's. *)

LEMMA ErrorRefuses ==
  ASSUME IInv, IInv', NEW i, NEW log \in Errors, Settles(i, Reply(log))
  PROVE  Box!Refuse
<1>1. /\ GivenLog' = Append(GivenLog, Given(i)')
      /\ replies'[i] = Reply(log)
  BY GiveStep
<1>2. Reply(log).log # "ok" /\ Reply(log).key = None /\ Reply(log).text = None
  BY DEF Reply, Errors
<1>3. Given(i)' = [what |-> "refused", key |-> None, text |-> None]
  BY <1>1, <1>2 DEF Given
<1>4. privateKey' = privateKey
  BY <1>2 DEF Settles
<1>5. QED
  BY <1>1, <1>3, <1>4 DEF Box!Refuse, Box!Give

LEMMA DecryptedInstalls ==
  ASSUME IInv, IInv', Decrypts
  PROVE  Box!Refuse \/ \E k \in 1 .. Order - 1 : Box!Install(k)
<1>1. PICK key : key = ParseKey(MsgOf(inbox[mu]))
  OBVIOUS
<1>2. key \in (1 .. Order - 1) \cup {None}
  BY <1>1, ParsedKey DEF Decrypts
<1>3. CASE key = None
  <2>1. Settles(mu, Reply("invalid private key"))
    BY <1>1, <1>3, HandlersSettle
  <2>2. QED
    BY <2>1, ErrorRefuses DEF Errors
<1>4. CASE key # None
  <2>1. PICK r : r = [Reply("ok") EXCEPT !.key = key]
    OBVIOUS
  <2>2. Settles(mu, r)
    BY <1>1, <1>4, <2>1, HandlersSettle
  <2>3. r.log = "ok" /\ r.key = key /\ r.text = None
    BY <2>1 DEF Reply
  <2>4. PICK i : i = mu
    OBVIOUS
  <2>5. /\ GivenLog' = Append(GivenLog, Given(i)')
        /\ replies'[i] = r /\ inbox'[i] = inbox[i]
    BY <2>2, <2>4, GiveStep
  <2>6. Lookup(inbox[i]) = "handleKeyUpdate"
    BY <2>4 DEF Decrypts, IInv, LockInv
  <2>7. Given(i)' = [what |-> "installed", key |-> key, text |-> None]
    BY <2>3, <2>5, <2>6 DEF Given, Installed
  <2>8. privateKey' = key
    BY <2>2, <2>3, <2>4, <2>6 DEF Settles
  <2>9. QED
    BY <1>2, <1>4, <2>5, <2>7, <2>8 DEF Box!Install, Box!Give
<1>5. QED
  BY <1>3, <1>4

LEMMA SignSigns ==
  ASSUME IInv, IInv', NEW i, HandleKeySign(i)
  PROVE  Box!Refuse \/ \E t \in Texts \cup Plaintexts : Box!Sign(t)
<1>1. PICK msg : msg = MsgOf(inbox[i])
  OBVIOUS
<1>2. msg \in Messages /\ Lookup(inbox[i]) = "handleKeySign"
  BY <1>1, InputMessage DEF HandleKeySign, Handles
<1>3. Settles(i, SignOutcome(msg))
  BY <1>1, HandlersSettle
<1>4. CASE \E log \in Errors : SignOutcome(msg) = Reply(log)
  BY <1>3, <1>4, ErrorRefuses
<1>5. CASE /\ SignOutcome(msg) = Signature(msg)
           /\ privateKey # None /\ msg \in Texts \cup Plaintexts
  <2>1. PICK r : r = Signature(msg)
    OBVIOUS
  <2>2. r.log = "ok" /\ r.key = privateKey /\ r.text = msg
    BY <2>1 DEF Signature
  <2>3. /\ GivenLog' = Append(GivenLog, Given(i)')
        /\ replies'[i] = r /\ inbox'[i] = inbox[i]
    BY <1>3, <1>5, <2>1, GiveStep
  <2>4. Given(i)' = [what |-> "signed", key |-> privateKey, text |-> msg]
    BY <1>2, <2>2, <2>3 DEF Given, Installed, Signed
  <2>5. privateKey' = privateKey
    BY DEF HandleKeySign
  <2>6. QED
    BY <1>5, <2>3, <2>4, <2>5 DEF Box!Sign, Box!Give
<1>6. QED
  BY <1>2, <1>4, <1>5 DEF SignOutcome, Messages, Errors

LEMMA StateReports ==
  ASSUME IInv, IInv', NEW i, HandleState(i)
  PROVE  Box!Report
<1>1. PICK r : r = [Reply("ok") EXCEPT !.key = privateKey]
  OBVIOUS
<1>2. Settles(i, r)
  BY <1>1, HandlersSettle
<1>3. r.log = "ok" /\ r.key = privateKey /\ r.text = None
  BY <1>1 DEF Reply
<1>4. /\ GivenLog' = Append(GivenLog, Given(i)')
      /\ replies'[i] = r /\ inbox'[i] = inbox[i]
  BY <1>2, GiveStep
<1>5. Lookup(inbox[i]) \notin {"handleKeyUpdate", "handleKeySign"}
  BY LookupIsKey DEF HandleState
<1>6. Given(i)' = [what |-> "reported", key |-> privateKey, text |-> None]
  BY <1>3, <1>4, <1>5 DEF Given, Installed, Signed
<1>7. QED
  BY <1>4, <1>6 DEF HandleState, Box!Report, Box!Give

LEMMA EmptyLog ==
  ASSUME locked' = <<>>, mu' = 0 PROVE GivenLog' = <<>>
<1>1. Settled' = 0
  BY DEF Settled
<1>2. QED
  BY <1>1 DEF GivenLog

-----------------------------------------------------------------------------
(* The Go extension implements the box: requests that race for the mutex,  *)
(* and key updates cut in two by the decryption, take effect one at a time *)
(* in the order of the mutex.                                              *)
THEOREM ExtensionImplementsBox == Spec => IsKeyBox
<1>1. Init => Box!Init
  <2>1. SUFFICES ASSUME Init PROVE Box!Init
    OBVIOUS
  <2>2. Settled = 0
    BY <2>1 DEF Init, Settled
  <2>3. GivenLog = <<>>
    BY <2>2 DEF GivenLog
  <2>4. QED
    BY <2>1, <2>3 DEF Init, Box!Init
<1>2. IInv /\ IInv' /\ [Next]_vars => [Box!Next]_(Box!vars)
  <2> SUFFICES ASSUME IInv, IInv', [Next]_vars
               PROVE  Box!Next \/ UNCHANGED Box!vars
    OBVIOUS
  <2>1. ASSUME NEW r, NEW log, Arrives(r, log) PROVE UNCHANGED Box!vars
    BY <2>1, ArrivalIsQuiet, QuietStutters DEF Box!vars
  <2>2. ASSUME NEW i \in 1 .. MaxRequests, HandleKeyUpdate(i)
        PROVE  Box!Next \/ UNCHANGED Box!vars
    <3>1. ASSUME NEW log \in Errors, Answer(i, Reply(log)), UNCHANGED mu
          PROVE  Box!Refuse
      <4>1. Settles(i, Reply(log))
        BY <2>2, <3>1, HandlersSettle DEF HandleKeyUpdate
      <4>2. QED
        BY <4>1, ErrorRefuses
    <3>2. CASE mu' = i /\ UNCHANGED replies
      BY <2>2, <3>2, AskingIsQuiet, QuietStutters DEF HandleKeyUpdate, Box!vars
    <3>3. QED
      BY <2>2, <3>1, <3>2 DEF HandleKeyUpdate, UpdateRefused, Errors, Box!Next
  <2>3. CASE DecryptFails
    BY <2>3, HandlersSettle, ErrorRefuses DEF Errors, Box!Next
  <2>4. CASE Decrypts
    BY <2>4, DecryptedInstalls DEF Box!Next
  <2>5. ASSUME NEW i \in 1 .. MaxRequests, HandleKeySign(i) PROVE Box!Next
    BY <2>5, SignSigns DEF Box!Next
  <2>6. ASSUME NEW i \in 1 .. MaxRequests, HandleState(i) PROVE Box!Next
    BY <2>6, StateReports DEF Box!Next
  <2>7. CASE Exit
    BY <2>7, EmptyLog DEF Exit, Box!Forget, Box!Next
  <2>8. CASE Boot \/ Restart \/ UNCHANGED vars
    <3>1. UNCHANGED <<privateKey, inbox, replies, mu, locked>>
      BY <2>8 DEF Boot, Restart, vars
    <3>2. Settled' = Settled /\ Kept(Settled + 1)
      BY <3>1 DEF Settled, Kept
    <3>3. QED
      BY <3>1, <3>2, QuietStutters DEF Box!vars
  <2>9. QED
    BY <2>1, <2>2, <2>3, <2>4, <2>5, <2>6, <2>7, <2>8
    DEF Next, ReceiveAction, ReceiveState, ReceiveMalformed
<1>3. QED
  BY <1>1, <1>2, InductiveInvariant, PTL DEF Spec, IsKeyBox, Box!Spec
=============================================================================
