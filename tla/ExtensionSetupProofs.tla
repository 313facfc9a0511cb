------------------------ MODULE ExtensionSetupProofs ------------------------
(* Proofs about ExtensionSetup, for every value of its constants. *)
EXTENDS ExtensionSetup, TLAPS

Kinds == {"deploy", "register", "setExtensionId"} \cup Permissions

Tx == [kind : Kinds, arg : Nat, receipt : {"pending", "ok", "reverted"},
       logs : Nat]

Extension == [sender : Nat, allowed : SUBSET Permissions]

Places == {"idle", "deploy", "register", "write", "bind"} \cup Permissions

Setting == {"deploy", "register", "write"} \cup Permissions

Names(e, s) == e \in DOMAIN extensions /\ extensions[e].sender = s

IsFirst(e, s) ==
  Names(e, s) /\ \A d \in 1 .. e - 1 : extensions[d].sender # s

(* What a transaction says is so. *)
Sound(tx) ==
  /\ tx.kind = "deploy" =>
       tx.arg = 0 /\ (tx.receipt = "ok" => tx.logs \in DOMAIN senders)
  /\ tx.kind \in {"register", "setExtensionId"} => tx.arg \in DOMAIN senders
  /\ tx.kind = "register" /\ tx.receipt = "ok" => Names(tx.logs, tx.arg)
  /\ tx.kind \in Permissions =>
       /\ tx.arg \in DOMAIN extensions
       /\ tx.receipt = "ok" => tx.kind \in extensions[tx.arg].allowed

(* The chain: each extension was registered by a transaction of its own,   *)
(* one of those that name a sender is the first (said here because it      *)
(* takes induction to see), and a sender is bound to one that names it.    *)
ChainInv ==
  /\ txs \in Seq(Tx) /\ senders \in Seq(Nat) /\ extensions \in Seq(Extension)
  /\ \A i \in DOMAIN txs : Sound(txs[i])
  /\ \A e \in DOMAIN extensions :
       /\ extensions[e].sender \in DOMAIN senders
       /\ \E i \in DOMAIN txs : /\ txs[i].kind = "register"
                                /\ txs[i].receipt = "ok" /\ txs[i].logs = e
       /\ \E d \in DOMAIN extensions : IsFirst(d, extensions[e].sender)
  /\ \A s \in DOMAIN senders : senders[s] # 0 => Names(senders[s], s)

(* What a run has asked for by the time it is at this place. *)
SoFar ==
  CASE pc = "machineOwners" -> {}
    [] pc = "projectOwners" -> {"machineOwners"}
    [] pc = "keyType" -> {"machineOwners", "projectOwners"}
    [] pc = "write" -> Permissions
    [] OTHER -> {}

Awaited(tx) ==
  /\ pc \in Permissions \cup {"deploy", "register"} => tx.kind = pc
  /\ pc = "register" => tx.arg = run.sender
  /\ pc \in Permissions => tx.arg = run.extension
  /\ pc = "bind" => tx.kind = "setExtensionId"
  /\ pc \notin {"idle", "write"}

RunRecord ==
  [script : {"none", "pre-build", "by hand", "run-test"},
   sender : Nat, extension : Nat]

RunType ==
  /\ run \in RunRecord
  /\ run.sender \in Ids(senders) /\ run.extension \in Ids(extensions)
  /\ pc \in Places /\ awaiting \in 0 .. Len(txs)
  /\ forced \in 0 .. MaxForced /\ byHand \in 0 .. MaxByHand
  /\ faults \in 0 .. MaxFaults

(* What the run under way, and the file, name is there. *)
RunInv ==
  /\ awaiting # 0 => Awaited(txs[awaiting])
  /\ pc = "register" => run.sender \in DOMAIN senders
  /\ pc \in Permissions \cup {"write"} =>
       /\ Names(run.extension, run.sender)
       /\ SoFar \subseteq extensions[run.extension].allowed
  /\ HasExtension => /\ Names(config.extension, config.sender)
                     /\ extensions[config.extension].allowed = Permissions

IsRegistered(s) ==
  \E i \in DOMAIN txs : txs[i].kind = "register" /\ txs[i].arg = s

(* A sender is registered once, unless by hand. *)
OnceInv ==
  byHand = 0 =>
    /\ \A i, j \in DOMAIN txs :
         txs[i].kind = "register" /\ txs[j].kind = "register"
         /\ txs[i].arg = txs[j].arg => i = j
    /\ pc = "deploy" /\ awaiting # 0 /\ txs[awaiting].receipt = "ok" =>
         ~ IsRegistered(txs[awaiting].logs)
    /\ pc = "register" /\ awaiting = 0 => ~ IsRegistered(run.sender)

(* The machine, and that nothing leaves the file while nothing is forced.  *)
NodeInv ==
  /\ node \in Ids(extensions)
  /\ record \in [extension : Nat,
                 status : {"NONE", "INITIALIZED", "PRODUCTION", "PAUSED"}]
  /\ record # NoRecord => record.extension \in DOMAIN extensions
  /\ odd = <<0, 0>> =>
       /\ node # 0 => HasExtension /\ config.extension = node
       /\ record # NoRecord => record.extension = node
       /\ pc \in Setting => ~ HasExtension

IInv == ChainInv /\ RunType /\ RunInv /\ OnceInv /\ NodeInv

-----------------------------------------------------------------------------
(* The chain.                                                              *)

(* What a step may do to it: everything there stays, a sender unbound may  *)
(* be bound.                                                               *)
Grow ==
  /\ \A i \in DOMAIN txs :
       /\ i \in DOMAIN txs' /\ txs'[i].kind = txs[i].kind
       /\ txs'[i].arg = txs[i].arg
       /\ txs[i].receipt = "ok" => txs'[i] = txs[i]
  /\ \A e \in DOMAIN extensions :
       /\ e \in DOMAIN extensions' /\ extensions'[e].sender = extensions[e].sender
       /\ extensions[e].allowed \subseteq extensions'[e].allowed
  /\ DOMAIN senders \subseteq DOMAIN senders'
  /\ Len(txs) <= Len(txs') /\ Len(senders) <= Len(senders')
  /\ Len(extensions) <= Len(extensions')

LEMMA Lengths ==
  ASSUME ChainInv
  PROVE  /\ DOMAIN txs = 1 .. Len(txs) /\ Len(txs) \in Nat
         /\ DOMAIN senders = 1 .. Len(senders) /\ Len(senders) \in Nat
         /\ DOMAIN extensions = 1 .. Len(extensions) /\ Len(extensions) \in Nat
         /\ \A i \in DOMAIN txs : txs[i] \in Tx
         /\ \A e \in DOMAIN extensions : extensions[e] \in Extension
         /\ \A s \in DOMAIN senders : senders[s] \in Nat
BY DEF ChainInv

LEMMA SameChain ==
  ASSUME ChainInv, UNCHANGED <<txs, senders, extensions>>
  PROVE  ChainInv' /\ Grow
<1>1. Grow
  BY Lengths DEF Grow
<1>2. QED
  BY <1>1 DEF ChainInv, Sound, Names, IsFirst

(* One is appended. *)
Appended(kind, arg) ==
  /\ txs' \in Seq(Tx) /\ Len(txs') = Len(txs) + 1
  /\ DOMAIN txs' = DOMAIN txs \cup {Len(txs) + 1}
  /\ Len(txs) + 1 \notin DOMAIN txs
  /\ txs'[Len(txs) + 1] = [kind |-> kind, arg |-> arg, receipt |-> "pending",
                           logs |-> 0]
  /\ \A i \in DOMAIN txs : txs'[i] = txs[i]

LEMMA SubmitAppends ==
  ASSUME ChainInv, NEW kind \in Kinds, NEW arg \in Nat, Submit(kind, arg)
  PROVE  Appended(kind, arg) /\ awaiting' = Len(txs) + 1
<1> DEFINE r == [kind |-> kind, arg |-> arg, receipt |-> "pending", logs |-> 0]
<1>1. r \in Tx
  BY DEF Tx
<1>2. txs \in Seq(Tx) /\ DOMAIN txs = 1 .. Len(txs) /\ Len(txs) \in Nat
  BY Lengths DEF ChainInv
<1>3. txs' = Append(txs, r) /\ awaiting' = Len(txs) + 1
  BY DEF Submit
<1> HIDE DEF r
<1>4. /\ txs' \in Seq(Tx) /\ Len(txs') = Len(txs) + 1
      /\ DOMAIN txs' = DOMAIN txs \cup {Len(txs) + 1}
      /\ Len(txs) + 1 \notin DOMAIN txs
      /\ txs'[Len(txs) + 1] = r
      /\ \A i \in DOMAIN txs : txs'[i] = txs[i]
  BY <1>1, <1>2, <1>3
<1>5. QED
  BY <1>3, <1>4 DEF Appended, r

(* A transaction may be appended that names what there is. *)
LEMMA SubmitChain ==
  ASSUME ChainInv, NEW kind \in Kinds, NEW arg \in Nat, Submit(kind, arg),
         UNCHANGED <<senders, extensions>>,
         kind = "deploy" => arg = 0,
         kind \in {"register", "setExtensionId"} => arg \in DOMAIN senders,
         kind \in Permissions => arg \in DOMAIN extensions
  PROVE  ChainInv' /\ Grow
<1>1. Appended(kind, arg)
  BY SubmitAppends
<1>2. PICK r : r = [kind |-> kind, arg |-> arg, receipt |-> "pending", logs |-> 0]
  OBVIOUS
<1>3. Sound(r)
  BY <1>2 DEF Sound
<1>4. \A i \in DOMAIN txs' : Sound(txs'[i])
  BY <1>1, <1>2, <1>3 DEF Appended, ChainInv
<1>5. \A e \in DOMAIN extensions :
        \E i \in DOMAIN txs' : /\ txs'[i].kind = "register"
                               /\ txs'[i].receipt = "ok" /\ txs'[i].logs = e
  <2> TAKE e \in DOMAIN extensions
  <2>1. PICK i \in DOMAIN txs : /\ txs[i].kind = "register"
                                /\ txs[i].receipt = "ok" /\ txs[i].logs = e
    BY DEF ChainInv
  <2>2. i \in DOMAIN txs' /\ txs'[i] = txs[i]
    BY <1>1 DEF Appended
  <2>3. QED
    BY <2>1, <2>2
<1>6. Grow
  BY <1>1, Lengths DEF Appended, Grow
<1>7. txs' \in Seq(Tx)
  BY <1>1 DEF Appended
<1>8. \A i \in DOMAIN txs' : Sound(txs[i])'
  BY <1>4 DEF Sound, Names
<1>9. /\ senders \in Seq(Nat) /\ extensions \in Seq(Extension)
      /\ \A e \in DOMAIN extensions :
           /\ extensions[e].sender \in DOMAIN senders
           /\ \E d \in DOMAIN extensions : IsFirst(d, extensions[e].sender)
      /\ \A s \in DOMAIN senders : senders[s] # 0 => Names(senders[s], s)
  BY DEF ChainInv
<1>10. \A e \in DOMAIN extensions' :
         \E d \in DOMAIN extensions' : IsFirst(d, extensions[e].sender)'
  <2> TAKE e \in DOMAIN extensions'
  <2>1. PICK d \in DOMAIN extensions : IsFirst(d, extensions[e].sender)
    BY <1>9
  <2>2. QED
    BY <2>1 DEF Names, IsFirst
<1>11. \A s \in DOMAIN senders' : senders'[s] # 0 => Names(senders[s], s)'
  BY <1>9 DEF Names
<1>12. QED
  BY <1>5, <1>6, <1>7, <1>8, <1>9, <1>10, <1>11 DEF ChainInv

-----------------------------------------------------------------------------
(* Mine.                                                                   *)

(* Transaction i gets this receipt and logs. *)
Gets(i, receipt, logs) ==
  /\ i \in DOMAIN txs /\ txs[i].receipt = "pending"
  /\ txs' \in Seq(Tx) /\ Len(txs') = Len(txs) /\ DOMAIN txs' = DOMAIN txs
  /\ txs'[i].receipt = receipt /\ txs'[i].logs = logs
  /\ \A j \in DOMAIN txs :
       /\ j # i => txs'[j] = txs[j]
       /\ txs'[j].kind = txs[j].kind /\ txs'[j].arg = txs[j].arg

Deploys(i) ==
  /\ txs[i].kind = "deploy" /\ Gets(i, "ok", Len(senders) + 1)
  /\ senders' = Append(senders, 0) /\ UNCHANGED extensions

Registers(i) ==
  /\ txs[i].kind = "register" /\ Gets(i, "ok", Len(extensions) + 1)
  /\ \E granted \in SUBSET Permissions :
       extensions' = Append(extensions,
                            [sender |-> txs[i].arg, allowed |-> granted])
  /\ UNCHANGED senders

Permits(i) ==
  /\ txs[i].kind \in Permissions /\ Gets(i, "ok", 0)
  /\ extensions' = [extensions EXCEPT ![txs[i].arg].allowed = @ \cup {txs[i].kind}]
  /\ UNCHANGED senders

Binds(i) ==
  /\ txs[i].kind = "setExtensionId"
  /\ \/ /\ Gets(i, "ok", 0) /\ Accepts("setExtensionId", txs[i].arg)
        /\ senders' = [senders EXCEPT ![txs[i].arg] = FirstNaming(txs[i].arg)]
     \/ Gets(i, "reverted", 0) /\ UNCHANGED senders
  /\ UNCHANGED extensions

LEMMA MineIs ==
  ASSUME ChainInv, Mine
  PROVE  \E i \in DOMAIN txs : Deploys(i) \/ Registers(i) \/ Permits(i) \/ Binds(i)
<1>1. PICK i \in DOMAIN txs, granted \in {{}, {"machineOwners", "keyType"}} :
        LET tx == txs[i]
            ok == Accepts(tx.kind, tx.arg)
        IN
        /\ tx.receipt = "pending"
        /\ txs' = [txs EXCEPT ![i].receipt = IF ok THEN "ok" ELSE "reverted",
                              ![i].logs = CASE tx.kind = "deploy" -> Len(senders) + 1
                                            [] tx.kind = "register" -> Len(extensions) + 1
                                            [] OTHER -> 0]
        /\ senders' =
             CASE tx.kind = "deploy" -> Append(senders, 0)
               [] tx.kind = "setExtensionId" /\ ok ->
                    [senders EXCEPT ![tx.arg] = FirstNaming(tx.arg)]
               [] OTHER -> senders
        /\ extensions' =
             CASE tx.kind = "register" ->
                    Append(extensions, [sender |-> tx.arg, allowed |-> granted])
               [] tx.kind \in Permissions ->
                    [extensions EXCEPT ![tx.arg].allowed = @ \cup {tx.kind}]
               [] OTHER -> extensions
  BY DEF Mine
<1>2. PICK kind, arg : kind = txs[i].kind /\ arg = txs[i].arg
  OBVIOUS
<1>3. PICK ok \in BOOLEAN : ok <=> Accepts(kind, arg)
  OBVIOUS
<1>4. PICK r, l : /\ r = IF ok THEN "ok" ELSE "reverted"
                  /\ l = CASE kind = "deploy" -> Len(senders) + 1
                           [] kind = "register" -> Len(extensions) + 1
                           [] OTHER -> 0
  OBVIOUS
<1>5. l \in Nat /\ r \in {"ok", "reverted"}
  BY <1>4, Lengths
<1>6. txs' = [txs EXCEPT ![i].receipt = r, ![i].logs = l]
  BY <1>1, <1>2, <1>3, <1>4
<1>7. Gets(i, r, l)
  <2>1. PICK t : t = txs[i]
    OBVIOUS
  <2>2. PICK q : q = [t EXCEPT !.receipt = r, !.logs = l]
    OBVIOUS
  <2>3. t \in Tx
    BY <2>1, Lengths
  <2>4. /\ q \in Tx /\ q.kind = t.kind /\ q.arg = t.arg
        /\ q.receipt = r /\ q.logs = l
    BY <1>5, <2>2, <2>3 DEF Tx
  <2>5. txs' = [txs EXCEPT ![i] = q]
    BY <1>6, <2>1, <2>2
  <2>6. txs \in Seq(Tx) /\ DOMAIN txs = 1 .. Len(txs) /\ Len(txs) \in Nat
    BY Lengths DEF ChainInv
  <2>7. /\ txs' \in Seq(Tx) /\ Len(txs') = Len(txs) /\ DOMAIN txs' = DOMAIN txs
        /\ txs'[i] = q /\ \A j \in DOMAIN txs : j # i => txs'[j] = txs[j]
    BY <2>4, <2>5, <2>6
  <2>8. QED
    BY <1>1, <2>1, <2>4, <2>7 DEF Gets
<1>8. kind \in Kinds
  BY <1>2, Lengths DEF Tx
<1>9. kind # "setExtensionId" => ok
  BY <1>3 DEF Accepts
<1>10. CASE kind = "deploy"
  BY <1>1, <1>2, <1>4, <1>7, <1>9, <1>10 DEF Deploys, Permissions
<1>11. CASE kind = "register"
  BY <1>1, <1>2, <1>4, <1>7, <1>9, <1>11 DEF Registers, Permissions
<1>12. CASE kind \in Permissions
  BY <1>1, <1>2, <1>4, <1>7, <1>9, <1>12 DEF Permits, Permissions
<1>13. CASE kind = "setExtensionId"
  BY <1>1, <1>2, <1>3, <1>4, <1>7, <1>13 DEF Binds, Permissions
<1>14. QED
  BY <1>8, <1>10, <1>11, <1>12, <1>13 DEF Kinds

LEMMA FirstIs ==
  ASSUME ChainInv, NEW s, FirstNaming(s) # 0
  PROVE  Names(FirstNaming(s), s)
<1>1. PICK e \in DOMAIN extensions : extensions[e].sender = s
  BY DEF FirstNaming
<1>2. PICK d \in DOMAIN extensions : IsFirst(d, s)
  BY <1>1 DEF ChainInv
<1>3. QED
  BY <1>1, <1>2 DEF FirstNaming, IsFirst, Names

LEMMA GetsGrow ==
  ASSUME ChainInv, NEW i, NEW receipt, NEW logs, Gets(i, receipt, logs)
  PROVE  /\ \A j \in DOMAIN txs :
              /\ j \in DOMAIN txs' /\ txs'[j].kind = txs[j].kind
              /\ txs'[j].arg = txs[j].arg
              /\ txs[j].receipt = "ok" => txs'[j] = txs[j]
         /\ Len(txs) <= Len(txs')
BY Lengths DEF Gets

(* The invariant of the chain from that of its parts. *)
LEMMA ChainParts ==
  ASSUME ChainInv, Grow, NEW i \in DOMAIN txs, NEW receipt, NEW logs,
         Gets(i, receipt, logs), Sound(txs[i])',
         senders' \in Seq(Nat), extensions' \in Seq(Extension),
         \A e \in DOMAIN extensions' :
           \/ e \in DOMAIN extensions
           \/ /\ txs[i].kind = "register" /\ receipt = "ok" /\ logs = e
              /\ extensions'[e].sender \in DOMAIN senders
              /\ \E d \in DOMAIN extensions' : IsFirst(d, extensions[e].sender)',
         \A s \in DOMAIN senders' :
           \/ s \in DOMAIN senders /\ senders'[s] = senders[s]
           \/ senders'[s] # 0 => Names(senders[s], s)'
  PROVE  ChainInv'
<1>1. ASSUME NEW j \in DOMAIN txs' PROVE Sound(txs[j])'
  <2>1. CASE j = i
    BY <2>1
  <2>2. CASE j # i
    <3>1. j \in DOMAIN txs /\ txs'[j] = txs[j] /\ Sound(txs[j])
      BY <2>2 DEF Gets, ChainInv
    <3>2. QED
      BY <3>1 DEF Sound, Names, Grow
  <2>3. QED
    BY <2>1, <2>2
<1>2. ASSUME NEW e \in DOMAIN extensions'
      PROVE  /\ extensions'[e].sender \in DOMAIN senders'
             /\ \E j \in DOMAIN txs' : /\ txs'[j].kind = "register"
                                       /\ txs'[j].receipt = "ok"
                                       /\ txs'[j].logs = e
             /\ \E d \in DOMAIN extensions' : IsFirst(d, extensions[e].sender)'
  <2>1. CASE e \in DOMAIN extensions
    <3>1. PICK j \in DOMAIN txs : /\ txs[j].kind = "register"
                                  /\ txs[j].receipt = "ok" /\ txs[j].logs = e
      BY <2>1 DEF ChainInv
    <3>2. j \in DOMAIN txs' /\ txs'[j] = txs[j]
      BY <3>1 DEF Grow
    <3>3. PICK d \in DOMAIN extensions : IsFirst(d, extensions[e].sender)
      BY <2>1 DEF ChainInv
    <3>4. /\ extensions'[e].sender = extensions[e].sender
          /\ extensions[e].sender \in DOMAIN senders
      BY <2>1 DEF ChainInv, Grow
    <3>5. \A c \in 1 .. d - 1 : c \in DOMAIN extensions
      BY <3>3, Lengths
    <3>6. IsFirst(d, extensions[e].sender)'
      BY <3>3, <3>4, <3>5 DEF IsFirst, Names, Grow
    <3>7. QED
      BY <3>1, <3>2, <3>3, <3>4, <3>6 DEF Grow
  <2>2. CASE e \notin DOMAIN extensions
    <3>1. /\ txs'[i].kind = "register" /\ txs'[i].receipt = "ok"
          /\ txs'[i].logs = e /\ i \in DOMAIN txs'
      BY <2>2 DEF Gets
    <3>2. QED
      BY <2>2, <3>1 DEF Grow
  <2>3. QED
    BY <2>1, <2>2
<1>3. ASSUME NEW s \in DOMAIN senders', senders'[s] # 0
      PROVE  Names(senders[s], s)'
  <2>1. CASE s \in DOMAIN senders /\ senders'[s] = senders[s]
    <3>1. Names(senders[s], s)
      BY <1>3, <2>1 DEF ChainInv
    <3>2. QED
      BY <2>1, <3>1 DEF Names, Grow
  <2>2. QED
    BY <1>3, <2>1
<1>4. txs' \in Seq(Tx)
  BY DEF Gets
<1>5. QED
  BY <1>1, <1>2, <1>3, <1>4 DEF ChainInv

LEMMA DeploysChain ==
  ASSUME ChainInv, NEW i \in DOMAIN txs, Deploys(i) PROVE ChainInv' /\ Grow
<1>1. PICK n \in Nat : n = Len(senders)
  BY Lengths
<1>2. /\ senders' \in Seq(Nat) /\ Len(senders') = n + 1
      /\ DOMAIN senders = 1 .. n /\ DOMAIN senders' = 1 .. n + 1
      /\ senders'[n + 1] = 0
      /\ \A s \in DOMAIN senders : senders'[s] = senders[s]
  BY <1>1 DEF Deploys, ChainInv
<1>3. Gets(i, "ok", n + 1) /\ txs[i].kind = "deploy" /\ UNCHANGED extensions
  BY <1>1 DEF Deploys
<1>4. Grow
  BY <1>1, <1>2, <1>3, GetsGrow, Lengths DEF Grow
<1>5. Sound(txs[i])'
  <2>1. txs[i].arg = 0
    BY <1>3 DEF ChainInv, Sound
  <2>2. /\ txs'[i].kind = "deploy" /\ txs'[i].arg = 0
        /\ txs'[i].logs \in DOMAIN senders'
    BY <1>2, <1>3, <2>1 DEF Gets
  <2>3. QED
    BY <2>2 DEF Sound, Permissions
<1>6. extensions' \in Seq(Extension) /\ DOMAIN extensions' = DOMAIN extensions
  BY <1>3 DEF ChainInv
<1>7. \A s \in DOMAIN senders' :
        (s \in DOMAIN senders /\ senders'[s] = senders[s]) \/ senders'[s] = 0
  BY <1>2
<1>8. QED
  BY <1>2, <1>3, <1>4, <1>5, <1>6, <1>7, ChainParts

LEMMA RegistersChain ==
  ASSUME ChainInv, NEW i \in DOMAIN txs, Registers(i) PROVE ChainInv' /\ Grow
<1>1. PICK n, s, r, granted :
        /\ n = Len(extensions) /\ s = txs[i].arg
        /\ r = [sender |-> s, allowed |-> granted]
        /\ extensions' = Append(extensions, r)
        /\ granted \in SUBSET Permissions
  BY DEF Registers
<1>2. /\ n \in Nat /\ Gets(i, "ok", n + 1) /\ txs[i].kind = "register"
      /\ UNCHANGED senders
  BY <1>1, Lengths DEF Registers
<1>3. s \in DOMAIN senders /\ s \in Nat
  <2>1. Sound(txs[i])
    BY DEF ChainInv
  <2>2. s \in DOMAIN senders
    BY <1>1, <1>2, <2>1 DEF Sound
  <2>3. QED
    BY <2>2, Lengths
<1>4. r \in Extension /\ r.sender = s
  BY <1>1, <1>3 DEF Extension
<1>5. extensions \in Seq(Extension)
  BY DEF ChainInv
<1>6. /\ extensions' \in Seq(Extension) /\ Len(extensions') = n + 1
      /\ DOMAIN extensions = 1 .. n /\ DOMAIN extensions' = 1 .. n + 1
      /\ extensions'[n + 1] = r /\ n \in Nat
      /\ \A e \in DOMAIN extensions : extensions'[e] = extensions[e]
  BY <1>1, <1>2, <1>4, <1>5
<1>7. Grow
  BY <1>1, <1>2, <1>6, GetsGrow, Lengths DEF Grow
<1>8. Sound(txs[i])'
  <2>1. /\ txs'[i].kind = "register" /\ txs'[i].arg = s /\ txs'[i].logs = n + 1
    BY <1>1, <1>2 DEF Gets
  <2>2. QED
    BY <1>2, <1>3, <1>4, <1>6, <2>1 DEF Sound, Permissions, Names
<1>9. \E d \in DOMAIN extensions' : IsFirst(d, s)'
  <2>1. CASE \E e \in DOMAIN extensions : extensions[e].sender = s
    <3>1. PICK d \in DOMAIN extensions : IsFirst(d, s)
      BY <2>1 DEF ChainInv
    <3>2. \A c \in 1 .. d - 1 : c \in DOMAIN extensions
      BY <1>6, <3>1
    <3>3. QED
      BY <1>6, <3>1, <3>2 DEF IsFirst, Names
  <2>2. CASE ~ \E e \in DOMAIN extensions : extensions[e].sender = s
    <3>1. \A c \in 1 .. n : extensions'[c].sender # s
      BY <1>6, <2>2
    <3>2. IsFirst(n + 1, s)'
      BY <1>4, <1>6, <3>1 DEF IsFirst, Names
    <3>3. QED
      BY <1>6, <3>2
  <2>3. QED
    BY <2>1, <2>2
<1>10. \A e \in DOMAIN extensions' :
         \/ e \in DOMAIN extensions
         \/ n + 1 = e /\ extensions'[e].sender = s
  BY <1>4, <1>6
<1>11. \A e \in DOMAIN extensions' :
         \/ e \in DOMAIN extensions
         \/ /\ n + 1 = e /\ extensions'[e].sender \in DOMAIN senders
            /\ \E d \in DOMAIN extensions' : IsFirst(d, extensions[e].sender)'
  BY <1>3, <1>9, <1>10 DEF IsFirst, Names
<1>12. senders' \in Seq(Nat) /\ \A t \in DOMAIN senders' :
         t \in DOMAIN senders /\ senders'[t] = senders[t]
  BY <1>2 DEF ChainInv
<1>13. QED
  BY <1>2, <1>6, <1>7, <1>8, <1>11, <1>12, ChainParts

LEMMA PermitsChain ==
  ASSUME ChainInv, NEW i \in DOMAIN txs, Permits(i) PROVE ChainInv' /\ Grow
<1>1. PICK e, kind : e = txs[i].arg /\ kind = txs[i].kind
  OBVIOUS
<1>2. /\ Gets(i, "ok", 0) /\ kind \in Permissions /\ UNCHANGED senders
      /\ extensions' = [extensions EXCEPT ![e].allowed = @ \cup {kind}]
  BY <1>1 DEF Permits
<1>3. e \in DOMAIN extensions /\ extensions \in Seq(Extension)
  BY <1>1, <1>2 DEF ChainInv, Sound
<1>4. PICK r : r = [extensions[e] EXCEPT !.allowed = @ \cup {kind}]
  OBVIOUS
<1>5. /\ r \in Extension /\ r.sender = extensions[e].sender
      /\ r.allowed = extensions[e].allowed \cup {kind}
  BY <1>2, <1>3, <1>4, Lengths DEF Extension
<1>6. extensions' = [extensions EXCEPT ![e] = r]
  BY <1>2, <1>4
<1>7. /\ extensions' \in Seq(Extension) /\ Len(extensions') = Len(extensions)
      /\ DOMAIN extensions' = DOMAIN extensions /\ extensions'[e] = r
      /\ \A d \in DOMAIN extensions : d # e => extensions'[d] = extensions[d]
  BY <1>3, <1>5, <1>6
<1>8. Grow
  BY <1>2, <1>5, <1>7, GetsGrow, Lengths DEF Grow
<1>9. Sound(txs[i])'
  <2>1. txs'[i].kind = kind /\ txs'[i].arg = e
    BY <1>1, <1>2 DEF Gets
  <2>2. QED
    BY <1>2, <1>3, <1>5, <1>7, <2>1 DEF Sound, Permissions
<1>10. senders' \in Seq(Nat) /\ \A t \in DOMAIN senders' :
         t \in DOMAIN senders /\ senders'[t] = senders[t]
  BY <1>2 DEF ChainInv
<1>11. QED
  BY <1>2, <1>7, <1>8, <1>9, <1>10, ChainParts

LEMMA BindsChain ==
  ASSUME ChainInv, NEW i \in DOMAIN txs, Binds(i) PROVE ChainInv' /\ Grow
<1>1. PICK s, e, receipt : s = txs[i].arg /\ e = FirstNaming(s)
                           /\ receipt \in {"ok", "reverted"} /\ Gets(i, receipt, 0)
  BY DEF Binds
<1>2. txs[i].kind = "setExtensionId" /\ UNCHANGED extensions
  BY DEF Binds
<1>3. \/ senders' = [senders EXCEPT ![s] = e] /\ e # 0
      \/ UNCHANGED senders
  BY <1>1 DEF Binds, Accepts
<1>4. s \in DOMAIN senders /\ senders \in Seq(Nat)
  BY <1>1, <1>2 DEF ChainInv, Sound
<1>5. e # 0 => Names(e, s) /\ e \in Nat
  BY <1>1, FirstIs, Lengths DEF Names
<1>6. /\ senders' \in Seq(Nat) /\ Len(senders') = Len(senders)
      /\ DOMAIN senders' = DOMAIN senders
      /\ \A t \in DOMAIN senders :
           senders'[t] = senders[t] \/ (t = s /\ senders'[t] = e /\ e # 0)
  <2>1. CASE senders' = [senders EXCEPT ![s] = e] /\ e # 0
    BY <1>4, <1>5, <2>1, Lengths
  <2>2. CASE UNCHANGED senders
    BY <1>4, <2>2, Lengths
  <2>3. QED
    BY <1>3, <2>1, <2>2
<1>7. Grow
  BY <1>1, <1>2, <1>6, GetsGrow, Lengths DEF Grow
<1>8. Sound(txs[i])'
  <2>1. txs'[i].kind = "setExtensionId" /\ txs'[i].arg = s
    BY <1>1, <1>2 DEF Gets
  <2>2. QED
    BY <1>4, <1>6, <2>1 DEF Sound, Permissions
<1>9. \A t \in DOMAIN senders' :
        \/ t \in DOMAIN senders /\ senders'[t] = senders[t]
        \/ senders'[t] # 0 => Names(senders[t], t)'
  BY <1>2, <1>5, <1>6 DEF Names
<1>10. extensions' \in Seq(Extension) /\ DOMAIN extensions' = DOMAIN extensions
  BY <1>2 DEF ChainInv
<1>11. QED
  BY <1>1, <1>6, <1>7, <1>8, <1>9, <1>10, ChainParts

LEMMA MineChain ==
  ASSUME ChainInv, Mine PROVE ChainInv' /\ Grow
BY MineIs, DeploysChain, RegistersChain, PermitsChain, BindsChain

-----------------------------------------------------------------------------
(* The steps, by what they do to the run.                                  *)

(* A run sends a transaction of the kind its place is named for. *)
Sends(kind, arg) ==
  /\ Submit(kind, arg) /\ kind \in Kinds \cap Places /\ arg \in Nat
  /\ pc = kind /\ awaiting = 0
  /\ UNCHANGED <<run, pc, world, config, faults, odd>>
  /\ kind = "deploy" => arg = 0
  /\ kind = "register" => arg = run.sender /\ arg \in DOMAIN senders
  /\ kind \in Permissions => arg = run.extension /\ arg \in DOMAIN extensions

LEMMA SendersSend ==
  ASSUME ChainInv, RunType, RunInv,
         \/ DeployContract \/ RegisterExtension
         \/ \E step \in Permissions : Allow(step)
  PROVE  \E kind, arg : Sends(kind, arg)
<1>1. run.sender \in Nat /\ run.extension \in Nat
  BY DEF RunType, RunRecord
<1>2. CASE DeployContract
  <2>1. Sends("deploy", 0)
    BY <1>2 DEF DeployContract, At, Sends, Kinds, Places, Permissions
  <2>2. QED
    BY <2>1
<1>3. CASE RegisterExtension
  <2>1. Sends("register", run.sender)
    BY <1>1, <1>3 DEF RegisterExtension, At, Sends, Kinds, Places, Permissions, RunInv
  <2>2. QED
    BY <2>1
<1>4. ASSUME NEW step \in Permissions, Allow(step)
      PROVE  \E kind, arg : Sends(kind, arg)
  <2>1. Names(run.extension, run.sender)
    BY <1>4 DEF Allow, At, RunInv
  <2>2. Sends(step, run.extension)
    BY <1>1, <1>4, <2>1 DEF Allow, At, Sends, Kinds, Places, Permissions, Names
  <2>3. QED
    BY <2>2
<1>5. QED
  BY <1>2, <1>3, <1>4

(* run-test sends setExtensionId. *)
LEMMA BindSends ==
  ASSUME ChainInv, RunInv, SetExtensionId
  PROVE  /\ Appended("setExtensionId", config.sender)
         /\ awaiting' = Len(txs) + 1 /\ ChainInv' /\ Grow
         /\ config.sender \in DOMAIN senders
<1>1. /\ Submit("setExtensionId", config.sender) /\ HasExtension
      /\ UNCHANGED <<senders, extensions>>
  BY DEF SetExtensionId, world
<1>2. Names(config.extension, config.sender)
  BY <1>1 DEF RunInv
<1>3. config.sender \in DOMAIN senders
  BY <1>2 DEF Names, ChainInv
<1>4. config.sender \in Nat
  BY <1>3, Lengths
<1>5. ChainInv' /\ Grow
  BY <1>1, <1>3, <1>4, SubmitChain DEF Kinds, Permissions
<1>6. QED
  BY <1>1, <1>3, <1>4, <1>5, SubmitAppends DEF Kinds

(* A run gets its answer, or finds nothing to ask for, and goes on. *)
Advances ==
  \/ ContractDeployed \/ ExtensionRegistered
  \/ \E step \in Permissions : AlreadyAllowed(step) \/ AllowMined(step)

(* A run is over. *)
Stops ==
  WriteConfig \/ CrashInWrite \/ ExtensionIdSet \/ WaitFails \/ Interrupted

(* A run begins. *)
Starts == PreBuild \/ PreBuildForced \/ RegisterByHand

(* The machine. *)
Machine == StartServices \/ RegisterTee \/ ToProduction \/ Pause

LEMMA NextIs ==
  ASSUME [Next]_vars, ChainInv, RunType, RunInv
  PROVE  \/ Mine \/ Advances \/ Stops \/ Starts \/ Machine \/ SetExtensionId
         \/ \E kind, arg : Sends(kind, arg)
         \/ UNCHANGED vars
BY SendersSend DEF Next, SetupTools, Advances, Stops, Starts, Machine

LEMMA ChainStep ==
  ASSUME ChainInv, RunType, RunInv, [Next]_vars PROVE ChainInv' /\ Grow
<1>1. CASE Mine
  BY <1>1, MineChain
<1>2. CASE Advances \/ Stops \/ Starts \/ Machine \/ UNCHANGED vars
  <2>1. UNCHANGED <<txs, senders, extensions>>
    BY <1>2
    DEF Advances, Stops, Starts, Machine, ContractDeployed, ExtensionRegistered,
        AlreadyAllowed, AllowMined, WriteConfig, CrashInWrite, ExtensionIdSet,
        WaitFails, Interrupted, PreBuild, PreBuildForced, RegisterByHand, Begins,
        StartServices, RegisterTee, ToProduction, Pause, world, vars
  <2>2. QED
    BY <2>1, SameChain
<1>3. CASE SetExtensionId
  BY <1>3, BindSends
<1>4. ASSUME NEW kind, NEW arg, Sends(kind, arg) PROVE ChainInv' /\ Grow
  BY <1>4, SubmitChain DEF Sends, Kinds, Places, Permissions, world
<1>5. QED
  BY <1>1, <1>2, <1>3, <1>4, NextIs

-----------------------------------------------------------------------------
(* The run under way, and the file.                                        *)

LEMMA Faults ==
  ASSUME RunType, Fault \/ UNCHANGED faults PROVE faults' \in 0 .. MaxFaults
<1>1. faults \in 0 .. MaxFaults
  BY DEF RunType
<1>2. QED
  BY <1>1, SetupAssumption DEF Fault

LEMMA NoRunType ==
  NoRun \in RunRecord /\ NoRun.sender = 0 /\ NoRun.extension = 0
BY DEF NoRun, RunRecord

(* The transaction waited for was mined and accepted. *)
LEMMA AwaitedIs ==
  ASSUME ChainInv, RunType, RunInv, NEW where, Mined(where)
  PROVE  /\ awaiting \in DOMAIN txs /\ txs[awaiting].receipt = "ok"
         /\ Awaited(txs[awaiting]) /\ Sound(txs[awaiting]) /\ pc = where
<1>1. awaiting \in DOMAIN txs
  <2>1. awaiting \in 0 .. Len(txs)
    BY DEF RunType
  <2>2. QED
    BY <2>1, Lengths DEF Mined
<1>2. QED
  BY <1>1 DEF Mined, RunInv, ChainInv

(* A run goes on from place to place with more and more done. *)
LEMMA AdvancesTo ==
  ASSUME ChainInv, RunType, RunInv, Advances
  PROVE  /\ pc # "idle" /\ pc' \in Places \ {"idle", "deploy", "bind"}
         /\ awaiting' = 0 /\ run' \in RunRecord
         /\ UNCHANGED <<txs, world, config, faults, odd>>
         /\ run'.script = run.script
         /\ pc' = "register" => /\ Mined("deploy") /\ run'.sender = txs[awaiting].logs
                                /\ run'.sender \in DOMAIN senders
                                /\ run'.extension = run.extension
         /\ pc' # "register" => /\ Names(run'.extension, run'.sender)
                                /\ pc \in Setting
                                /\ SoFar' \subseteq extensions[run'.extension].allowed
<1>1. run \in RunRecord
  BY DEF RunType, RunRecord
<1>2. CASE ContractDeployed
  <2>1. txs[awaiting].logs \in DOMAIN senders
    BY <1>2, AwaitedIs DEF ContractDeployed, Awaited, Sound
  <2>2. txs[awaiting].logs \in Nat
    BY <2>1, Lengths
  <2>3. QED
    BY <1>1, <1>2, <2>1, <2>2 DEF ContractDeployed, RunRecord, Places, Mined
<1>3. CASE ExtensionRegistered
  <2>1. /\ Names(txs[awaiting].logs, run.sender) /\ pc = "register"
    BY <1>3, AwaitedIs DEF ExtensionRegistered, Awaited, Sound
  <2>2. txs[awaiting].logs \in Nat
    BY <2>1, Lengths DEF Names
  <2>3. QED
    BY <1>1, <1>3, <2>1, <2>2
    DEF ExtensionRegistered, RunRecord, Places, Permissions, SoFar, Setting
<1>4. ASSUME NEW step \in Permissions, AlreadyAllowed(step) \/ AllowMined(step)
      PROVE  /\ pc = step /\ pc' = After(step) /\ awaiting' = 0
             /\ UNCHANGED <<txs, world, config, faults, odd, run>>
             /\ Names(run.extension, run.sender)
             /\ SoFar \cup {step} \subseteq extensions[run.extension].allowed
  <2>1. /\ pc = step /\ pc' = After(step) /\ awaiting' = 0
        /\ UNCHANGED <<txs, world, config, faults, odd, run>>
    BY <1>4 DEF AlreadyAllowed, AllowMined, At, Mined
  <2>2. /\ Names(run.extension, run.sender)
        /\ SoFar \subseteq extensions[run.extension].allowed
    BY <1>4, <2>1 DEF RunInv
  <2>3. step \in extensions[run.extension].allowed
    <3>1. CASE AlreadyAllowed(step)
      BY <3>1 DEF AlreadyAllowed, Allowed
    <3>2. CASE AllowMined(step)
      BY <3>2, AwaitedIs DEF AllowMined, Awaited, Sound
    <3>3. QED
      BY <1>4, <3>1, <3>2
  <2>4. QED
    BY <2>1, <2>2, <2>3
<1>5. ASSUME NEW step \in Permissions, pc = step, pc' = After(step)
      PROVE  /\ pc' \in Places \ {"idle", "deploy", "bind", "register"}
             /\ SoFar' = SoFar \cup {step} /\ pc \in Setting /\ pc # "idle"
  BY <1>5 DEF Permissions, After, SoFar, Places, Setting
<1>6. CASE \E step \in Permissions : AlreadyAllowed(step) \/ AllowMined(step)
  <2>1. PICK step \in Permissions : AlreadyAllowed(step) \/ AllowMined(step)
    BY <1>6
  <2>2. /\ pc = step /\ pc' = After(step) /\ awaiting' = 0
        /\ UNCHANGED <<txs, world, config, faults, odd, run>>
        /\ Names(run.extension, run.sender)
        /\ SoFar \cup {step} \subseteq extensions[run.extension].allowed
    BY <1>4, <2>1
  <2>3. /\ pc' \in Places \ {"idle", "deploy", "bind", "register"}
        /\ SoFar' = SoFar \cup {step} /\ pc \in Setting /\ pc # "idle"
    BY <1>5, <2>2
  <2>4. QED
    BY <1>1, <2>2, <2>3
<1>7. QED
  BY <1>2, <1>3, <1>6 DEF Advances

LEMMA StopsIs ==
  ASSUME Stops
  PROVE  /\ UNCHANGED <<txs, world, odd>> /\ Ends
         /\ Fault \/ UNCHANGED faults
         /\ \/ config' \in {config, Torn}
            \/ pc = "write" /\ config' = Written
         /\ config' # config => pc = "write"
BY DEF Stops, WriteConfig, CrashInWrite, ExtensionIdSet, WaitFails, Interrupted,
       At

LEMMA StartsIs ==
  ASSUME ChainInv, Starts
  PROVE  /\ pc = "idle" /\ UNCHANGED <<txs, world, config, awaiting>>
         /\ Fault \/ UNCHANGED faults
         /\ run' \in RunRecord
         /\ \/ /\ pc' = "deploy" /\ run'.sender = 0 /\ run'.extension = 0
               /\ UNCHANGED byHand
               /\ \/ ~ HasExtension /\ UNCHANGED forced
                  \/ forced < MaxForced /\ forced' = forced + 1
            \/ /\ pc' = "register" /\ run'.sender \in DOMAIN senders
               /\ run'.extension = 0 /\ UNCHANGED forced
               /\ byHand < MaxByHand /\ byHand' = byHand + 1
<1>1. CASE PreBuild
  BY <1>1 DEF PreBuild, Begins, odd, NoRun, RunRecord
<1>2. CASE PreBuildForced
  BY <1>2 DEF PreBuildForced, Begins, odd, NoRun, RunRecord
<1>3. CASE RegisterByHand
  <2>1. PICK s \in DOMAIN senders : Begins("by hand", s, "register")
    BY <1>3 DEF RegisterByHand
  <2>2. s \in Nat
    BY Lengths
  <2>3. QED
    BY <1>3, <2>1, <2>2 DEF RegisterByHand, Begins, NoRun, RunRecord
<1>4. QED
  BY <1>1, <1>2, <1>3 DEF Starts

LEMMA MachineIs ==
  ASSUME Machine
  PROVE  /\ UNCHANGED <<txs, extensions, senders, config, run, pc, awaiting, odd>>
         /\ Fault \/ UNCHANGED faults
BY DEF Machine, StartServices, RegisterTee, ToProduction, Pause

LEMMA MineLeaves ==
  ASSUME Mine
  PROVE  UNCHANGED <<record, node, config, run, pc, awaiting, faults, odd>>
BY DEF Mine

(* Places in txs and ids stay there. *)
LEMMA Wider ==
  ASSUME ChainInv, ChainInv', Grow, RunType
  PROVE  /\ awaiting \in 0 .. Len(txs')
         /\ run.sender \in Ids(senders') /\ run.extension \in Ids(extensions')
<1>1. /\ awaiting \in 0 .. Len(txs)
      /\ run.sender \in 0 .. Len(senders) /\ run.extension \in 0 .. Len(extensions)
  BY DEF RunType, Ids
<1>2. Len(txs') \in Nat /\ Len(senders') \in Nat /\ Len(extensions') \in Nat
  BY Lengths DEF ChainInv
<1>3. QED
  BY <1>1, <1>2, Lengths DEF Grow, Ids

LEMMA ZeroWaits ==
  ASSUME ChainInv' PROVE 0 \in 0 .. Len(txs')
<1>1. Len(txs') \in Nat
  BY DEF ChainInv
<1>2. QED
  BY <1>1

LEMMA RunTypeStep ==
  ASSUME ChainInv, RunType, RunInv, [Next]_vars PROVE RunType'
<1>1. ChainInv' /\ Grow
  BY ChainStep
<1>2. /\ run \in RunRecord /\ pc \in Places
      /\ forced \in 0 .. MaxForced /\ byHand \in 0 .. MaxByHand
  BY DEF RunType, RunRecord
<1>3. /\ Len(txs') \in Nat /\ Len(senders') \in Nat /\ Len(extensions') \in Nat
      /\ DOMAIN senders' = 1 .. Len(senders')
      /\ DOMAIN extensions' = 1 .. Len(extensions')
  BY <1>1 DEF ChainInv
<1>4. CASE /\ UNCHANGED <<run, pc, awaiting, odd>>
           /\ Fault \/ UNCHANGED faults
  BY <1>1, <1>2, <1>4, Wider, Faults DEF RunType, RunRecord, odd
<1>5. CASE Mine \/ Machine \/ UNCHANGED vars
  BY <1>4, <1>5, MachineIs, MineLeaves DEF vars, odd
<1>6. CASE Advances
  <2>1. /\ pc' \in Places /\ awaiting' = 0 /\ run' \in RunRecord
        /\ UNCHANGED <<txs, world, config, faults, odd>>
    BY <1>6, AdvancesTo
  <2>2. run'.sender \in Ids(senders') /\ run'.extension \in Ids(extensions')
    <3>1. CASE pc' = "register"
      <4>1. run'.sender \in DOMAIN senders /\ run'.extension = run.extension
        BY <1>6, <3>1, AdvancesTo
      <4>2. QED
        BY <1>1, <1>3, <4>1, Wider DEF Ids, Grow
    <3>2. CASE pc' # "register"
      <4>1. Names(run'.extension, run'.sender)
        BY <1>6, <3>2, AdvancesTo
      <4>2. run'.extension \in DOMAIN extensions /\ run'.sender \in DOMAIN senders
        BY <4>1 DEF Names, ChainInv
      <4>3. QED
        BY <1>1, <1>3, <4>2 DEF Ids, Grow
    <3>3. QED
      BY <3>1, <3>2
  <2>3. faults' \in 0 .. MaxFaults
    BY <2>1, Faults
  <2>4. QED
    BY <1>1, <1>2, <2>1, <2>2, <2>3, ZeroWaits DEF RunType, RunRecord, odd
<1>7. CASE Stops
  <2>1. /\ pc' = "idle" /\ awaiting' = 0 /\ run' = NoRun /\ UNCHANGED odd
        /\ faults' \in 0 .. MaxFaults
    BY <1>7, StopsIs, Faults DEF Ends
  <2>2. run'.sender \in Ids(senders') /\ run'.extension \in Ids(extensions')
    BY <1>3, <2>1, NoRunType DEF Ids
  <2>3. QED
    BY <1>1, <1>2, <2>1, <2>2, ZeroWaits, NoRunType
    DEF RunType, RunRecord, odd, Places
<1>8. CASE Starts
  <2>1. /\ UNCHANGED <<txs, world, awaiting>> /\ run' \in RunRecord
        /\ pc' \in {"deploy", "register"} /\ faults' \in 0 .. MaxFaults
        /\ run'.sender \in {0} \cup DOMAIN senders /\ run'.extension = 0
    BY <1>8, StartsIs, Faults
  <2>2. forced' \in 0 .. MaxForced /\ byHand' \in 0 .. MaxByHand
    BY <1>2, <1>8, StartsIs, SetupAssumption
  <2>3. run'.sender \in Ids(senders') /\ run'.extension \in Ids(extensions')
    BY <1>3, <2>1 DEF world, Ids
  <2>4. QED
    BY <1>1, <1>3, <2>1, <2>2, <2>3, Wider DEF RunType, RunRecord, Places
<1>9. CASE SetExtensionId
  <2>1. /\ awaiting' = Len(txs) + 1 /\ Len(txs') = Len(txs) + 1
        /\ config.sender \in DOMAIN senders
    BY <1>9, BindSends DEF Appended
  <2>2. /\ pc' = "bind" /\ UNCHANGED <<world, config, faults, odd>>
        /\ run' = [NoRun EXCEPT !.script = "run-test", !.sender = config.sender]
    BY <1>9 DEF SetExtensionId
  <2>3. config.sender \in Nat
    BY <2>1, Lengths
  <2>4. /\ run' \in RunRecord /\ run'.sender = config.sender /\ run'.extension = 0
    BY <2>2, <2>3 DEF NoRun, RunRecord
  <2>5. run'.sender \in Ids(senders') /\ run'.extension \in Ids(extensions')
    BY <1>3, <2>1, <2>2, <2>4 DEF world, Ids
  <2>6. faults' \in 0 .. MaxFaults
    BY <2>2, Faults
  <2>7. awaiting' \in 0 .. Len(txs')
    BY <1>3, <2>1, Lengths
  <2>8. QED
    BY <1>2, <2>2, <2>4, <2>5, <2>6, <2>7 DEF RunType, RunRecord, Places, odd
<1>10. ASSUME NEW kind, NEW arg, Sends(kind, arg) PROVE RunType'
  <2>1. /\ UNCHANGED <<run, pc, faults, odd>>
        /\ awaiting' = Len(txs) + 1 /\ Len(txs') = Len(txs) + 1
    BY <1>10, SubmitAppends DEF Sends, Appended
  <2>2. awaiting' \in 0 .. Len(txs')
    BY <1>3, <2>1, Lengths
  <2>3. faults \in 0 .. MaxFaults
    BY DEF RunType
  <2>4. QED
    BY <1>1, <1>2, <2>1, <2>2, <2>3, Wider DEF RunType, RunRecord, odd
<1>11. QED
  BY <1>5, <1>6, <1>7, <1>8, <1>9, <1>10, NextIs

IsSetUp(c) ==
  Names(c.extension, c.sender) /\ extensions[c.extension].allowed = Permissions

LEMMA SetUpStays ==
  ASSUME ChainInv', Grow, NEW c, IsSetUp(c) PROVE IsSetUp(c)'
<1>1. Names(c.extension, c.sender)'
  BY DEF IsSetUp, Names, Grow
<1>2. extensions'[c.extension] \in Extension
  <2>1. extensions' \in Seq(Extension)
    BY DEF ChainInv
  <2>2. c.extension \in DOMAIN extensions'
    BY <1>1 DEF Names
  <2>3. QED
    BY <2>1, <2>2
<1>3. Permissions \subseteq extensions'[c.extension].allowed
  BY DEF IsSetUp, Names, Grow
<1>4. QED
  BY <1>1, <1>2, <1>3 DEF IsSetUp, Extension

LEMMA FileStays ==
  ASSUME ChainInv', Grow, RunInv, UNCHANGED config
  PROVE  HasExtension' => IsSetUp(config)'
<1>1. PICK c : c = config
  OBVIOUS
<1>2. HasExtension => IsSetUp(c)
  BY <1>1 DEF RunInv, IsSetUp
<1>3. HasExtension => IsSetUp(c)'
  BY <1>2, SetUpStays
<1>4. QED
  BY <1>1, <1>3 DEF HasExtension, IsSetUp, Names

LEMMA RunStays ==
  ASSUME ChainInv', Grow, RunType, RunInv, ChainInv,
         UNCHANGED <<run, pc, awaiting, config>>
  PROVE  RunInv'
<1>1. awaiting # 0 => awaiting \in DOMAIN txs
  <2>1. awaiting \in 0 .. Len(txs)
    BY DEF RunType
  <2>2. QED
    BY <2>1, Lengths
<1>2. awaiting # 0 => Awaited(txs[awaiting])'
  BY <1>1 DEF RunInv, Awaited, Grow
<1>3. pc = "register" => run.sender \in DOMAIN senders'
  BY DEF RunInv, Grow
<1>4. pc \in Permissions \cup {"write"} =>
        /\ Names(run.extension, run.sender)'
        /\ SoFar \subseteq extensions'[run.extension].allowed
  BY DEF RunInv, Names, Grow
<1>5. HasExtension' => IsSetUp(config)'
  BY FileStays
<1>6. QED
  BY <1>2, <1>3, <1>4, <1>5 DEF RunInv, IsSetUp, SoFar

LEMMA RunStep ==
  ASSUME ChainInv, RunType, RunInv, [Next]_vars PROVE RunInv'
<1>1. ChainInv' /\ Grow
  BY ChainStep
<1>2. CASE Mine \/ Machine \/ UNCHANGED vars
  <2>1. UNCHANGED <<run, pc, awaiting, config>>
    BY <1>2 DEF Mine, Machine, StartServices, RegisterTee, ToProduction, Pause, vars
  <2>2. QED
    BY <1>1, <2>1, RunStays
<1>3. CASE Advances
  <2>1. /\ awaiting' = 0 /\ UNCHANGED <<txs, senders, extensions, config>>
        /\ pc' = "register" => run'.sender \in DOMAIN senders
        /\ pc' # "register" => /\ Names(run'.extension, run'.sender)
                               /\ SoFar' \subseteq extensions[run'.extension].allowed
    BY <1>3, AdvancesTo DEF world
  <2>2. HasExtension' => IsSetUp(config)'
    BY <1>1, <2>1, FileStays
  <2>3. pc' # "register" => Names(run.extension, run.sender)'
    BY <2>1 DEF Names
  <2>4. QED
    BY <2>1, <2>2, <2>3 DEF RunInv, IsSetUp, Permissions
<1>4. CASE Stops
  <2>1. /\ UNCHANGED <<txs, senders, extensions>> /\ awaiting' = 0 /\ pc' = "idle"
        /\ \/ config' \in {config, Torn}
           \/ pc = "write" /\ config' = Written
    BY <1>4, StopsIs DEF world, Ends
  <2>2. HasExtension' => IsSetUp(config)'
    <3>1. CASE config' = config
      BY <1>1, <3>1, FileStays
    <3>2. CASE config' = Torn
      BY <3>2 DEF HasExtension
    <3>3. CASE pc = "write" /\ config' = Written
      <4>1. /\ Names(run.extension, run.sender)
            /\ Permissions \subseteq extensions[run.extension].allowed
        BY <3>3 DEF RunInv, SoFar
      <4>2. extensions[run.extension] \in Extension
        BY <4>1, Lengths DEF Names
      <4>3. extensions[run.extension].allowed = Permissions
        BY <4>1, <4>2 DEF Extension
      <4>4. config'.extension = run.extension /\ config'.sender = run.sender
        BY <3>3 DEF Written
      <4>5. QED
        BY <2>1, <4>1, <4>3, <4>4 DEF IsSetUp, Names
    <3>4. QED
      BY <2>1, <3>1, <3>2, <3>3
  <2>3. QED
    BY <2>1, <2>2 DEF RunInv, IsSetUp, Permissions
<1>5. CASE Starts
  <2>1. /\ pc = "idle" /\ UNCHANGED <<txs, senders, extensions, config, awaiting>>
        /\ \/ pc' = "deploy"
           \/ pc' = "register" /\ run'.sender \in DOMAIN senders
    BY <1>5, StartsIs DEF world
  <2>2. awaiting = 0
    BY <2>1 DEF RunInv, Awaited
  <2>3. HasExtension' => IsSetUp(config)'
    BY <1>1, <2>1, FileStays
  <2>4. QED
    BY <2>1, <2>2, <2>3 DEF RunInv, IsSetUp, Permissions
<1>6. CASE SetExtensionId
  <2>1. pc' = "bind" /\ UNCHANGED config
    BY <1>6 DEF SetExtensionId
  <2>2. txs'[awaiting'].kind = "setExtensionId"
    BY <1>6, BindSends DEF Appended
  <2>3. HasExtension' => IsSetUp(config)'
    BY <1>1, <2>1, FileStays
  <2>4. QED
    BY <2>1, <2>2, <2>3 DEF RunInv, Awaited, IsSetUp, Permissions
<1>7. ASSUME NEW kind, NEW arg, Sends(kind, arg) PROVE RunInv'
  <2>1. /\ UNCHANGED <<run, pc, senders, extensions, config>> /\ pc = kind
        /\ kind \in Kinds \cap Places
        /\ kind = "register" => arg = run.sender
        /\ kind \in Permissions => arg = run.extension
    BY <1>7 DEF Sends, world
  <2>2. txs'[awaiting'].kind = kind /\ txs'[awaiting'].arg = arg
    <3>1. Appended(kind, arg) /\ awaiting' = Len(txs) + 1
      BY <1>7, SubmitAppends DEF Sends
    <3>2. QED
      BY <3>1 DEF Appended
  <2>3. HasExtension' => IsSetUp(config)'
    BY <1>1, <2>1, FileStays
  <2>4. Awaited(txs[awaiting])'
    BY <2>1, <2>2 DEF Awaited, Kinds, Places, Permissions
  <2>5. /\ pc = "register" => run.sender \in DOMAIN senders'
        /\ pc \in Permissions \cup {"write"} =>
             /\ Names(run.extension, run.sender)'
             /\ SoFar \subseteq extensions'[run.extension].allowed
    BY <2>1 DEF RunInv, Names
  <2>6. QED
    BY <2>1, <2>3, <2>4, <2>5 DEF RunInv, IsSetUp, SoFar
<1>8. QED
  BY <1>2, <1>3, <1>4, <1>5, <1>6, <1>7, NextIs

-----------------------------------------------------------------------------
(* A sender is registered once.                                            *)

LEMMA RegistrationsStay ==
  ASSUME ChainInv,
         \/ UNCHANGED txs
         \/ \E kind, arg : kind # "register" /\ Appended(kind, arg)
         \/ \E i, receipt, logs : Gets(i, receipt, logs)
  PROVE  /\ \A i \in DOMAIN txs' : txs'[i].kind = "register" =>
              i \in DOMAIN txs /\ txs[i].kind = "register" /\ txs'[i].arg = txs[i].arg
         /\ \A s : IsRegistered(s)' => IsRegistered(s)
<1>1. ASSUME NEW i \in DOMAIN txs', txs'[i].kind = "register"
      PROVE  i \in DOMAIN txs /\ txs[i].kind = "register" /\ txs'[i].arg = txs[i].arg
  <2>1. CASE UNCHANGED txs
    BY <1>1, <2>1
  <2>2. ASSUME NEW kind, NEW arg, kind # "register", Appended(kind, arg)
        PROVE  /\ i \in DOMAIN txs /\ txs[i].kind = "register"
               /\ txs'[i].arg = txs[i].arg
    BY <1>1, <2>2 DEF Appended
  <2>3. ASSUME NEW j, NEW receipt, NEW logs, Gets(j, receipt, logs)
        PROVE  /\ i \in DOMAIN txs /\ txs[i].kind = "register"
               /\ txs'[i].arg = txs[i].arg
    BY <1>1, <2>3 DEF Gets
  <2>4. QED
    BY <2>1, <2>2, <2>3
<1>2. QED
  BY <1>1 DEF IsRegistered

LEMMA MineGets ==
  ASSUME ChainInv, Mine
  PROVE  \E i, receipt, logs :
           /\ Gets(i, receipt, logs) /\ i \in DOMAIN txs
           /\ txs[i].kind = "deploy" /\ receipt = "ok" => logs = Len(senders) + 1
BY MineIs DEF Deploys, Registers, Permits, Binds, Permissions

LEMMA OnceStep ==
  ASSUME ChainInv, RunType, RunInv, OnceInv, [Next]_vars PROVE OnceInv'
<1>1. CASE Mine
  <2>1. PICK i, receipt, logs :
          /\ Gets(i, receipt, logs) /\ i \in DOMAIN txs
          /\ txs[i].kind = "deploy" /\ receipt = "ok" => logs = Len(senders) + 1
    BY <1>1, MineGets
  <2>2. /\ \A j \in DOMAIN txs' : txs'[j].kind = "register" =>
             j \in DOMAIN txs /\ txs[j].kind = "register" /\ txs'[j].arg = txs[j].arg
        /\ \A s : IsRegistered(s)' => IsRegistered(s)
    BY <2>1, RegistrationsStay
  <2>3. UNCHANGED <<pc, awaiting, byHand, run>>
    BY <1>1, MineLeaves DEF odd
  <2>4. ~ IsRegistered(Len(senders) + 1)
    <3>1. \A j \in DOMAIN txs : txs[j].kind = "register" =>
            txs[j].arg \in DOMAIN senders
      BY DEF ChainInv, Sound
    <3>2. QED
      BY <3>1, Lengths DEF IsRegistered
  <2>5. ASSUME byHand = 0, pc = "deploy", awaiting # 0, txs'[awaiting].receipt = "ok"
        PROVE  ~ IsRegistered(txs'[awaiting].logs)
    <3>1. txs[awaiting].kind = "deploy"
      BY <2>5 DEF RunInv, Awaited, Permissions
    <3>2. CASE awaiting = i
      BY <2>1, <2>4, <2>5, <3>1, <3>2 DEF Gets
    <3>3. CASE awaiting # i
      <4>1. awaiting \in DOMAIN txs
        <5>1. awaiting \in 0 .. Len(txs)
          BY DEF RunType
        <5>2. QED
          BY <2>5, <5>1, Lengths
      <4>2. QED
        BY <2>1, <2>5, <3>3, <4>1 DEF Gets, OnceInv
    <3>4. QED
      BY <3>2, <3>3
  <2>6. QED
    BY <2>2, <2>3, <2>5 DEF OnceInv
<1>2. CASE Machine \/ UNCHANGED vars
  BY <1>2, MachineIs DEF OnceInv, IsRegistered, odd, vars
<1>3. CASE Advances
  <2>1. UNCHANGED <<txs, byHand>> /\ awaiting' = 0
    BY <1>3, AdvancesTo DEF odd
  <2>2. pc' = "register" =>
          /\ pc = "deploy" /\ awaiting # 0 /\ txs[awaiting].receipt = "ok"
          /\ run'.sender = txs[awaiting].logs
    BY <1>3, AdvancesTo DEF Mined
  <2>3. QED
    BY <2>1, <2>2 DEF OnceInv, IsRegistered
<1>4. CASE Stops
  <2>1. UNCHANGED <<txs, byHand>> /\ pc' = "idle"
    BY <1>4, StopsIs DEF odd, Ends
  <2>2. QED
    BY <2>1 DEF OnceInv, IsRegistered
<1>5. CASE Starts
  <2>1. /\ UNCHANGED <<txs, awaiting>> /\ pc = "idle"
        /\ \/ pc' = "deploy" /\ UNCHANGED byHand
           \/ byHand' = byHand + 1
    BY <1>5, StartsIs
  <2>2. awaiting = 0
    BY <2>1 DEF RunInv, Awaited
  <2>3. byHand \in 0 .. MaxByHand
    BY DEF RunType
  <2>4. byHand + 1 # 0
    BY <2>3
  <2>5. QED
    BY <2>1, <2>2, <2>4 DEF OnceInv, IsRegistered
<1>6. CASE SetExtensionId
  <2>1. pc' = "bind" /\ UNCHANGED byHand
    BY <1>6 DEF SetExtensionId, odd
  <2>2. \A j \in DOMAIN txs' : txs'[j].kind = "register" =>
          j \in DOMAIN txs /\ txs[j].kind = "register" /\ txs'[j].arg = txs[j].arg
    BY <1>6, BindSends, RegistrationsStay
  <2>3. QED
    BY <2>1, <2>2 DEF OnceInv
<1>7. ASSUME NEW kind, NEW arg, Sends(kind, arg) PROVE OnceInv'
  <2>1. /\ UNCHANGED <<pc, byHand>> /\ pc = kind /\ awaiting = 0
        /\ awaiting' = Len(txs) + 1 /\ Appended(kind, arg)
        /\ kind = "register" => arg = run.sender
    BY <1>7, SubmitAppends DEF Sends, odd
  <2>2. awaiting' # 0 /\ txs'[awaiting'].receipt = "pending"
    BY <2>1, Lengths DEF Appended
  <2>3. CASE kind # "register"
    <3>1. \A j \in DOMAIN txs' : txs'[j].kind = "register" =>
            j \in DOMAIN txs /\ txs[j].kind = "register" /\ txs'[j].arg = txs[j].arg
      BY <2>1, <2>3, RegistrationsStay
    <3>2. QED
      BY <2>1, <2>2, <2>3, <3>1 DEF OnceInv
  <2>4. CASE kind = "register"
    <3>1. byHand = 0 => \A j \in DOMAIN txs :
            ~ (txs[j].kind = "register" /\ txs[j].arg = arg)
      BY <2>1, <2>4 DEF OnceInv, IsRegistered
    <3>2. /\ DOMAIN txs' = DOMAIN txs \cup {Len(txs) + 1}
          /\ txs'[Len(txs) + 1].arg = arg
          /\ \A j \in DOMAIN txs : txs'[j] = txs[j]
      BY <2>1 DEF Appended
    <3>3. byHand = 0 => \A i, j \in DOMAIN txs' :
            txs'[i].kind = "register" /\ txs'[j].kind = "register"
            /\ txs'[i].arg = txs'[j].arg => i = j
      BY <3>1, <3>2 DEF OnceInv
    <3>4. QED
      BY <2>1, <2>2, <2>4, <3>3 DEF OnceInv
  <2>5. QED
    BY <2>3, <2>4
<1>8. QED
  BY <1>1, <1>2, <1>3, <1>4, <1>5, <1>6, <1>7, NextIs

-----------------------------------------------------------------------------
(* The machine.                                                            *)

NodeType ==
  /\ node \in Ids(extensions)
  /\ record \in [extension : Nat,
                 status : {"NONE", "INITIALIZED", "PRODUCTION", "PAUSED"}]
  /\ record # NoRecord => record.extension \in DOMAIN extensions

NodeLinks ==
  odd = <<0, 0>> =>
    /\ node # 0 => HasExtension /\ config.extension = node
    /\ record # NoRecord => record.extension = node
    /\ pc \in Setting => ~ HasExtension

LEMMA NodeInvIs == NodeInv <=> NodeType /\ NodeLinks
BY DEF NodeInv, NodeType, NodeLinks

LEMMA NodeTypeStep ==
  ASSUME ChainInv, RunType, RunInv, NodeType, [Next]_vars PROVE NodeType'
<1>1. ChainInv' /\ Grow
  BY ChainStep
<1>2. /\ Ids(extensions) \subseteq Ids(extensions')
      /\ DOMAIN extensions \subseteq DOMAIN extensions'
      /\ DOMAIN extensions \subseteq Ids(extensions)
  <2>1. Len(extensions') \in Nat
    BY <1>1 DEF ChainInv
  <2>2. QED
    BY <1>1, <2>1, Lengths DEF Ids, Grow
<1>3. CASE UNCHANGED <<node, record>>
  BY <1>2, <1>3 DEF NodeType, NoRecord
<1>4. CASE Machine
  <2>1. UNCHANGED extensions
    BY <1>4, MachineIs
  <2>2. CASE StartServices
    <3>1. HasExtension /\ node' = config.extension /\ record' \in {record, NoRecord}
      BY <2>2 DEF StartServices
    <3>2. node' \in Ids(extensions)
      BY <1>2, <3>1 DEF RunInv, Names
    <3>3. QED
      BY <2>1, <3>1, <3>2 DEF NodeType, NoRecord
  <2>3. CASE RegisterTee
    <3>1. /\ node # 0 /\ UNCHANGED node
          /\ record' = [extension |-> node, status |-> "INITIALIZED"]
      BY <2>3 DEF RegisterTee
    <3>2. node \in DOMAIN extensions /\ node \in Nat
      BY <3>1, Lengths DEF NodeType, Ids
    <3>3. QED
      BY <2>1, <3>1, <3>2 DEF NodeType
  <2>4. CASE ToProduction \/ Pause
    <3>1. /\ record.status # "NONE" /\ UNCHANGED node
          /\ \E status \in {"PRODUCTION", "PAUSED"} :
               record' = [record EXCEPT !.status = status]
      BY <2>4 DEF ToProduction, Pause
    <3>2. record # NoRecord
      BY <3>1 DEF NoRecord
    <3>3. QED
      BY <2>1, <3>1, <3>2 DEF NodeType
  <2>5. QED
    BY <1>4, <2>2, <2>3, <2>4 DEF Machine
<1>5. CASE ~ Machine
  <2>1. UNCHANGED <<node, record>>
    <3>1. CASE Mine
      BY <3>1, MineLeaves
    <3>2. CASE Advances
      BY <3>2, AdvancesTo DEF world
    <3>3. CASE Stops
      BY <3>3, StopsIs DEF world
    <3>4. CASE Starts
      BY <3>4, StartsIs DEF world
    <3>5. CASE SetExtensionId \/ UNCHANGED vars
      BY <3>5 DEF SetExtensionId, vars, world
    <3>6. CASE \E kind, arg : Sends(kind, arg)
      BY <3>6 DEF Sends, world
    <3>7. QED
      BY <1>5, <3>1, <3>2, <3>3, <3>4, <3>5, <3>6, NextIs
  <2>2. QED
    BY <1>3, <2>1
<1>6. QED
  BY <1>4, <1>5

(* forced and byHand count up. *)
LEMMA OddGrows ==
  ASSUME ChainInv, RunType, RunInv, [Next]_vars, odd' = <<0, 0>>
  PROVE  odd = <<0, 0>>
<1>1. forced \in 0 .. MaxForced /\ byHand \in 0 .. MaxByHand
  BY DEF RunType
<1>2. CASE Starts
  BY <1>1, <1>2, StartsIs, SetupAssumption DEF odd
<1>3. CASE Mine \/ Machine \/ Advances \/ Stops \/ UNCHANGED vars
  BY <1>3, MineLeaves, MachineIs, AdvancesTo, StopsIs DEF odd, vars
<1>4. CASE SetExtensionId \/ \E kind, arg : Sends(kind, arg)
  BY <1>4 DEF SetExtensionId, Sends, odd
<1>5. QED
  BY <1>2, <1>3, <1>4, NextIs

LEMMA NodeLinksStep ==
  ASSUME ChainInv, RunType, RunInv, NodeType, NodeLinks, [Next]_vars
  PROVE  NodeLinks'
<1> SUFFICES ASSUME odd' = <<0, 0>> PROVE NodeLinks'
  BY DEF NodeLinks
<1>1. /\ odd = <<0, 0>>
      /\ node # 0 => HasExtension /\ config.extension = node
      /\ record # NoRecord => record.extension = node
      /\ pc \in Setting => ~ HasExtension
  BY OddGrows DEF NodeLinks
<1>2. record # NoRecord => node # 0
  BY <1>1, Lengths DEF NodeType
<1>3. CASE /\ UNCHANGED <<node, record, config>>
           /\ pc' \in Setting => pc \in Setting
  BY <1>1, <1>3 DEF NodeLinks, HasExtension, NoRecord
<1>4. CASE Mine \/ Advances \/ SetExtensionId \/ UNCHANGED vars
  <2>1. /\ UNCHANGED <<node, record, config>>
        /\ pc' \in Setting => pc \in Setting
    <3>1. CASE Mine
      BY <3>1, MineLeaves DEF Mine
    <3>2. CASE Advances
      <4>1. pc \in Setting
        BY <3>2, AdvancesTo DEF Mined, Setting
      <4>2. QED
        BY <3>2, <4>1, AdvancesTo DEF world
    <3>3. CASE SetExtensionId \/ UNCHANGED vars
      BY <3>3 DEF SetExtensionId, vars, world, Setting, Permissions
    <3>4. QED
      BY <1>4, <3>1, <3>2, <3>3
  <2>2. QED
    BY <1>3, <2>1
<1>5. ASSUME NEW kind, NEW arg, Sends(kind, arg) PROVE NodeLinks'
  BY <1>3, <1>5 DEF Sends, world
<1>6. CASE Stops
  <2>1. /\ UNCHANGED <<node, record>> /\ pc' = "idle"
        /\ config' # config => pc = "write"
    BY <1>6, StopsIs DEF world, Ends
  <2>2. CASE config' = config
    BY <1>3, <2>1, <2>2 DEF Setting, Permissions
  <2>3. CASE config' # config
    <3>1. node = 0 /\ record = NoRecord
      BY <1>1, <1>2, <2>1, <2>3 DEF Setting
    <3>2. QED
      BY <2>1, <3>1 DEF NodeLinks, NoRecord, Setting, Permissions
  <2>4. QED
    BY <2>2, <2>3
<1>7. CASE Starts
  <2>1. /\ UNCHANGED <<node, record, config>>
        /\ \/ ~ HasExtension
           \/ forced' = forced + 1 \/ byHand' = byHand + 1
    BY <1>7, StartsIs DEF world
  <2>2. forced \in 0 .. MaxForced /\ byHand \in 0 .. MaxByHand
    BY DEF RunType
  <2>3. forced' = 0 /\ byHand' = 0
    BY DEF odd
  <2>4. ~ HasExtension
    BY <2>1, <2>2, <2>3
  <2>5. QED
    BY <1>1, <2>1, <2>4 DEF NodeLinks, HasExtension, NoRecord
<1>8. CASE Machine
  <2>1. UNCHANGED <<pc, odd>>
    BY <1>8, MachineIs
  <2>2. CASE StartServices
    <3>1. /\ HasExtension /\ node' = config.extension /\ UNCHANGED config
          /\ record' \in {record, NoRecord}
      BY <2>2 DEF StartServices
    <3>2. record = NoRecord \/ node = config.extension
      BY <1>1, <1>2, <3>1
    <3>3. QED
      BY <1>1, <2>1, <3>1, <3>2 DEF NodeLinks, HasExtension, NoRecord
  <2>3. CASE RegisterTee
    BY <1>1, <2>1, <2>3 DEF RegisterTee, NodeLinks, HasExtension, NoRecord
  <2>4. CASE ToProduction \/ Pause
    <3>1. /\ record.status # "NONE" /\ UNCHANGED <<node, config>>
          /\ \E status : record' = [record EXCEPT !.status = status]
      BY <2>4 DEF ToProduction, Pause
    <3>2. record # NoRecord
      BY <3>1 DEF NoRecord
    <3>3. record'.extension = record.extension
      BY <3>1 DEF NodeType
    <3>4. QED
      BY <1>1, <2>1, <3>1, <3>2, <3>3 DEF NodeLinks, HasExtension, NoRecord
  <2>5. QED
    BY <1>8, <2>2, <2>3, <2>4 DEF Machine
<1>9. QED
  BY <1>4, <1>5, <1>6, <1>7, <1>8, NextIs

-----------------------------------------------------------------------------
(* The inductive invariant, and what follows from it.                      *)

THEOREM InductiveInvariant == Spec => []IInv
<1>1. Init => IInv
  <2> SUFFICES ASSUME Init PROVE IInv
    OBVIOUS
  <2>1. /\ txs \in Seq(Tx) /\ senders \in Seq(Nat) /\ extensions \in Seq(Extension)
        /\ Len(txs) = 0 /\ Len(senders) = 0 /\ Len(extensions) = 0
        /\ DOMAIN txs = {} /\ DOMAIN senders = {} /\ DOMAIN extensions = {}
    BY DEF Init
  <2>2. ChainInv
    BY <2>1 DEF ChainInv
  <2>3. RunType
    BY <2>1, SetupAssumption DEF Init, RunType, RunRecord, NoRun, Ids, Places
  <2>4. RunInv /\ OnceInv
    BY <2>1 DEF Init, RunInv, OnceInv, HasExtension, Permissions
  <2>5. NodeInv
    BY <2>1 DEF Init, NodeInv, NoRecord, Ids, Setting, Permissions
  <2>6. QED
    BY <2>2, <2>3, <2>4, <2>5 DEF IInv
<1>2. IInv /\ [Next]_vars => IInv'
  <2> SUFFICES ASSUME IInv, [Next]_vars PROVE IInv'
    OBVIOUS
  <2>1. ChainInv /\ RunType /\ RunInv /\ OnceInv /\ NodeType /\ NodeLinks
    BY NodeInvIs DEF IInv
  <2>2. NodeType' /\ NodeLinks'
    BY <2>1, NodeTypeStep, NodeLinksStep
  <2>3. ChainInv' /\ RunType' /\ RunInv' /\ OnceInv'
    BY <2>1, ChainStep, RunTypeStep, RunStep, OnceStep
  <2>4. QED
    BY <2>2, <2>3 DEF IInv, NodeInv, NodeType, NodeLinks
<1>3. QED
  BY <1>1, <1>2, PTL DEF Spec

(* Types, and every id names what exists.                                  *)
THEOREM TypeCorrect == Spec => []TypeOK
<1>1. IInv => TypeOK
  <2> SUFFICES ASSUME IInv PROVE TypeOK
    OBVIOUS
  <2>1. ASSUME NEW i \in DOMAIN txs
        PROVE  /\ txs[i].kind \in {"deploy", "register", "setExtensionId"} \cup Permissions
               /\ txs[i].arg \in Ids(senders) \cup Ids(extensions)
               /\ txs[i].receipt \in {"pending", "ok", "reverted"}
    <3>1. ChainInv /\ txs[i] \in Tx
      BY Lengths DEF IInv
    <3>2. Sound(txs[i])
      BY <3>1 DEF ChainInv
    <3>3. txs[i].arg \in {0} \cup DOMAIN senders \cup DOMAIN extensions
      BY <3>1, <3>2 DEF Sound, Tx, Kinds
    <3>4. QED
      BY <3>1, <3>3, Lengths DEF Tx, Kinds, Ids
  <2>2. \A e \in DOMAIN extensions : /\ extensions[e].sender \in DOMAIN senders
                                     /\ extensions[e].allowed \subseteq Permissions
    BY Lengths DEF IInv, ChainInv, Extension
  <2>3. \A s \in DOMAIN senders : senders[s] \in Ids(extensions)
    <3>1. ChainInv
      BY DEF IInv
    <3>2. \A s \in DOMAIN senders : senders[s] # 0 => senders[s] \in DOMAIN extensions
      BY <3>1 DEF ChainInv, Names
    <3>3. QED
      BY <3>1, <3>2, Lengths DEF Ids
  <2>4. /\ record.extension \in Ids(extensions)
        /\ record.status \in {"NONE", "INITIALIZED", "PRODUCTION", "PAUSED"}
        /\ node \in Ids(extensions)
    BY Lengths DEF IInv, NodeInv, NoRecord, Ids
  <2>5. HasExtension => /\ config.extension \in DOMAIN extensions
                        /\ config.sender \in DOMAIN senders
    BY DEF IInv, RunInv, ChainInv, Names
  <2>6. /\ run.script \in {"none", "pre-build", "by hand", "run-test"}
        /\ run.sender \in Ids(senders) /\ run.extension \in Ids(extensions)
        /\ pc \in {"idle", "deploy", "register", "write", "bind"} \cup Permissions
        /\ awaiting \in 0 .. Len(txs)
        /\ forced \in 0 .. MaxForced /\ byHand \in 0 .. MaxByHand
        /\ faults \in 0 .. MaxFaults
    BY DEF IInv, RunType, RunRecord, Places
  <2>7. QED
    BY <2>1, <2>2, <2>3, <2>4, <2>5, <2>6 DEF TypeOK
<1>2. QED
  BY <1>1, InductiveInvariant, PTL

(* What config/extension.env names was set up to the end.                  *)
THEOREM FileIsSetUp == Spec => []ConfigIsSetUp
<1>1. IInv => ConfigIsSetUp
  BY DEF IInv, RunInv, Names, ConfigIsSetUp
<1>2. QED
  BY <1>1, InductiveInvariant, PTL

(* With one registration of each sender, an extension is the only one that *)
(* names its sender: the one setExtensionId finds.                         *)
LEMMA OnlyOne ==
  ASSUME ChainInv, OnceInv, byHand = 0, NEW e, NEW s, Names(e, s)
  PROVE  /\ FirstNaming(s) = e
         /\ \A d : Names(d, s) => d = e
         /\ s \in DOMAIN senders /\ senders[s] \in {0, e} /\ e # 0
<1>1. ASSUME NEW d, Names(d, s) PROVE d = e
  <2>1. PICK i \in DOMAIN txs : /\ txs[i].kind = "register"
                                /\ txs[i].receipt = "ok" /\ txs[i].logs = d
    BY <1>1 DEF Names, ChainInv
  <2>2. PICK j \in DOMAIN txs : /\ txs[j].kind = "register"
                                /\ txs[j].receipt = "ok" /\ txs[j].logs = e
    BY DEF Names, ChainInv
  <2>3. txs[i].arg = s /\ txs[j].arg = s
    BY <1>1, <2>1, <2>2 DEF ChainInv, Sound, Names
  <2>4. i = j
    BY <2>1, <2>2, <2>3 DEF OnceInv
  <2>5. QED
    BY <2>1, <2>2, <2>4
<1>2. FirstNaming(s) # 0 => Names(FirstNaming(s), s)
  BY FirstIs
<1>3. PICK d \in DOMAIN extensions : IsFirst(d, s)
  BY DEF Names, ChainInv
<1>4. FirstNaming(s) \in DOMAIN extensions
  BY <1>3 DEF FirstNaming, IsFirst, Names
<1>5. e # 0 /\ FirstNaming(s) # 0
  BY <1>4, Lengths DEF Names
<1>6. s \in DOMAIN senders /\ (senders[s] # 0 => Names(senders[s], s))
  BY DEF Names, ChainInv
<1>7. QED
  BY <1>1, <1>2, <1>5, <1>6

(* setExtensionId binds the sender to the extension in the file, unless    *)
(* one was registered by hand.                                             *)
THEOREM BindsAsConfigured == Spec => []BoundAsConfigured
<1>1. IInv => BoundAsConfigured
  BY OnlyOne DEF IInv, RunInv, BoundAsConfigured
<1>2. QED
  BY <1>1, InductiveInvariant, PTL

(* Without --force, the machine and its sender stay with the file.         *)
THEOREM MachineKeepsExtension == Spec => []NeverOrphaned
<1>1. IInv => NeverOrphaned
  <2> SUFFICES ASSUME IInv, record # NoRecord, odd = <<0, 0>>
      PROVE  /\ HasExtension
             /\ config.extension = record.extension /\ node = record.extension
             /\ FirstNaming(config.sender) = record.extension
    BY DEF NeverOrphaned
  <2>1. record.extension \in DOMAIN extensions /\ record.extension = node
    BY DEF IInv, NodeInv
  <2>2. node # 0
    BY <2>1, Lengths DEF IInv
  <2>3. HasExtension /\ config.extension = node
    BY <2>2 DEF IInv, NodeInv
  <2>4. byHand = 0 /\ Names(config.extension, config.sender)
    BY <2>3 DEF IInv, RunInv, odd
  <2>5. QED
    BY <2>1, <2>3, <2>4, OnlyOne DEF IInv
<1>2. QED
  BY <1>1, InductiveInvariant, PTL

(* check-tee-state's quick fix reaches the machine's extension.            *)
THEOREM FixWorks == Spec => []QuickFixWorks
<1>1. IInv => QuickFixWorks
  <2> SUFFICES ASSUME IInv, record # NoRecord, byHand = 0 PROVE QuickFixWorks
    BY DEF QuickFixWorks
  <2>1. Names(record.extension, QuickFix)
    BY DEF IInv, NodeInv, Names, QuickFix
  <2>2. QED
    BY <2>1, OnlyOne DEF IInv, QuickFixWorks
<1>2. QED
  BY <1>1, InductiveInvariant, PTL
=============================================================================
