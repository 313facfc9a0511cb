-------------------------- MODULE ValidationProofs --------------------------
(* Proofs about Validation, for every value of its constants: any number   *)
(* of extensions, of files, environments and changes meanwhile.            *)
EXTENDS Validation, SequenceTheorems, FiniteSetTheorems, TLAPS

-----------------------------------------------------------------------------
(* The inductive invariant.                                                *)

(* The provers do not know that a literal is a string. *)
Texts == STRING \cup {"", "own"}

Variables == [EnvNames -> Texts]

Extensions == [sender : Senders, owners : SUBSET Keys, evm : BOOLEAN]

Runs == [step : StepNames \cup {"none"}, given : BOOLEAN,
         filter : SUBSET STRING, env : Variables, dotenv : Variables, id : Int, sender : Texts,
         counter : Int, rewritten : BOOLEAN]

TypeInv ==
  /\ TypeOK
  /\ extensions \in Seq(Extensions)
  /\ exported \in Variables /\ dotenv \in Variables
  /\ run \in Runs /\ run.counter <= Len(extensions)

Checks == {"D1", "D5-funds", "D6", "D7", "R", "R1", "R2", "R3", "R4", "R7",
           "services", "tee-version", "tee-machine", "test"}

(* What is left of a run's checks is the end of the order of its step. *)
Ends(rest, order) ==
  /\ Len(rest) <= Len(order)
  /\ \A i \in 1 .. Len(rest) : rest[i] = order[Len(order) - Len(rest) + i]

TodoInv ==
  /\ todo \in Seq(Checks)
  /\ exit = "running" => run.step \in StepNames /\ Ends(todo, Order(run.step))
  /\ exit = "connecting" => run.step \in StepNames /\ report = {}

RegistrationIds == {"R", "R1", "R2-format", "R2", "R3", "R4", "R7"}

ReaderIds == {"D7-sender", "D7-id", "S2", "V4", "E1"}

(* How many checks are left when the check is next that has this result.   *)
Later == IF run.step = "all" THEN 4 ELSE 0

Left(id) ==
  CASE id \in {"D7-sender", "D7-id"} -> 11
    [] id = "R" -> Later + 6
    [] id \in {"R1", "R2-format"} -> Later + 5
    [] id = "R2" -> Later + 4
    [] id = "R3" -> Later + 3
    [] id = "R4" -> Later + 2
    [] id = "R7" -> Later + 1
    [] id = "S2" -> 4
    [] id = "V4" -> 3
    [] id = "E1" -> 1

(* A result is in the report only when its check is over. *)
InTurn(r) ==
  /\ r[1] \in RegistrationIds =>
       run.step \in {"register", "all"} /\ Len(todo) < Left(r[1])
  /\ r[1] \in ReaderIds /\ run.step = "all" => Len(todo) < Left(r[1])

InRange == run.id \in 0 .. Len(extensions) - 1

(* A run of all steps with -config since whose check D7 nobody wrote the   *)
(* file.                                                                   *)
SameFile ==
  run.step = "all" /\ run.given /\ ~ run.rewritten /\ config.exists

(* What a result says is so, and stays so. *)
Backed(r) ==
  /\ r[2] \in Statuses
  /\ r = <<"R2", "PASS">> =>
       InRange /\ Extension(run.id).sender = run.sender
  /\ r = <<"R3", "PASS">> =>
       InRange /\ DefaultPrivateKey(run.env) \in Extension(run.id).owners
  /\ r = <<"R4", "PASS">> => InRange /\ Extension(run.id).evm
  /\ r = <<"R7", "PASS">> /\ missed = {} =>
       \A c, d \in 0 .. run.counter - 1 :
         Extension(c).sender = run.sender /\ Extension(d).sender = run.sender
         => c = d
  /\ r = <<"V2", "WARN">> /\ run.step = "all" =>
       run.dotenv["DEPLOYMENT_PRIVATE_KEY"] = ""
  /\ SameFile =>
       /\ r \in {<<"D7-id", "FAIL">>, <<"S2", "FAIL">>, <<"V4", "FAIL">>,
                 <<"R2-format", "FAIL">>, <<"R", "SKIP">>}
            => ~ WellFormed(config).id
       /\ r \in {<<"D7-sender", "FAIL">>, <<"E1", "FAIL">>}
            => ~ WellFormed(config).sender

ReportInv == \A r \in report : InTurn(r) /\ Backed(r)

Says2(check) == <<check, "PASS">> \in report \/ <<check, "FAIL">> \in report

(* A check that is over has said what it had to say, unless a filter hid   *)
(* it or the run never began.                                              *)
Complete ==
  /\ run.step \in {"register", "all"} /\ <<"R2", "PASS">> \in report =>
       /\ Len(todo) < Left("R3") => Says2("R3")
       /\ Len(todo) < Left("R4") => Says2("R4")
  /\ SameFile =>
       /\ ~ WellFormed(config).id =>
            \A id \in {"D7-id", "S2", "V4"} :
              Len(todo) < Left(id) => <<id, "FAIL">> \in report
       /\ ~ WellFormed(config).sender =>
            \A id \in {"D7-sender", "E1"} :
              Len(todo) < Left(id) => <<id, "FAIL">> \in report

CompleteInv ==
  exit = "running" \/ (report # {} /\ run.filter = {}) => Complete

(* What a run has read: .env, when all steps are run, and the file.        *)
ReadInv ==
  /\ run.step = "all" /\ run.env["DEPLOYMENT_PRIVATE_KEY"] = "" =>
       run.dotenv["DEPLOYMENT_PRIVATE_KEY"] = ""
  /\ SameFile /\ exit = "running" /\ Len(todo) < Left("R") =>
       run.id = config.id /\ run.sender = config.sender

ExitInv == exit = "0" => ~ HasFailures(report)

IInv ==
  TypeInv /\ TodoInv /\ ReportInv /\ CompleteInv /\ ReadInv /\ ExitInv

-----------------------------------------------------------------------------
(* The order of the checks.                                                *)

LEMMA Concatenation ==
  ASSUME NEW S, NEW s \in Seq(S), NEW t \in Seq(S)
  PROVE  /\ s \o t \in Seq(S) /\ Len(s \o t) = Len(s) + Len(t)
         /\ \A i \in 1 .. Len(s) : (s \o t)[i] = s[i]
         /\ \A i \in 1 .. Len(t) : (s \o t)[Len(s) + i] = t[i]
OBVIOUS

LEMMA OrderOfDeploy ==
  /\ Order("deploy") = DeployChecks
  /\ DeployChecks \in Seq(Checks) /\ Len(DeployChecks) = 4
  /\ DeployChecks[1] = "D1" /\ DeployChecks[2] = "D5-funds"
  /\ DeployChecks[3] = "D6" /\ DeployChecks[4] = "D7"
<1>1. DeployChecks \in Seq(Checks) /\ Len(DeployChecks) = 4
  BY DEF DeployChecks, Checks
<1>2. /\ DeployChecks[1] = "D1" /\ DeployChecks[2] = "D5-funds"
      /\ DeployChecks[3] = "D6" /\ DeployChecks[4] = "D7"
  BY DEF DeployChecks
<1>3. Order("deploy") = DeployChecks
  BY DEF Order
<1>4. QED
  BY <1>1, <1>2, <1>3

LEMMA OrderOfRegister ==
  /\ Order("register") = RegistrationChecks
  /\ RegistrationChecks \in Seq(Checks) /\ Len(RegistrationChecks) = 6
  /\ RegistrationChecks[1] = "R" /\ RegistrationChecks[2] = "R1"
  /\ RegistrationChecks[3] = "R2" /\ RegistrationChecks[4] = "R3"
  /\ RegistrationChecks[5] = "R4" /\ RegistrationChecks[6] = "R7"
<1>1. RegistrationChecks \in Seq(Checks) /\ Len(RegistrationChecks) = 6
  BY DEF RegistrationChecks, Checks
<1>2. /\ RegistrationChecks[1] = "R" /\ RegistrationChecks[2] = "R1"
      /\ RegistrationChecks[3] = "R2" /\ RegistrationChecks[4] = "R3"
      /\ RegistrationChecks[5] = "R4" /\ RegistrationChecks[6] = "R7"
  BY DEF RegistrationChecks
<1>3. Order("register") = RegistrationChecks
  BY DEF Order
<1>4. QED
  BY <1>1, <1>2, <1>3

LEMMA LaterChecksAre ==
  /\ LaterChecks \in Seq(Checks) /\ Len(LaterChecks) = 4
  /\ LaterChecks[1] = "services" /\ LaterChecks[2] = "tee-version"
  /\ LaterChecks[3] = "tee-machine" /\ LaterChecks[4] = "test"
<1>1. LaterChecks \in Seq(Checks) /\ Len(LaterChecks) = 4
  BY DEF LaterChecks, Checks
<1>2. /\ LaterChecks[1] = "services" /\ LaterChecks[2] = "tee-version"
      /\ LaterChecks[3] = "tee-machine" /\ LaterChecks[4] = "test"
  BY DEF LaterChecks
<1>3. QED
  BY <1>1, <1>2

LEMMA OrderOfAll ==
  /\ Order("all") \in Seq(Checks) /\ Len(Order("all")) = 14
  /\ Order("all")[1] = "D1" /\ Order("all")[2] = "D5-funds"
  /\ Order("all")[3] = "D6" /\ Order("all")[4] = "D7"
  /\ Order("all")[5] = "R" /\ Order("all")[6] = "R1"
  /\ Order("all")[7] = "R2" /\ Order("all")[8] = "R3"
  /\ Order("all")[9] = "R4" /\ Order("all")[10] = "R7"
  /\ Order("all")[11] = "services" /\ Order("all")[12] = "tee-version"
  /\ Order("all")[13] = "tee-machine" /\ Order("all")[14] = "test"
<1>1. PICK v : v = DeployChecks \o RegistrationChecks
  OBVIOUS
<1>2. DeployChecks \in Seq(Checks) /\ RegistrationChecks \in Seq(Checks)
  BY OrderOfDeploy, OrderOfRegister
<1>3. /\ v \in Seq(Checks) /\ Len(v) = Len(DeployChecks) + Len(RegistrationChecks)
      /\ \A i \in 1 .. Len(DeployChecks) : v[i] = DeployChecks[i]
      /\ \A i \in 1 .. Len(RegistrationChecks) :
           v[Len(DeployChecks) + i] = RegistrationChecks[i]
  BY <1>1, <1>2, Concatenation
<1>4. Len(v) = 10
  <2>1. Len(DeployChecks) = 4 /\ Len(RegistrationChecks) = 6
    BY OrderOfDeploy, OrderOfRegister
  <2>2. QED
    BY <1>3, <2>1
<1>5. v[1] = "D1" /\ v[2] = "D5-funds" /\ v[3] = "D6" /\ v[4] = "D7"
  <2>1. Len(DeployChecks) = 4
    BY OrderOfDeploy
  <2>2. /\ v[1] = DeployChecks[1] /\ v[2] = DeployChecks[2]
        /\ v[3] = DeployChecks[3] /\ v[4] = DeployChecks[4]
    BY <1>3, <2>1
  <2>3. QED
    BY <2>2, OrderOfDeploy
<1>6. /\ v[5] = "R" /\ v[6] = "R1" /\ v[7] = "R2"
      /\ v[8] = "R3" /\ v[9] = "R4" /\ v[10] = "R7"
  <2>1. Len(DeployChecks) = 4 /\ Len(RegistrationChecks) = 6
    BY OrderOfDeploy, OrderOfRegister
  <2>2. /\ v[5] = RegistrationChecks[1] /\ v[6] = RegistrationChecks[2]
        /\ v[7] = RegistrationChecks[3] /\ v[8] = RegistrationChecks[4]
        /\ v[9] = RegistrationChecks[5] /\ v[10] = RegistrationChecks[6]
    BY <1>3, <2>1
  <2>3. QED
    BY <2>2, OrderOfRegister
<1>7. PICK w : w = v \o LaterChecks
  OBVIOUS
<1>8. LaterChecks \in Seq(Checks)
  BY LaterChecksAre
<1>9. v \in Seq(Checks)
  BY <1>3
<1>10. /\ w \in Seq(Checks) /\ Len(w) = Len(v) + Len(LaterChecks)
       /\ \A i \in 1 .. Len(v) : w[i] = v[i]
       /\ \A i \in 1 .. Len(LaterChecks) : w[Len(v) + i] = LaterChecks[i]
  BY <1>7, <1>8, <1>9, Concatenation
<1>11. Len(w) = 14
  BY <1>4, <1>10, LaterChecksAre
<1>12. /\ w[1] = v[1] /\ w[2] = v[2] /\ w[3] = v[3] /\ w[4] = v[4] /\ w[5] = v[5]
       /\ w[6] = v[6] /\ w[7] = v[7] /\ w[8] = v[8] /\ w[9] = v[9] /\ w[10] = v[10]
  BY <1>4, <1>10
<1>13. /\ w[11] = "services" /\ w[12] = "tee-version"
       /\ w[13] = "tee-machine" /\ w[14] = "test"
  BY <1>4, <1>10, LaterChecksAre
<1>14. Order("all") = w
  BY <1>1, <1>7 DEF Order
<1>15. QED
  BY <1>5, <1>6, <1>10, <1>11, <1>12, <1>13, <1>14

LEMMA OrderOfOthers ==
  ASSUME NEW step \in {"services", "tee-version", "tee-machine", "test"}
  PROVE  Order(step) \in Seq(Checks) /\ Len(Order(step)) = 1 /\ Order(step)[1] = step
<1>1. Order(step) = <<step>>
  BY DEF Order
<1>2. step \in Checks
  BY DEF Checks
<1>3. QED
  BY <1>1, <1>2

LEMMA OrderType ==
  ASSUME NEW step \in StepNames PROVE Order(step) \in Seq(Checks)
BY OrderOfAll, OrderOfRegister, OrderOfDeploy, OrderOfOthers DEF StepNames

LEMMA EndsTail ==
  ASSUME NEW rest \in Seq(Checks), NEW order \in Seq(Checks), rest # <<>>,
         Ends(rest, order)
  PROVE  /\ Head(rest) = order[Len(order) - Len(rest) + 1]
         /\ Tail(rest) \in Seq(Checks) /\ Len(Tail(rest)) = Len(rest) - 1
         /\ Ends(Tail(rest), order)
<1>1. /\ Head(rest) = rest[1] /\ Len(rest) \in Nat \ {0} /\ Len(order) \in Nat
      /\ Tail(rest) \in Seq(Checks) /\ Len(Tail(rest)) = Len(rest) - 1
      /\ \A i \in 1 .. Len(rest) - 1 : Tail(rest)[i] = rest[i + 1]
  OBVIOUS
<1>2. \A i \in 1 .. Len(rest) - 1 :
        Tail(rest)[i] = order[Len(order) - (Len(rest) - 1) + i]
  BY <1>1 DEF Ends
<1>3. QED
  BY <1>1, <1>2 DEF Ends

(* Where the run is, by its next check.                                    *)
LEMMA NextCheck ==
  ASSUME TypeInv, TodoInv, todo # <<>>, NEW check, check = Head(todo)
  PROVE  /\ exit = "running" /\ run.step \in StepNames
         /\ Order(run.step) \in Seq(Checks)
         /\ check = Order(run.step)[Len(Order(run.step)) - Len(todo) + 1]
         /\ Len(todo) \in 1 .. Len(Order(run.step))
         /\ Tail(todo) \in Seq(Checks) /\ Len(Tail(todo)) = Len(todo) - 1
         /\ Ends(Tail(todo), Order(run.step))
<1>1. exit = "running"
  BY DEF TypeInv, TypeOK
<1>2. /\ run.step \in StepNames /\ Ends(todo, Order(run.step))
      /\ todo \in Seq(Checks)
  BY <1>1 DEF TodoInv
<1>3. Order(run.step) \in Seq(Checks)
  BY <1>2, OrderType
<1>4. Len(todo) \in 1 .. Len(Order(run.step))
  BY <1>2, <1>3 DEF Ends
<1>5. QED
  BY <1>1, <1>2, <1>3, <1>4, EndsTail

LEMMA InAll ==
  ASSUME TypeInv, TodoInv, todo # <<>>, run.step = "all"
  PROVE  /\ Len(todo) \in 1 .. 14
         /\ Head(todo) = "D7" <=> Len(todo) = 11
         /\ Head(todo) = "R" <=> Len(todo) = 10
         /\ Head(todo) = "R1" <=> Len(todo) = 9
         /\ Head(todo) = "R2" <=> Len(todo) = 8
         /\ Head(todo) = "R3" <=> Len(todo) = 7
         /\ Head(todo) = "R4" <=> Len(todo) = 6
         /\ Head(todo) = "R7" <=> Len(todo) = 5
         /\ Head(todo) = "services" <=> Len(todo) = 4
         /\ Head(todo) = "tee-version" <=> Len(todo) = 3
         /\ Head(todo) = "tee-machine" <=> Len(todo) = 2
         /\ Head(todo) = "test" <=> Len(todo) = 1
<1>1. /\ Head(todo) = Order("all")[Len(Order("all")) - Len(todo) + 1]
      /\ Len(todo) \in 1 .. Len(Order("all"))
  BY NextCheck
<1>2. Len(Order("all")) = 14
  BY OrderOfAll
<1>3. PICK n, h : n = Len(todo) /\ h = Head(todo)
  OBVIOUS
<1>4. n \in 1 .. 14 /\ 14 - n + 1 = 15 - n
  <2>1. PICK m : m = Len(Order("all"))
    OBVIOUS
  <2>2. m = 14 /\ n \in 1 .. m
    BY <1>1, <1>2, <1>3, <2>1
  <2>3. QED
    BY <2>2
<1>5. PICK k, f : k = 15 - n /\ f = Order("all")
  OBVIOUS
<1>6. h = f[k]
  BY <1>1, <1>2, <1>3, <1>4, <1>5
<1>7. n = 15 - k /\ k \in 1 .. 14
  BY <1>4, <1>5
<1>8. /\ f[1] = "D1" /\ f[2] = "D5-funds" /\ f[3] = "D6" /\ f[4] = "D7"
      /\ f[5] = "R" /\ f[6] = "R1" /\ f[7] = "R2" /\ f[8] = "R3"
      /\ f[9] = "R4" /\ f[10] = "R7" /\ f[11] = "services" /\ f[12] = "tee-version"
      /\ f[13] = "tee-machine" /\ f[14] = "test"
  BY <1>5, OrderOfAll
<1>9. \/ n = 14 /\ h = "D1"
      \/ n = 13 /\ h = "D5-funds"
      \/ n = 12 /\ h = "D6"
      \/ n = 11 /\ h = "D7"
      \/ n = 10 /\ h = "R"
      \/ n = 9 /\ h = "R1"
      \/ n = 8 /\ h = "R2"
      \/ n = 7 /\ h = "R3"
      \/ n = 6 /\ h = "R4"
      \/ n = 5 /\ h = "R7"
      \/ n = 4 /\ h = "services"
      \/ n = 3 /\ h = "tee-version"
      \/ n = 2 /\ h = "tee-machine"
      \/ n = 1 /\ h = "test"
  BY <1>6, <1>7, <1>8
<1>10. /\ h = "D7" <=> n = 11
       /\ h = "R" <=> n = 10
       /\ h = "R1" <=> n = 9
       /\ h = "R2" <=> n = 8
       /\ h = "R3" <=> n = 7
       /\ h = "R4" <=> n = 6
       /\ h = "R7" <=> n = 5
       /\ h = "services" <=> n = 4
       /\ h = "tee-version" <=> n = 3
       /\ h = "tee-machine" <=> n = 2
       /\ h = "test" <=> n = 1
  BY <1>9
<1>11. QED
  BY <1>3, <1>4, <1>10

LEMMA InRegister ==
  ASSUME TypeInv, TodoInv, todo # <<>>, run.step = "register"
  PROVE  /\ Len(todo) \in 1 .. 6
         /\ Head(todo) = "R" <=> Len(todo) = 6
         /\ Head(todo) = "R1" <=> Len(todo) = 5
         /\ Head(todo) = "R2" <=> Len(todo) = 4
         /\ Head(todo) = "R3" <=> Len(todo) = 3
         /\ Head(todo) = "R4" <=> Len(todo) = 2
         /\ Head(todo) = "R7" <=> Len(todo) = 1
<1>1. /\ Head(todo) = RegistrationChecks[Len(RegistrationChecks) - Len(todo) + 1]
      /\ Len(todo) \in 1 .. Len(RegistrationChecks)
  BY NextCheck, OrderOfRegister
<1>2. Len(RegistrationChecks) = 6
  BY OrderOfRegister
<1>3. PICK n, h : n = Len(todo) /\ h = Head(todo)
  OBVIOUS
<1>4. n \in 1 .. 6 /\ 6 - n + 1 = 7 - n
  BY <1>1, <1>2, <1>3
<1>5. PICK k, f : k = 7 - n /\ f = RegistrationChecks
  OBVIOUS
<1>6. h = f[k]
  BY <1>1, <1>2, <1>3, <1>4, <1>5
<1>7. n = 7 - k /\ k \in 1 .. 6
  BY <1>4, <1>5
<1>8. /\ f[1] = "R" /\ f[2] = "R1" /\ f[3] = "R2" /\ f[4] = "R3"
      /\ f[5] = "R4" /\ f[6] = "R7"
  BY <1>5, OrderOfRegister
<1>9. \/ n = 6 /\ h = "R"
      \/ n = 5 /\ h = "R1"
      \/ n = 4 /\ h = "R2"
      \/ n = 3 /\ h = "R3"
      \/ n = 2 /\ h = "R4"
      \/ n = 1 /\ h = "R7"
  BY <1>6, <1>7, <1>8
<1>10. /\ h = "R" <=> n = 6
       /\ h = "R1" <=> n = 5
       /\ h = "R2" <=> n = 4
       /\ h = "R3" <=> n = 3
       /\ h = "R4" <=> n = 2
       /\ h = "R7" <=> n = 1
  BY <1>9
<1>11. QED
  BY <1>3, <1>4, <1>10

LEMMA InOthers ==
  ASSUME TypeInv, TodoInv, todo # <<>>, run.step \notin {"all", "register"}
  PROVE  Head(todo) \in {"D1", "D5-funds", "D6", "D7", "services", "tee-version",
                         "tee-machine", "test"}
<1>1. /\ run.step \in StepNames
      /\ Head(todo) = Order(run.step)[Len(Order(run.step)) - Len(todo) + 1]
      /\ Len(todo) \in 1 .. Len(Order(run.step))
  BY NextCheck
<1>2. CASE run.step = "deploy"
  <2>1. /\ Head(todo) = DeployChecks[Len(DeployChecks) - Len(todo) + 1]
        /\ Len(todo) \in 1 .. Len(DeployChecks)
    BY <1>1, <1>2, OrderOfDeploy
  <2>2. Len(DeployChecks) = 4
    BY OrderOfDeploy
  <2>3. PICK k : k = Len(DeployChecks) - Len(todo) + 1
    OBVIOUS
  <2>4. k = 1 \/ k = 2 \/ k = 3 \/ k = 4
    <3>1. PICK n, l : n = Len(todo) /\ l = Len(DeployChecks)
      OBVIOUS
    <3>2. n \in 1 .. 4 /\ k = 4 - n + 1
      BY <2>1, <2>2, <2>3, <3>1
    <3>3. QED
      BY <3>2
  <2>5. QED
    BY <2>1, <2>3, <2>4, OrderOfDeploy
<1>3. CASE run.step # "deploy"
  <2>1. run.step \in {"services", "tee-version", "tee-machine", "test"}
    BY <1>1, <1>3 DEF StepNames
  <2>2. Head(todo) = run.step
    BY <1>1, <2>1, OrderOfOthers
  <2>3. QED
    BY <2>1, <2>2
<1>4. QED
  BY <1>2, <1>3

LEMMA LeftIs ==
  /\ Later \in 0 .. 4
  /\ Left("D7-sender") = 11 /\ Left("D7-id") = 11
  /\ Left("R") = Later + 6 /\ Left("R1") = Later + 5 /\ Left("R2-format") = Later + 5
  /\ Left("R2") = Later + 4 /\ Left("R3") = Later + 3 /\ Left("R4") = Later + 2
  /\ Left("R7") = Later + 1
  /\ Left("S2") = 4 /\ Left("V4") = 3 /\ Left("E1") = 1
<1>1. Later \in 0 .. 4
  BY DEF Later
<1>2. Left("D7-sender") = 11 /\ Left("D7-id") = 11
  BY DEF Left
<1>3. Left("R") = Later + 6 /\ Left("R1") = Later + 5 /\ Left("R2-format") = Later + 5
  BY DEF Left
<1>4. Left("R2") = Later + 4 /\ Left("R3") = Later + 3 /\ Left("R4") = Later + 2
  BY DEF Left
<1>5. Left("R7") = Later + 1
  BY DEF Left
<1>6. Left("S2") = 4 /\ Left("V4") = 3 /\ Left("E1") = 1
  BY DEF Left
<1>7. QED
  BY <1>1, <1>2, <1>3, <1>4, <1>5, <1>6

(* The next check is the one that as many checks are left for as there are.*)
LEMMA Turn ==
  ASSUME TypeInv, TodoInv, todo # <<>>
  PROVE  /\ Head(todo) \in {"R", "R1", "R2", "R3", "R4", "R7"} =>
              /\ run.step \in {"register", "all"} /\ Len(todo) = Left(Head(todo))
              /\ Len(todo) > Later /\ Len(todo) <= Later + 6
         /\ run.step = "all" /\ Head(todo) = "D7" => Len(todo) = Left("D7-id")
         /\ run.step \in {"register", "all"} =>
              /\ Len(todo) = Left("R3") => Head(todo) = "R3"
              /\ Len(todo) = Left("R4") => Head(todo) = "R4"
<1>1. CASE run.step = "all"
  <2>1. Later = 4
    BY <1>1 DEF Later
  <2>2. PICK n, h : n = Len(todo) /\ h = Head(todo)
    OBVIOUS
  <2>3. /\ h = "R" <=> n = 10
        /\ h = "R1" <=> n = 9
        /\ h = "R2" <=> n = 8
        /\ h = "R3" <=> n = 7
        /\ h = "R4" <=> n = 6
        /\ h = "R7" <=> n = 5
        /\ h = "D7" <=> n = 11
    BY <1>1, <2>2, InAll
  <2>4. /\ Left("R") = 10
        /\ Left("R1") = 9
        /\ Left("R2") = 8
        /\ Left("R3") = 7
        /\ Left("R4") = 6
        /\ Left("R7") = 5
        /\ Left("D7-id") = 11
    BY <2>1, LeftIs
  <2>5. h \in {"R", "R1", "R2", "R3", "R4", "R7"} =>
          n = Left(h) /\ n > Later /\ n <= Later + 6
    BY <2>1, <2>3, <2>4
  <2>6. QED
    BY <1>1, <2>2, <2>3, <2>4, <2>5
<1>2. CASE run.step = "register"
  <2>1. Later = 0
    BY <1>2 DEF Later
  <2>2. PICK n, h : n = Len(todo) /\ h = Head(todo)
    OBVIOUS
  <2>3. /\ h = "R" <=> n = 6
        /\ h = "R1" <=> n = 5
        /\ h = "R2" <=> n = 4
        /\ h = "R3" <=> n = 3
        /\ h = "R4" <=> n = 2
        /\ h = "R7" <=> n = 1
    BY <1>2, <2>2, InRegister
  <2>4. /\ Left("R") = 6
        /\ Left("R1") = 5
        /\ Left("R2") = 4
        /\ Left("R3") = 3
        /\ Left("R4") = 2
        /\ Left("R7") = 1
    BY <2>1, LeftIs
  <2>5. h \in {"R", "R1", "R2", "R3", "R4", "R7"} =>
          n = Left(h) /\ n > Later /\ n <= Later + 6
    BY <2>1, <2>3, <2>4
  <2>6. QED
    BY <1>2, <2>2, <2>3, <2>4, <2>5
<1>3. CASE run.step \notin {"all", "register"}
  BY <1>3, InOthers
<1>4. QED
  BY <1>1, <1>2, <1>3

LEMMA SameLeft ==
  ASSUME run'.step = run.step
  PROVE  Later' = Later /\ \A id : Left(id)' = Left(id)
<1>1. Later' = Later
  BY DEF Later
<1>2. ASSUME NEW id PROVE Left(id)' = Left(id)
  BY <1>1 DEF Left
<1>3. QED
  BY <1>1, <1>2

(* What becomes of the order when a check is over ...                      *)
LEMMA TailInOrder ==
  ASSUME TypeInv, TodoInv, todo # <<>>, todo' = Tail(todo), exit' = exit,
         run'.step = run.step
  PROVE  TodoInv' /\ Len(todo') = Len(todo) - 1 /\ Len(todo') \in Nat
<1>1. /\ run.step \in StepNames /\ Ends(Tail(todo), Order(run.step))
      /\ Tail(todo) \in Seq(Checks) /\ Len(Tail(todo)) = Len(todo) - 1
  BY NextCheck
<1>2. Ends(todo, Order(run.step))' <=> Ends(Tail(todo), Order(run.step))
  BY DEF Ends, Order
<1>3. Len(todo') \in Nat
  BY <1>1
<1>4. exit = "running"
  BY NextCheck
<1>5. QED
  BY <1>1, <1>2, <1>3, <1>4 DEF TodoInv

(* ... and when the registration checks return early.                      *)
LEMMA ReturnInOrder ==
  ASSUME TypeInv, TodoInv, todo # <<>>, Head(todo) \in {"R", "R1"},
         todo' = IF run.step = "all" THEN LaterChecks ELSE <<>>,
         exit' = exit, run'.step = run.step
  PROVE  TodoInv' /\ Len(todo') = Later /\ Len(todo') < Len(todo) /\ Len(todo') \in Nat
<1>0. exit' = "running"
  BY NextCheck
<1>1. /\ run.step \in {"register", "all"} /\ Len(todo) > Later
  BY Turn
<1>2. CASE run.step = "all"
  <2>1. todo' = LaterChecks /\ Later = 4
    BY <1>2 DEF Later
  <2>2. Len(todo') = 4 /\ todo' \in Seq(Checks)
    BY <2>1, LaterChecksAre
  <2>3. \A i \in 1 .. 4 : todo'[i] = Order("all")[14 - 4 + i]
    <3>1. SUFFICES ASSUME NEW i \in 1 .. 4 PROVE todo'[i] = Order("all")[14 - 4 + i]
      OBVIOUS
    <3>2. /\ todo'[1] = "services" /\ todo'[2] = "tee-version"
          /\ todo'[3] = "tee-machine" /\ todo'[4] = "test"
      BY <2>1, LaterChecksAre
    <3>3. PICK f : f = Order("all")
      OBVIOUS
    <3>4. /\ f[11] = "services" /\ f[12] = "tee-version"
          /\ f[13] = "tee-machine" /\ f[14] = "test"
      BY <3>3, OrderOfAll
    <3>5. i = 1 \/ i = 2 \/ i = 3 \/ i = 4
      OBVIOUS
    <3>6. QED
      BY <3>2, <3>3, <3>4, <3>5
  <2>4. Len(Order("all")) = 14
    BY OrderOfAll
  <2>5. PICK f, t, m : f = Order("all") /\ t = todo' /\ m = Len(Order("all"))
    OBVIOUS
  <2>6. Ends(t, f)
    <3>1. Len(t) = 4 /\ Len(f) = 14
      BY <2>2, <2>4, <2>5
    <3>2. \A i \in 1 .. 4 : t[i] = f[14 - 4 + i]
      BY <2>3, <2>5
    <3>3. QED
      BY <3>1, <3>2 DEF Ends
  <2>7. Ends(todo, Order(run.step))'
    BY <1>2, <2>5, <2>6 DEF Ends, Order
  <2>8. run'.step \in StepNames
    BY <1>2 DEF StepNames
  <2>9. TodoInv'
    BY <1>0, <2>2, <2>7, <2>8 DEF TodoInv
  <2>10. Len(todo') < Len(todo) /\ Len(todo') = Later /\ Len(todo') \in Nat
    <3>1. Len(todo') = Later
      BY <2>1, <2>2
    <3>2. Later \in Nat /\ Later < Len(todo)
      BY <1>1, <2>1
    <3>3. QED
      BY <3>1, <3>2
  <2>11. QED
    BY <2>9, <2>10
<1>3. CASE run.step = "register"
  <2>1. todo' = <<>> /\ Later = 0
    BY <1>3 DEF Later
  <2>2. Len(todo') = 0 /\ todo' \in Seq(Checks)
    <3>1. Len(<<>>) = 0 /\ <<>> \in Seq(Checks)
      OBVIOUS
    <3>2. QED
      BY <2>1, <3>1
  <2>3. RegistrationChecks \in Seq(Checks)
    BY OrderOfRegister
  <2>4. Ends(<<>>, RegistrationChecks)
    BY <2>3 DEF Ends
  <2>5. Order(run.step)' = RegistrationChecks
    BY <1>3, OrderOfRegister DEF Order
  <2>6. Ends(todo, Order(run.step))'
    BY <2>1, <2>4, <2>5 DEF Ends
  <2>7. run'.step \in StepNames
    BY <1>3 DEF StepNames
  <2>8. TodoInv'
    BY <1>0, <2>2, <2>6, <2>7 DEF TodoInv
  <2>9. Len(todo') < Len(todo) /\ Len(todo') = Later /\ Len(todo') \in Nat
    BY <1>1, <2>1, <2>2
  <2>10. QED
    BY <2>8, <2>9
<1>4. QED
  BY <1>1, <1>2, <1>3

-----------------------------------------------------------------------------
(* A step of the run, that adds these results to the report.               *)

Goes(results) ==
  /\ todo # <<>> /\ exit = "running" /\ exit' = exit
  /\ extensions' = extensions /\ manager' = manager /\ balance' = balance
  /\ config' = config /\ exported' = exported /\ dotenv' = dotenv
  /\ silent' = silent /\ report' = report \cup results
  /\ run'.step = run.step /\ run'.given = run.given
  /\ run'.env = run.env /\ run'.dotenv = run.dotenv
  /\ (run'.id = run.id /\ run'.sender = run.sender) \/ Head(todo) = "R"
  /\ run'.counter = run.counter \/ Head(todo) = "R1"
  /\ missed' = missed \/ Head(todo) = "R7"
  /\ run'.rewritten = run.rewritten \/ Head(todo) = "D7"
  /\ TodoInv' /\ Len(todo') < Len(todo) /\ Len(todo') \in Nat

LEMMA GoesType ==
  ASSUME IInv, NEW results, Goes(results), \A r \in results : r[2] \in Statuses,
         run' \in Runs, run'.counter <= Len(extensions),
         missed' \subseteq 0 .. MaxExtensions - 1, moves' \in 0 .. MaxMoves
  PROVE  TypeInv'
<1>1. \A r \in report' : r[2] \in Statuses
  BY DEF IInv, TypeInv, TypeOK, Goes
<1>2. TypeOK'
  BY <1>1 DEF IInv, TypeInv, TypeOK, Goes
<1>3. extensions' \in Seq(Extensions) /\ exported' \in Variables /\ dotenv' \in Variables
  BY DEF IInv, TypeInv, Goes
<1>4. run'.counter <= Len(extensions')
  BY DEF Goes
<1>5. QED
  BY <1>2, <1>3, <1>4 DEF TypeInv

(* The report has no result of a check that is still to come.              *)
LEMMA NotYet ==
  ASSUME TypeInv, TodoInv, todo # <<>>, NEW r, InTurn(r)
  PROVE  /\ Head(todo) = "R" => r[1] \notin RegistrationIds
         /\ Head(todo) = "R1" => r[1] \notin {"R1", "R2-format", "R2", "R3", "R4", "R7"}
         /\ Head(todo) = "R7" => r[1] # "R7"
         /\ Head(todo) = "D7" /\ run.step = "all" =>
              r[1] \notin RegistrationIds \cup ReaderIds
<1>1. Len(todo) \in Nat /\ Later \in 0 .. 4
  BY LeftIs DEF TodoInv
<1>2. CASE Head(todo) = "R"
  <2>1. Len(todo) = Later + 6
    BY <1>2, Turn, LeftIs
  <2>2. \A id \in RegistrationIds : Left(id) <= Later + 6
    BY <1>1, LeftIs DEF RegistrationIds
  <2>3. r[1] \notin RegistrationIds
    <3>1. SUFFICES ASSUME r[1] \in RegistrationIds PROVE FALSE
      OBVIOUS
    <3>2. Len(todo) < Left(r[1])
      BY <3>1 DEF InTurn
    <3>3. PICK l, n : l = Left(r[1]) /\ n = Later + 6
      OBVIOUS
    <3>4. n \in Nat /\ l <= n /\ n < l /\ l \in Nat
      BY <1>1, <2>1, <2>2, <3>1, <3>2, <3>3, LeftIs DEF RegistrationIds
    <3>5. QED
      BY <3>4
  <2>4. QED
    BY <1>2, <2>3
<1>3. CASE Head(todo) = "R1"
  <2>1. Len(todo) = Later + 5
    BY <1>3, Turn, LeftIs
  <2>2. ASSUME r[1] \in {"R1", "R2-format", "R2", "R3", "R4", "R7"} PROVE FALSE
    <3>1. Len(todo) < Left(r[1])
      BY <2>2 DEF InTurn, RegistrationIds
    <3>2. Left(r[1]) <= Later + 5 /\ Left(r[1]) \in Nat
      BY <1>1, <2>2, LeftIs
    <3>3. PICK l, n : l = Left(r[1]) /\ n = Later + 5
      OBVIOUS
    <3>4. n \in Nat /\ l <= n /\ n < l /\ l \in Nat
      BY <1>1, <2>1, <3>1, <3>2, <3>3
    <3>5. QED
      BY <3>4
  <2>3. QED
    BY <1>3, <2>2
<1>4. CASE Head(todo) = "R7"
  <2>1. Len(todo) = Left("R7")
    BY <1>4, Turn
  <2>2. ASSUME r[1] = "R7" PROVE FALSE
    <3>1. Len(todo) < Left("R7")
      BY <2>2 DEF InTurn, RegistrationIds
    <3>2. QED
      BY <1>1, <2>1, <3>1
  <2>3. QED
    BY <1>4, <2>2
<1>5. CASE Head(todo) = "D7" /\ run.step = "all"
  <2>1. Len(todo) = Left("D7-id") /\ Later = 4
    BY <1>5, Turn DEF Later
  <2>2. ASSUME r[1] \in RegistrationIds \cup ReaderIds PROVE FALSE
    <3>1. Len(todo) < Left(r[1])
      BY <1>5, <2>2 DEF InTurn
    <3>2. Left(r[1]) <= 11 /\ Left(r[1]) \in Nat
      BY <2>1, <2>2, LeftIs DEF RegistrationIds, ReaderIds
    <3>3. PICK l : l = Left(r[1])
      OBVIOUS
    <3>4. l <= 11 /\ 11 < l /\ l \in Nat
      BY <2>1, <3>1, <3>2, <3>3, LeftIs
    <3>5. QED
      BY <3>4
  <2>3. QED
    BY <1>5, <2>2
<1>6. QED
  BY <1>2, <1>3, <1>4, <1>5

(* What a result rests on does not change once it is in the report.        *)
LEMMA GoesBacked ==
  ASSUME IInv, NEW results, Goes(results), NEW r \in report
  PROVE  InTurn(r)' /\ Backed(r)'
<1>1. InTurn(r) /\ Backed(r)
  BY DEF IInv, ReportInv
<1>2. /\ run'.step = run.step /\ run'.env = run.env /\ run'.dotenv = run.dotenv
      /\ run'.given = run.given /\ extensions' = extensions /\ config' = config
  BY DEF Goes
<1>3. TypeInv /\ TodoInv /\ todo # <<>>
  BY DEF IInv, Goes
<1>4. Len(todo) \in Nat /\ Len(todo') \in Nat /\ Len(todo') < Len(todo)
  BY <1>3 DEF Goes, TodoInv
<1>5. InTurn(r)'
  <2>1. Left(r[1])' = Left(r[1])
    BY <1>2, SameLeft
  <2>2. ASSUME Len(todo) < Left(r[1]), r[1] \in RegistrationIds \cup ReaderIds
        PROVE  Len(todo') < Left(r[1])'
    <3>1. Left(r[1]) \in Nat
      BY <2>2, LeftIs DEF RegistrationIds, ReaderIds
    <3>2. PICK l, m, n : l = Left(r[1]) /\ m = Len(todo') /\ n = Len(todo)
      OBVIOUS
    <3>3. l \in Nat /\ m \in Nat /\ n \in Nat /\ m < n /\ n < l
      BY <1>4, <2>2, <3>1, <3>2
    <3>4. QED
      BY <2>1, <3>2, <3>3
  <2>3. QED
    BY <1>1, <1>2, <2>2 DEF InTurn
<1>6. r[1] \in {"R2", "R3", "R4", "R7"} => run'.id = run.id /\ run'.sender = run.sender
  BY <1>1, <1>3, NotYet DEF Goes, RegistrationIds
<1>7. r[1] = "R7" => run'.counter = run.counter /\ missed' = missed
  BY <1>1, <1>3, NotYet DEF Goes
<1>8. ASSUME SameFile', r[1] \in RegistrationIds \cup ReaderIds PROVE SameFile
  BY <1>1, <1>2, <1>3, <1>8, NotYet DEF Goes, SameFile
<1>9. r = <<"R2", "PASS">> => (InRange /\ Extension(run.id).sender = run.sender)'
  BY <1>1, <1>2, <1>6 DEF Backed, InRange, Extension
<1>10. r = <<"R3", "PASS">> =>
         (InRange /\ DefaultPrivateKey(run.env) \in Extension(run.id).owners)'
  BY <1>1, <1>2, <1>6 DEF Backed, InRange, Extension
<1>11. r = <<"R4", "PASS">> => (InRange /\ Extension(run.id).evm)'
  BY <1>1, <1>2, <1>6 DEF Backed, InRange, Extension
<1>12. r = <<"R7", "PASS">> /\ missed' = {} =>
         (\A c, d \in 0 .. run.counter - 1 :
           Extension(c).sender = run.sender /\ Extension(d).sender = run.sender
           => c = d)'
  BY <1>1, <1>2, <1>6, <1>7 DEF Backed, Extension
<1>13. r = <<"V2", "WARN">> /\ run'.step = "all" =>
         run'.dotenv["DEPLOYMENT_PRIVATE_KEY"] = ""
  BY <1>1, <1>2 DEF Backed
<1>14. SameFile' =>
       /\ r \in {<<"D7-id", "FAIL">>, <<"S2", "FAIL">>, <<"V4", "FAIL">>,
                 <<"R2-format", "FAIL">>, <<"R", "SKIP">>}
            => ~ WellFormed(config').id
       /\ r \in {<<"D7-sender", "FAIL">>, <<"E1", "FAIL">>}
            => ~ WellFormed(config').sender
  <2>1. SUFFICES ASSUME SameFile',
                        r \in {<<"D7-id", "FAIL">>, <<"S2", "FAIL">>, <<"V4", "FAIL">>,
                               <<"R2-format", "FAIL">>, <<"R", "SKIP">>,
                               <<"D7-sender", "FAIL">>, <<"E1", "FAIL">>}
                 PROVE  Backed(r) /\ SameFile /\ config' = config
    BY DEF Backed
  <2>2. r[1] \in RegistrationIds \cup ReaderIds
    BY <2>1 DEF RegistrationIds, ReaderIds
  <2>3. QED
    BY <1>1, <1>2, <1>8, <2>1, <2>2
<1>15. r[2] \in Statuses
  BY <1>1 DEF Backed
<1>16. Backed(r)'
  BY <1>9, <1>10, <1>11, <1>12, <1>13, <1>14, <1>15 DEF Backed
<1>17. QED
  BY <1>5, <1>16

(* The check with this result is made in this step. *)
Made(id) == Len(todo') < Left(id) /\ Left(id) <= Len(todo)

LEMMA GoesReport ==
  ASSUME IInv, NEW results, Goes(results),
         \A r \in results : InTurn(r)' /\ Backed(r)'
  PROVE  ReportInv'
<1>1. \A r \in report : InTurn(r)' /\ Backed(r)'
  BY GoesBacked
<1>2. report' = report \cup results
  BY DEF Goes
<1>3. QED
  BY <1>1, <1>2 DEF ReportInv

LEMMA GoesComplete ==
  ASSUME IInv, NEW results, Goes(results),
         <<"R2", "PASS">> \in results => Head(todo) = "R2",
         <<"R2", "PASS">> \in report' /\ run.step \in {"register", "all"} =>
           \A id \in {"R3", "R4"} :
             Made(id) => <<id, "PASS">> \in results \/ <<id, "FAIL">> \in results,
         SameFile' /\ ~ WellFormed(config).id =>
           \A id \in {"D7-id", "S2", "V4"} : Made(id) => <<id, "FAIL">> \in results,
         SameFile' /\ ~ WellFormed(config).sender =>
           \A id \in {"D7-sender", "E1"} : Made(id) => <<id, "FAIL">> \in results
  PROVE  Complete'
<1>1. /\ run'.step = run.step /\ run'.given = run.given
      /\ config' = config /\ report' = report \cup results
      /\ exit = "running" /\ todo # <<>> /\ Len(todo') \in Nat
  BY DEF Goes
<1>2. Complete /\ TypeInv /\ TodoInv
  BY <1>1 DEF IInv, CompleteInv
<1>3. \A id : Left(id)' = Left(id)
  BY <1>1, SameLeft
<1>4. Len(todo) \in Nat
  BY <1>2 DEF TodoInv
<1>5. ASSUME NEW id \in RegistrationIds \cup ReaderIds, Len(todo') < Left(id)'
      PROVE  Len(todo) < Left(id) \/ Made(id)
  <2>1. Left(id) \in Nat
    BY LeftIs DEF RegistrationIds, ReaderIds
  <2>2. Len(todo') < Left(id)
    BY <1>3, <1>5
  <2>3. QED
    BY <1>4, <2>1, <2>2 DEF Made
<1>6. ASSUME run'.step \in {"register", "all"}, <<"R2", "PASS">> \in report',
             NEW id \in {"R3", "R4"}, Len(todo') < Left(id)'
      PROVE  <<id, "PASS">> \in report' \/ <<id, "FAIL">> \in report'
  <2>1. CASE Made(id)
    BY <1>1, <1>6, <2>1
  <2>2. CASE ~ Made(id)
    <3>1. Len(todo) < Left(id)
      BY <1>5, <1>6, <2>2 DEF RegistrationIds
    <3>2. Left(id) < Left("R2") /\ Left(id) \in Nat /\ Left("R2") \in Nat
      BY LeftIs
    <3>3. Head(todo) = "R2" => Len(todo) = Left("R2")
      BY <1>1, <1>2, Turn
    <3>4. Head(todo) # "R2"
      BY <1>4, <3>1, <3>2, <3>3
    <3>5. <<"R2", "PASS">> \in report
      BY <1>1, <1>6, <3>4
    <3>6. <<id, "PASS">> \in report \/ <<id, "FAIL">> \in report
      BY <1>1, <1>2, <1>6, <3>1, <3>5 DEF Complete, Says2
    <3>7. QED
      BY <1>1, <3>6
  <2>3. QED
    BY <2>1, <2>2
<1>7. ASSUME SameFile', NEW id \in ReaderIds, Len(todo') < Left(id)', ~ Made(id)
      PROVE  SameFile /\ Len(todo) < Left(id)
  <2>1. Len(todo) < Left(id)
    BY <1>5, <1>7
  <2>2. SameFile \/ (Head(todo) = "D7" /\ run.step = "all")
    BY <1>1, <1>7 DEF SameFile, Goes
  <2>3. Left(id) <= 11 /\ Left(id) \in Nat
    BY LeftIs DEF ReaderIds
  <2>4. Head(todo) = "D7" /\ run.step = "all" => Len(todo) = Left("D7-id")
    BY <1>1, <1>2, Turn
  <2>5. ~ (Head(todo) = "D7" /\ run.step = "all")
    BY <2>1, <2>3, <2>4, LeftIs
  <2>6. QED
    BY <2>1, <2>2, <2>5
<1>8. ASSUME SameFile', ~ WellFormed(config').id, NEW id \in {"D7-id", "S2", "V4"},
             Len(todo') < Left(id)'
      PROVE  <<id, "FAIL">> \in report'
  <2>1. CASE Made(id)
    BY <1>1, <1>8, <2>1
  <2>2. CASE ~ Made(id)
    <3>1. SameFile /\ Len(todo) < Left(id)
      BY <1>7, <1>8, <2>2 DEF ReaderIds
    <3>2. <<id, "FAIL">> \in report
      BY <1>1, <1>2, <1>8, <3>1 DEF Complete
    <3>3. QED
      BY <1>1, <3>2
  <2>3. QED
    BY <2>1, <2>2
<1>9. ASSUME SameFile', ~ WellFormed(config').sender, NEW id \in {"D7-sender", "E1"},
             Len(todo') < Left(id)'
      PROVE  <<id, "FAIL">> \in report'
  <2>1. CASE Made(id)
    BY <1>1, <1>9, <2>1
  <2>2. CASE ~ Made(id)
    <3>1. SameFile /\ Len(todo) < Left(id)
      BY <1>7, <1>9, <2>2 DEF ReaderIds
    <3>2. <<id, "FAIL">> \in report
      BY <1>1, <1>2, <1>9, <3>1 DEF Complete
    <3>3. QED
      BY <1>1, <3>2
  <2>3. QED
    BY <2>1, <2>2
<1>10. QED
  BY <1>6, <1>8, <1>9 DEF Complete, Says2

LEMMA GoesRead ==
  ASSUME IInv, NEW results, Goes(results),
         SameFile' /\ Made("R") => run'.id = config.id /\ run'.sender = config.sender
  PROVE  ReadInv'
<1>1. /\ run'.step = run.step /\ run'.env = run.env /\ run'.dotenv = run.dotenv
      /\ run'.given = run.given /\ config' = config /\ exit = "running" /\ todo # <<>> /\ Len(todo') \in Nat
      /\ (run'.id = run.id /\ run'.sender = run.sender) \/ Head(todo) = "R"
      /\ run'.rewritten = run.rewritten \/ Head(todo) = "D7"
  BY DEF Goes
<1>2. ReadInv /\ TypeInv /\ TodoInv
  BY DEF IInv
<1>3. Len(todo) \in Nat /\ Left("R") \in Nat /\ Left("R")' = Left("R")
  BY <1>1, <1>2, SameLeft, LeftIs DEF TodoInv
<1>4. ASSUME SameFile', Len(todo') < Left("R")'
      PROVE  run'.id = config'.id /\ run'.sender = config'.sender
  <2>1. CASE Made("R")
    BY <1>1, <1>4, <2>1
  <2>2. CASE ~ Made("R")
    <3>1. Len(todo) < Left("R")
      BY <1>3, <1>4, <2>2 DEF Made
    <3>2. Head(todo) = "R" => Len(todo) = Left("R")
      BY <1>1, <1>2, Turn
    <3>3. Head(todo) # "R"
      BY <1>3, <3>1, <3>2
    <3>4. run.step = "all" /\ Head(todo) = "D7" => Len(todo) = Left("D7-id")
      BY <1>1, <1>2, Turn
    <3>5. Left("R") <= 10 /\ Left("D7-id") = 11
      BY LeftIs
    <3>6. run.step = "all" => Head(todo) # "D7"
      BY <1>3, <3>1, <3>4, <3>5
    <3>7. SameFile
      BY <1>1, <1>4, <3>6 DEF SameFile
    <3>8. run.id = config.id /\ run.sender = config.sender
      BY <1>1, <1>2, <3>1, <3>7 DEF ReadInv
    <3>9. QED
      BY <1>1, <3>3, <3>8
  <2>3. QED
    BY <2>1, <2>2
<1>5. QED
  BY <1>1, <1>2, <1>4 DEF ReadInv

(* All that is left to show of a step of the run.                          *)
LEMMA GoesInv ==
  ASSUME IInv, NEW results, Goes(results), TypeInv', ReportInv', Complete', ReadInv'
  PROVE  IInv'
<1>1. exit' = "running" /\ TodoInv'
  BY DEF Goes
<1>2. QED
  BY <1>1 DEF IInv, CompleteInv, ExitInv

(* When one check is over, it is the one that was next.                    *)
LEMMA MadeNow ==
  ASSUME TypeInv, TodoInv, todo # <<>>, Len(todo') = Len(todo) - 1
  PROVE  /\ run.step \in {"register", "all"} =>
              /\ Made("R3") => Head(todo) = "R3"
              /\ Made("R4") => Head(todo) = "R4"
         /\ run.step = "all" =>
              /\ Made("R") => Head(todo) = "R"
              /\ Made("D7-id") => Head(todo) = "D7"
              /\ Made("D7-sender") => Head(todo) = "D7"
              /\ Made("S2") => Head(todo) = "services"
              /\ Made("V4") => Head(todo) = "tee-version"
              /\ Made("E1") => Head(todo) = "test"
<1>1. Len(todo) \in Nat
  BY DEF TodoInv
<1>2. ASSUME NEW id, Left(id) \in Nat, Made(id) PROVE Len(todo) = Left(id)
  BY <1>1, <1>2 DEF Made
<1>3. ASSUME run.step = "all"
      PROVE  /\ Made("R") => Head(todo) = "R"
             /\ Made("R3") => Head(todo) = "R3"
             /\ Made("R4") => Head(todo) = "R4"
             /\ Made("D7-id") => Head(todo) = "D7"
             /\ Made("D7-sender") => Head(todo) = "D7"
             /\ Made("S2") => Head(todo) = "services"
             /\ Made("V4") => Head(todo) = "tee-version"
             /\ Made("E1") => Head(todo) = "test"
  <2>1. Later = 4
    BY <1>3 DEF Later
  <2>2. /\ Left("R") = 10 /\ Left("R3") = 7 /\ Left("R4") = 6 /\ Left("D7-id") = 11
        /\ Left("D7-sender") = 11 /\ Left("S2") = 4 /\ Left("V4") = 3 /\ Left("E1") = 1
    BY <2>1, LeftIs
  <2>3. PICK n, h : n = Len(todo) /\ h = Head(todo)
    OBVIOUS
  <2>4. /\ n = 10 => h = "R"
        /\ n = 7 => h = "R3"
        /\ n = 6 => h = "R4"
        /\ n = 11 => h = "D7"
        /\ n = 4 => h = "services"
        /\ n = 3 => h = "tee-version"
        /\ n = 1 => h = "test"
    BY <1>3, <2>3, InAll
  <2>5. /\ Made("R") => n = 10
        /\ Made("R3") => n = 7
        /\ Made("R4") => n = 6
        /\ Made("D7-id") => n = 11
        /\ Made("D7-sender") => n = 11
        /\ Made("S2") => n = 4
        /\ Made("V4") => n = 3
        /\ Made("E1") => n = 1
    BY <1>2, <2>2, <2>3
  <2>6. QED
    BY <2>3, <2>4, <2>5
<1>4. ASSUME run.step = "register"
      PROVE  /\ Made("R3") => Head(todo) = "R3"
             /\ Made("R4") => Head(todo) = "R4"
  <2>1. Later = 0
    BY <1>4 DEF Later
  <2>2. Left("R3") = 3 /\ Left("R4") = 2
    BY <2>1, LeftIs
  <2>3. PICK n, h : n = Len(todo) /\ h = Head(todo)
    OBVIOUS
  <2>4. /\ n = 3 => h = "R3"
        /\ n = 2 => h = "R4"
    BY <1>4, <2>3, InRegister
  <2>5. QED
    BY <1>2, <2>2, <2>3, <2>4
<1>5. QED
  BY <1>3, <1>4

(* The results of the check that was next are in turn.                     *)
LEMMA NowInTurn ==
  ASSUME TypeInv, TodoInv, todo # <<>>, Len(todo') \in Nat, Len(todo') < Len(todo),
         run'.step = run.step, NEW r,
         \/ r[1] \notin RegistrationIds \cup ReaderIds
         \/ r[1] \in RegistrationIds /\ Head(todo) \in {"R", "R1", "R2", "R3", "R4", "R7"}
            /\ Left(r[1]) = Left(Head(todo))
         \/ r[1] \in ReaderIds /\ (run.step = "all" => Len(todo) = Left(r[1]))
  PROVE  InTurn(r)'
<1>1. Left(r[1])' = Left(r[1])
  BY SameLeft
<1>2. CASE r[1] \notin RegistrationIds \cup ReaderIds
  BY <1>2 DEF InTurn
<1>3. CASE r[1] \in RegistrationIds
  <2>1. r[1] \notin ReaderIds
    BY <1>3 DEF RegistrationIds, ReaderIds
  <2>2. Head(todo) \in {"R", "R1", "R2", "R3", "R4", "R7"} /\ Left(r[1]) = Left(Head(todo))
    BY <1>3, <2>1
  <2>3. run.step \in {"register", "all"} /\ Len(todo) = Left(Head(todo))
    BY <2>2, Turn
  <2>4. Len(todo') < Left(r[1])
    BY <2>2, <2>3
  <2>5. QED
    BY <1>1, <2>1, <2>3, <2>4 DEF InTurn
<1>4. CASE r[1] \in ReaderIds
  <2>1. r[1] \notin RegistrationIds
    BY <1>4 DEF RegistrationIds, ReaderIds
  <2>2. QED
    BY <1>1, <1>4, <2>1 DEF InTurn
<1>5. QED
  BY <1>2, <1>3, <1>4

(* A check that says what it found, with the run's records kept or changed *)
(* by the check that may change them.                                      *)
LEMMA SaysInv ==
  ASSUME IInv, NEW results, todo # <<>>, Says(results),
         run' \in Runs, run'.counter <= Len(extensions),
         missed' \subseteq 0 .. MaxExtensions - 1, moves' \in 0 .. MaxMoves,
         run'.step = run.step, run'.given = run.given,
         run'.env = run.env, run'.dotenv = run.dotenv,
         (run'.id = run.id /\ run'.sender = run.sender) \/ Head(todo) = "R",
         run'.counter = run.counter \/ Head(todo) = "R1",
         missed' = missed \/ Head(todo) = "R7",
         run'.rewritten = run.rewritten \/ Head(todo) = "D7",
         \A r \in results : InTurn(r)' /\ Backed(r)',
         <<"R2", "PASS">> \in results => Head(todo) = "R2",
         \A id \in {"R3", "R4"} :
           Head(todo) = id => <<id, "PASS">> \in results \/ <<id, "FAIL">> \in results,
         SameFile' /\ ~ WellFormed(config).id =>
           /\ Head(todo) = "D7" => <<"D7-id", "FAIL">> \in results
           /\ Head(todo) = "services" => <<"S2", "FAIL">> \in results
           /\ Head(todo) = "tee-version" => <<"V4", "FAIL">> \in results,
         SameFile' /\ ~ WellFormed(config).sender =>
           /\ Head(todo) = "D7" => <<"D7-sender", "FAIL">> \in results
           /\ Head(todo) = "test" => <<"E1", "FAIL">> \in results,
         SameFile' /\ Head(todo) = "R" =>
           run'.id = config.id /\ run'.sender = config.sender
  PROVE  IInv'
<1>1. TypeInv /\ TodoInv
  BY DEF IInv
<1>2. exit = "running"
  BY <1>1, NextCheck
<1>3. /\ extensions' = extensions /\ manager' = manager /\ balance' = balance
      /\ config' = config /\ exported' = exported /\ dotenv' = dotenv
      /\ silent' = silent /\ report' = report \cup results
      /\ todo' = Tail(todo) /\ exit' = exit
  BY DEF Says, chain, files
<1>4. TodoInv' /\ Len(todo') = Len(todo) - 1 /\ Len(todo') \in Nat
  BY <1>1, <1>3, TailInOrder
<1>5. Len(todo') < Len(todo)
  <2>1. Len(todo) \in Nat
    BY <1>1 DEF TodoInv
  <2>2. QED
    BY <1>4, <2>1
<1>6. Goes(results)
  BY <1>2, <1>3, <1>4, <1>5 DEF Goes
<1>7. TypeInv'
  <2>1. \A r \in results : r[2] \in Statuses
    BY DEF Backed, Statuses
  <2>2. QED
    BY <1>6, <2>1, GoesType
<1>8. ReportInv'
  BY <1>6, GoesReport
<1>9. Complete'
  <2>1. ASSUME run.step \in {"register", "all"}, NEW id \in {"R3", "R4"}, Made(id)
        PROVE  <<id, "PASS">> \in results \/ <<id, "FAIL">> \in results
    BY <1>1, <1>4, <2>1, MadeNow
  <2>2. SameFile' => run.step = "all"
    BY DEF SameFile
  <2>3. SameFile' /\ ~ WellFormed(config).id =>
           \A id \in {"D7-id", "S2", "V4"} : Made(id) => <<id, "FAIL">> \in results
    BY <1>1, <1>4, <2>2, MadeNow
  <2>4. SameFile' /\ ~ WellFormed(config).sender =>
           \A id \in {"D7-sender", "E1"} : Made(id) => <<id, "FAIL">> \in results
    BY <1>1, <1>4, <2>2, MadeNow
  <2>5. QED
    BY <1>6, <2>1, <2>3, <2>4, GoesComplete
<1>10. ReadInv'
  <2>1. SameFile' /\ Made("R") => run'.id = config.id /\ run'.sender = config.sender
    BY <1>1, <1>4, MadeNow DEF SameFile
  <2>2. QED
    BY <1>6, <2>1, GoesRead
<1>11. QED
  BY <1>6, <1>7, <1>8, <1>9, <1>10, GoesInv

(* The registration checks return early, before they asked for the sender. *)
LEMMA ReturnsInv ==
  ASSUME IInv, NEW results, todo # <<>>, Returns(results), Head(todo) \in {"R", "R1"},
         run' \in Runs, run'.counter <= Len(extensions),
         missed' = missed, moves' \in 0 .. MaxMoves,
         run'.step = run.step, run'.given = run.given,
         run'.env = run.env, run'.dotenv = run.dotenv,
         (run'.id = run.id /\ run'.sender = run.sender) \/ Head(todo) = "R",
         run'.counter = run.counter \/ Head(todo) = "R1",
         run'.rewritten = run.rewritten,
         \A r \in results : InTurn(r)' /\ Backed(r)',
         <<"R2", "PASS">> \notin results,
         SameFile' /\ Head(todo) = "R" =>
           run'.id = config.id /\ run'.sender = config.sender
  PROVE  IInv'
<1>1. TypeInv /\ TodoInv
  BY DEF IInv
<1>2. exit = "running"
  BY <1>1, NextCheck
<1>3. /\ extensions' = extensions /\ manager' = manager /\ balance' = balance
      /\ config' = config /\ exported' = exported /\ dotenv' = dotenv
      /\ silent' = silent /\ report' = report \cup results
      /\ todo' = (IF run.step = "all" THEN LaterChecks ELSE <<>>) /\ exit' = exit
  BY DEF Returns, chain, files
<1>4. TodoInv' /\ Len(todo') = Later /\ Len(todo') < Len(todo) /\ Len(todo') \in Nat
  BY <1>1, <1>3, ReturnInOrder
<1>5. Goes(results)
  BY <1>2, <1>3, <1>4 DEF Goes
<1>6. TypeInv'
  <2>1. \A r \in results : r[2] \in Statuses
    BY DEF Backed, Statuses
  <2>2. missed' \subseteq 0 .. MaxExtensions - 1
    BY <1>1 DEF TypeInv, TypeOK
  <2>3. QED
    BY <1>5, <2>1, <2>2, GoesType
<1>7. ReportInv'
  BY <1>5, GoesReport
<1>8. run.step = "all" => Later = 4
  BY DEF Later
<1>9. Len(todo) = Left(Head(todo)) /\ run.step \in {"register", "all"}
  BY <1>1, Turn
<1>10. Len(todo) <= Later + 6 /\ Len(todo) \in Nat /\ Later \in 0 .. 4
  BY <1>1, Turn, LeftIs DEF TodoInv
<1>11. Complete'
  <2>1. <<"R2", "PASS">> \notin report'
    <3>1. ASSUME <<"R2", "PASS">> \in report PROVE FALSE
      <4>1. InTurn(<<"R2", "PASS">>)
        BY <3>1 DEF IInv, ReportInv
      <4>2. PICK r : r = <<"R2", "PASS">>
        OBVIOUS
      <4>3. InTurn(r) /\ r[1] = "R2"
        BY <4>1, <4>2
      <4>4. QED
        BY <1>1, <4>3, NotYet DEF RegistrationIds
    <3>2. QED
      BY <1>3, <3>1
  <2>2. SameFile' => run.step = "all"
    BY DEF SameFile
  <2>3. ASSUME run.step = "all", NEW id \in ReaderIds PROVE ~ Made(id)
    <3>1. Later = 4
      BY <1>8, <2>3
    <3>2. Left(id) = 11 \/ Left(id) \in 0 .. 4
      BY LeftIs DEF ReaderIds
    <3>3. Len(todo') = Later
      BY <1>4
    <3>4. Len(todo) <= 10
      BY <1>10, <3>1
    <3>5. QED
      BY <1>10, <3>1, <3>2, <3>3, <3>4 DEF Made
  <2>4. QED
    BY <1>5, <2>1, <2>2, <2>3, GoesComplete DEF ReaderIds
<1>12. ReadInv'
  <2>1. ASSUME Head(todo) = "R1" PROVE ~ Made("R")
    BY <1>9, <1>10, <2>1, LeftIs DEF Made
  <2>2. SameFile' /\ Made("R") => run'.id = config.id /\ run'.sender = config.sender
    BY <2>1
  <2>3. QED
    BY <1>5, <2>2, GoesRead
<1>13. QED
  BY <1>5, <1>6, <1>7, <1>11, <1>12, GoesInv

-----------------------------------------------------------------------------
(* The checks, one by one.                                                 *)

(* Most results say nothing that the invariant is about. *)
LEMMA PlainBacked ==
  ASSUME NEW r, r[2] \in Statuses,
         r \notin {<<"R2", "PASS">>, <<"R3", "PASS">>, <<"R4", "PASS">>,
                   <<"R7", "PASS">>, <<"V2", "WARN">>, <<"R", "SKIP">>,
                   <<"R2-format", "FAIL">>, <<"D7-id", "FAIL">>, <<"S2", "FAIL">>,
                   <<"V4", "FAIL">>, <<"D7-sender", "FAIL">>, <<"E1", "FAIL">>}
  PROVE  Backed(r)'
BY DEF Backed

LEMMA NoIdBacked ==
  ASSUME NEW id \in {"D7-id", "S2", "V4", "R2-format"}, NEW r, r = <<id, "FAIL">>,
         SameFile' => ~ WellFormed(config').id
  PROVE  Backed(r)'
<1>1. r[1] \in {"D7-id", "S2", "V4", "R2-format"} /\ r[2] = "FAIL" /\ r[2] \in Statuses
  BY DEF Statuses
<1>2. r \notin {<<"R2", "PASS">>, <<"R3", "PASS">>, <<"R4", "PASS">>, <<"R7", "PASS">>,
                <<"V2", "WARN">>, <<"D7-sender", "FAIL">>, <<"E1", "FAIL">>}
  BY <1>1
<1>3. QED
  BY <1>1, <1>2 DEF Backed

LEMMA NoSenderBacked ==
  ASSUME NEW id \in {"D7-sender", "E1"}, NEW r, r = <<id, "FAIL">>,
         SameFile' => ~ WellFormed(config').sender
  PROVE  Backed(r)'
<1>1. r[1] \in {"D7-sender", "E1"} /\ r[2] = "FAIL" /\ r[2] \in Statuses
  BY DEF Statuses
<1>2. r \notin {<<"R2", "PASS">>, <<"R3", "PASS">>, <<"R4", "PASS">>, <<"R7", "PASS">>,
                <<"V2", "WARN">>, <<"D7-id", "FAIL">>, <<"S2", "FAIL">>,
                <<"V4", "FAIL">>, <<"R2-format", "FAIL">>, <<"R", "SKIP">>}
  BY <1>1
<1>3. QED
  BY <1>1, <1>2 DEF Backed

LEMMA QuietInv ==
  ASSUME IInv, NEW results, todo # <<>>, Says(results), run' = run,
         missed' = missed, moves' \in 0 .. MaxMoves,
         Head(todo) \notin {"D7", "R"},
         \A r \in results : InTurn(r)' /\ Backed(r)',
         <<"R2", "PASS">> \in results => Head(todo) = "R2",
         \A id \in {"R3", "R4"} :
           Head(todo) = id => <<id, "PASS">> \in results \/ <<id, "FAIL">> \in results,
         SameFile /\ ~ WellFormed(config).id =>
           /\ Head(todo) = "services" => <<"S2", "FAIL">> \in results
           /\ Head(todo) = "tee-version" => <<"V4", "FAIL">> \in results,
         SameFile /\ ~ WellFormed(config).sender /\ Head(todo) = "test" =>
           <<"E1", "FAIL">> \in results
  PROVE  IInv'
<1>1. run' \in Runs /\ run'.counter <= Len(extensions)
  BY DEF IInv, TypeInv
<1>2. missed' \subseteq 0 .. MaxExtensions - 1
  BY DEF IInv, TypeInv, TypeOK
<1>3. SameFile' <=> SameFile
  BY DEF SameFile, Says, files
<1>4. QED
  BY <1>1, <1>2, <1>3, SaysInv

LEMMA DeployResultsAre ==
  ASSUME NEW check \in {"D1", "D5-funds", "D6"}, NEW answered \in BOOLEAN,
         NEW r \in DeployResults(check, answered)
  PROVE  r[1] \in {"D1", "D3", "D5-key", "D5-funds", "D6"} /\ r[2] \in Statuses
<1>1. CASE check = "D1"
  <2>1. r \in AddressChecks(answered) \cup CheckDeployerKeySource(run.env)
    BY <1>1 DEF DeployResults
  <2>2. ASSUME r \in AddressChecks(answered)
        PROVE  r \in {<<"D3", "PASS">>, <<"D3", "FAIL">>, <<"D1", "PASS">>, <<"D1", "FAIL">>}
    BY <2>2 DEF AddressChecks
  <2>3. ASSUME r \in CheckDeployerKeySource(run.env)
        PROVE  r \in {<<"D5-key", "PASS">>, <<"D5-key", "WARN">>}
    BY <2>3 DEF CheckDeployerKeySource
  <2>4. QED
    BY <2>1, <2>2, <2>3 DEF Statuses
<1>2. CASE check = "D5-funds"
  <2>1. r \in {<<"D5-funds", "PASS">>, <<"D5-funds", "FAIL">>}
    BY <1>2 DEF DeployResults
  <2>2. QED
    BY <2>1 DEF Statuses
<1>3. CASE check = "D6"
  <2>1. r \in {<<"D6", "PASS">>, <<"D6", "FAIL">>}
    BY <1>3 DEF DeployResults
  <2>2. QED
    BY <2>1 DEF Statuses
<1>4. QED
  BY <1>1, <1>2, <1>3

LEMMA DeployInv ==
  ASSUME IInv, NEW check \in {"D1", "D5-funds", "D6"}, NEW answered \in BOOLEAN,
         At(check), Says(DeployResults(check, answered)), run' = run,
         missed' = missed, moves' \in 0 .. MaxMoves
  PROVE  IInv'
<1>1. PICK results : results = DeployResults(check, answered)
  OBVIOUS
<1>2. ASSUME NEW r \in results
      PROVE  r[1] \in {"D1", "D3", "D5-key", "D5-funds", "D6"} /\ r[2] \in Statuses
  BY <1>1, <1>2, DeployResultsAre
<1>3. todo # <<>> /\ Head(todo) = check
  BY DEF At
<1>4. Len(todo') \in Nat /\ Len(todo') < Len(todo)
  <2>1. todo \in Seq(Checks) /\ todo' = Tail(todo)
    BY DEF IInv, TodoInv, Says
  <2>2. QED
    BY <1>3, <2>1
<1>5. ASSUME NEW r \in results PROVE InTurn(r)' /\ Backed(r)'
  <2>1. r[1] \notin RegistrationIds \cup ReaderIds
    BY <1>2, <1>5 DEF RegistrationIds, ReaderIds
  <2>2. InTurn(r)'
    BY <1>3, <1>4, <2>1, NowInTurn DEF IInv
  <2>3. Backed(r)'
    BY <1>2, <1>5, PlainBacked
  <2>4. QED
    BY <2>2, <2>3
<1>6. <<"R2", "PASS">> \notin results
  BY <1>2
<1>7. Head(todo) \in {"D1", "D5-funds", "D6"} /\ Says(results)
  BY <1>1, <1>3
<1>8. QED
  BY <1>3, <1>5, <1>6, <1>7, QuietInv

LEMMA LenTail ==
  ASSUME TodoInv, todo # <<>>, todo' = Tail(todo)
  PROVE  Len(todo') \in Nat /\ Len(todo') < Len(todo)
BY DEF TodoInv

(* R2, R3 and R4, answered or not. *)
LEMMA RegisteredInv ==
  ASSUME IInv, NEW check \in {"R2", "R3", "R4"}, At(check),
         NEW status \in {"PASS", "FAIL"}, status = "PASS" => Holds(check),
         Says({<<check, status>>}), run' = run, missed' = missed,
         moves' \in 0 .. MaxMoves
  PROVE  IInv'
<1>1. todo # <<>> /\ Head(todo) = check /\ todo' = Tail(todo) /\ extensions' = extensions
  BY DEF At, Says, chain
<1>2. PICK r : r = <<check, status>>
  OBVIOUS
<1>3. r[1] = check /\ r[2] = status
  BY <1>2
<1>4. InTurn(r)'
  <2>1. r[1] \in RegistrationIds /\ Left(r[1]) = Left(Head(todo))
    BY <1>1, <1>3 DEF RegistrationIds
  <2>2. Len(todo') \in Nat /\ Len(todo') < Len(todo)
    BY <1>1, LenTail DEF IInv
  <2>3. QED
    BY <1>1, <2>1, <2>2, NowInTurn DEF IInv
<1>5. Backed(r)'
  <2>1. CASE status = "FAIL"
    <3>1. r[2] \in Statuses
      BY <1>3, <2>1 DEF Statuses
    <3>2. QED
      BY <1>3, <2>1, <3>1, PlainBacked
  <2>2. CASE status = "PASS"
    <3>1. Registered(run.id) /\ Holds(check)
      BY <2>2 DEF Holds
    <3>2. InRange
      BY <3>1 DEF Registered, InRange, NextPublicExtensionId
    <3>3. InRange'
      BY <1>1, <3>2 DEF InRange
    <3>4. check = "R2" => Extension(run.id)'.sender = run'.sender
      BY <1>1, <3>1 DEF Holds, Extension
    <3>5. check = "R3" => DefaultPrivateKey(run'.env) \in Extension(run.id)'.owners
      BY <1>1, <3>1 DEF Holds, Extension
    <3>6. check = "R4" => Extension(run.id)'.evm
      BY <1>1, <3>1 DEF Holds, Extension
    <3>7. r[2] \in Statuses
      BY <1>3, <2>2 DEF Statuses
    <3>8. QED
      BY <1>2, <1>3, <2>2, <3>3, <3>4, <3>5, <3>6, <3>7 DEF Backed
  <2>3. QED
    BY <2>1, <2>2
<1>6. Says({r}) /\ \A q \in {r} : InTurn(q)' /\ Backed(q)'
  BY <1>2, <1>4, <1>5
<1>7. /\ <<"R2", "PASS">> \in {r} => Head(todo) = "R2"
      /\ \A id \in {"R3", "R4"} :
           Head(todo) = id => <<id, "PASS">> \in {r} \/ <<id, "FAIL">> \in {r}
  BY <1>1, <1>2, <1>3
<1>8. QED
  BY <1>1, <1>6, <1>7, QuietInv

LEMMA CheckRegisteredInv ==
  ASSUME IInv, NEW check \in {"R2", "R3", "R4"}, CheckRegistered(check)
  PROVE  IInv'
<1>1. run' = run /\ missed' = missed /\ moves' \in 0 .. MaxMoves /\ At(check)
  BY DEF CheckRegistered, IInv, TypeInv, TypeOK
<1>2. CASE check = "R2" /\ ~ WellFormed(run).sender
  <2>1. Says({}) /\ todo # <<>> /\ Head(todo) = "R2"
    BY <1>2 DEF CheckRegistered, At
  <2>2. QED
    BY <1>1, <2>1, QuietInv
<1>3. CASE ~ (check = "R2" /\ ~ WellFormed(run).sender)
  <2>1. PICK status : status = IF Holds(check) THEN "PASS" ELSE "FAIL"
    OBVIOUS
  <2>2. Says({<<check, status>>})
    BY <1>3, <2>1 DEF CheckRegistered
  <2>3. status \in {"PASS", "FAIL"} /\ (status = "PASS" => Holds(check))
    BY <2>1
  <2>4. QED
    BY <1>1, <2>2, <2>3, RegisteredInv
<1>4. QED
  BY <1>2, <1>3

(* R7: if it found no second extension with the sender, and every lookup   *)
(* was answered, no two extensions that R1 counted have it.                *)
LEMMA UniqueInv ==
  ASSUME ValidationAssumption, IInv, CheckUnique
  PROVE  IInv'
<1>1. todo # <<>> /\ Head(todo) = "R7" /\ run' = run
  BY DEF CheckUnique, At
<1>2. CASE run.counter > 0 /\ WellFormed(run).sender
  <2>0. PICK unanswered \in SUBSET Counted : \E matching :
          /\ matching = {id \in Counted \ unanswered : Extension(id).sender = run.sender}
          /\ moves + Cardinality(unanswered) <= MaxMoves
          /\ moves' = moves + Cardinality(unanswered)
          /\ missed' = unanswered
          /\ Says({<<"R7", IF Cardinality(matching) > 1 THEN "WARN" ELSE "PASS">>})
    BY <1>2 DEF CheckUnique
  <2>1. PICK matching :
          /\ matching = {id \in Counted \ unanswered : Extension(id).sender = run.sender}
          /\ moves + Cardinality(unanswered) <= MaxMoves
          /\ moves' = moves + Cardinality(unanswered)
          /\ missed' = unanswered
          /\ Says({<<"R7", IF Cardinality(matching) > 1 THEN "WARN" ELSE "PASS">>})
    BY <2>0
  <2>2. PICK r : r = <<"R7", IF Cardinality(matching) > 1 THEN "WARN" ELSE "PASS">>
    OBVIOUS
  <2>3. Says({r}) /\ todo' = Tail(todo) /\ extensions' = extensions
    BY <2>1, <2>2 DEF Says, chain
  <2>4. r[1] = "R7" /\ r[2] \in Statuses
    BY <2>2 DEF Statuses
  <2>5. run.counter \in Int /\ run.counter <= Len(extensions)
        /\ Len(extensions) <= MaxExtensions /\ Len(extensions) \in Nat
        /\ MaxExtensions \in Nat
    BY DEF IInv, TypeInv, TypeOK, Runs, ValidationAssumption
  <2>6. IsFiniteSet(Counted)
    <3>1. PICK n : n = run.counter - 1
      OBVIOUS
    <3>2. n \in Int
      BY <2>5, <3>1
    <3>3. IsFiniteSet(0 .. n)
      BY <3>2, FS_Interval
    <3>4. QED
      BY <3>1, <3>3 DEF Counted
  <2>7. IsFiniteSet(unanswered) /\ IsFiniteSet(matching)
    BY <2>1, <2>6, FS_Subset
  <2>8. Cardinality(unanswered) \in Nat /\ Cardinality(matching) \in Nat
    BY <2>7, FS_CardinalityType
  <2>9. moves' \in 0 .. MaxMoves
    BY <2>1, <2>8 DEF IInv, TypeInv, TypeOK, ValidationAssumption
  <2>10. missed' \subseteq 0 .. MaxExtensions - 1
    BY <2>1, <2>5 DEF Counted
  <2>11. InTurn(r)'
    <3>1. r[1] \in RegistrationIds /\ Left(r[1]) = Left(Head(todo))
      BY <1>1, <2>4 DEF RegistrationIds
    <3>2. Len(todo') \in Nat /\ Len(todo') < Len(todo)
      BY <1>1, <2>3, LenTail DEF IInv
    <3>3. QED
      BY <1>1, <3>1, <3>2, NowInTurn DEF IInv
  <2>12. ASSUME r = <<"R7", "PASS">>, missed' = {},
                NEW c \in 0 .. run.counter - 1, NEW d \in 0 .. run.counter - 1,
                Extension(c).sender = run.sender, Extension(d).sender = run.sender
         PROVE  c = d
    <3>1. ~ (Cardinality(matching) > 1)
      BY <2>2, <2>12
    <3>2. {c, d} \subseteq matching
      BY <2>1, <2>12 DEF Counted
    <3>3. Cardinality({c, d}) <= Cardinality(matching)
      BY <2>7, <3>2, FS_Subset
    <3>4. ASSUME c # d PROVE FALSE
      <4>1. IsFiniteSet({c}) /\ Cardinality({c}) = 1
        BY FS_Singleton
      <4>2. Cardinality({c} \cup {d}) = Cardinality({c}) + 1
        BY <3>4, <4>1, FS_AddElement
      <4>3. {c, d} = {c} \cup {d}
        OBVIOUS
      <4>4. PICK k, l, m : k = Cardinality({c}) /\ l = Cardinality({c, d})
                           /\ m = Cardinality(matching)
        OBVIOUS
      <4>5. k = 1 /\ l = k + 1 /\ l <= m /\ m \in Nat /\ ~ (m > 1)
        BY <2>8, <3>1, <3>3, <4>1, <4>2, <4>3, <4>4
      <4>6. QED
        BY <4>5
    <3>5. QED
      BY <3>4
  <2>13. Backed(r)'
    <3>1. r = <<"R7", "PASS">> /\ missed' = {} =>
            (\A c, d \in 0 .. run.counter - 1 :
              Extension(c).sender = run.sender /\ Extension(d).sender = run.sender
              => c = d)'
      BY <1>1, <2>3, <2>12 DEF Extension
    <3>2. r \notin {<<"R2", "PASS">>, <<"R3", "PASS">>, <<"R4", "PASS">>,
                    <<"V2", "WARN">>, <<"R", "SKIP">>, <<"R2-format", "FAIL">>,
                    <<"D7-id", "FAIL">>, <<"S2", "FAIL">>, <<"V4", "FAIL">>,
                    <<"D7-sender", "FAIL">>, <<"E1", "FAIL">>}
      BY <2>4
    <3>3. r[2] \in Statuses
      BY <2>4
    <3>4. QED
      BY <3>1, <3>2, <3>3 DEF Backed
  <2>14. \A q \in {r} : InTurn(q)' /\ Backed(q)'
    BY <2>11, <2>13
  <2>15. <<"R2", "PASS">> \notin {r}
    BY <2>4
  <2>16. run' \in Runs /\ run'.counter <= Len(extensions)
    BY <1>1 DEF IInv, TypeInv
  <2>17. QED
    BY <1>1, <2>3, <2>9, <2>10, <2>14, <2>15, <2>16, SaysInv
<1>3. CASE ~ (run.counter > 0 /\ WellFormed(run).sender)
  <2>1. Says({}) /\ moves' = moves /\ missed' = missed
    BY <1>3 DEF CheckUnique
  <2>2. moves' \in 0 .. MaxMoves
    BY <2>1 DEF IInv, TypeInv, TypeOK
  <2>3. QED
    BY <1>1, <2>1, <2>2, QuietInv
<1>4. QED
  BY <1>2, <1>3

(* The steps that call no node. *)
LEMMA ReachableSays ==
  ASSUME NEW check, NEW url, NEW service, NEW env, NEW r \in Reachable(check, url, service, env)
  PROVE  r[1] = check /\ r[2] \in {"SKIP", "PASS", "WARN"}
<1>1. PICK s : s = IF env[url] = "" THEN "SKIP"
                   ELSE IF service \in up THEN "PASS" ELSE "WARN"
  OBVIOUS
<1>2. r = <<check, s>>
  BY <1>1 DEF Reachable
<1>3. s \in {"SKIP", "PASS", "WARN"}
  BY <1>1
<1>4. QED
  BY <1>2, <1>3

LEMMA ServicesSays ==
  ASSUME NEW env, NEW r \in RegisterServicesChecks(env)
  PROVE  /\ r[1] \in {"S2", "S5", "S7", "S9", "S10"} /\ r[2] \in Statuses
         /\ r = <<"S2", "FAIL">> => ~ WellFormed(config).id
<1>1. PICK s2, s5, s10 :
        /\ s2 = IF ~ run.given THEN "SKIP"
                ELSE IF WellFormed(config).id THEN "PASS" ELSE "FAIL"
        /\ s5 = IF "extension" \in up THEN "WARN" ELSE "PASS"
        /\ s10 = IF env["LOCAL_MODE"] = "false" /\ env["PROXY_PRIVATE_KEY"] = ""
                 THEN "WARN" ELSE "PASS"
  OBVIOUS
<1>2. \/ r \in {<<"S2", s2>>, <<"S5", s5>>, <<"S7", "PASS">>, <<"S10", s10>>}
      \/ r \in Reachable("S9", "EXT_PROXY_URL", "ext-proxy", env)
  BY <1>1 DEF RegisterServicesChecks, ParseExtensionEnv
<1>3. ASSUME r \in Reachable("S9", "EXT_PROXY_URL", "ext-proxy", env)
      PROVE  r[1] = "S9" /\ r[2] \in {"SKIP", "PASS", "WARN"}
  BY <1>3, ReachableSays
<1>4. s5 \in {"WARN", "PASS"} /\ s10 \in {"WARN", "PASS"}
  BY <1>1
<1>5. s2 \in {"SKIP", "PASS", "FAIL"} /\ (s2 = "FAIL" => ~ WellFormed(config).id)
  BY <1>1
<1>6. QED
  BY <1>2, <1>3, <1>4, <1>5 DEF Statuses

LEMMA TeeVersionSays ==
  ASSUME NEW env, NEW r \in RegisterTeeVersionChecks(env)
  PROVE  /\ r[1] \in {"V2", "V4", "V6"} /\ r[2] \in Statuses
         /\ r[1] = "V4" /\ r[2] = "FAIL" => ~ WellFormed(config).id
         /\ r[1] = "V2" /\ r[2] = "WARN" => env["DEPLOYMENT_PRIVATE_KEY"] = ""
<1>1. PICK s2, s4 :
        /\ s2 = IF /\ env["EXTENSION_OWNER_KEY"] = ""
                   /\ env["DEPLOYMENT_PRIVATE_KEY"] = ""
                   /\ ~ LocalMode(env)
                THEN "WARN" ELSE "PASS"
        /\ s4 = IF ~ run.given \/ ~ config.exists THEN "SKIP"
                ELSE IF WellFormed(config).id THEN "PASS" ELSE "FAIL"
  OBVIOUS
<1>2. \/ r \in {<<"V2", s2>>, <<"V4", s4>>}
      \/ r \in Reachable("V6", "EXT_PROXY_URL", "ext-proxy", env)
  BY <1>1 DEF RegisterTeeVersionChecks, ParseExtensionEnv
<1>3. ASSUME r \in Reachable("V6", "EXT_PROXY_URL", "ext-proxy", env)
      PROVE  r[1] = "V6" /\ r[2] \in {"SKIP", "PASS", "WARN"}
  BY <1>3, ReachableSays
<1>4. s2 \in {"WARN", "PASS"} /\ (s2 = "WARN" => env["DEPLOYMENT_PRIVATE_KEY"] = "")
  BY <1>1
<1>5. s4 \in {"SKIP", "PASS", "FAIL"} /\ (s4 = "FAIL" => ~ WellFormed(config).id)
  BY <1>1
<1>6. CASE r = <<"V2", s2>>
  <2>1. r[1] = "V2" /\ r[2] = s2
    BY <1>6
  <2>2. QED
    BY <1>4, <2>1 DEF Statuses
<1>7. CASE r = <<"V4", s4>>
  <2>1. r[1] = "V4" /\ r[2] = s4
    BY <1>7
  <2>2. QED
    BY <1>5, <2>1 DEF Statuses
<1>8. CASE r \in Reachable("V6", "EXT_PROXY_URL", "ext-proxy", env)
  BY <1>3, <1>8 DEF Statuses
<1>9. QED
  BY <1>2, <1>6, <1>7, <1>8

LEMMA TeeMachineSays ==
  ASSUME NEW env, NEW r \in RegisterTeeMachineChecks(env)
  PROVE  r[1] \in {"T1", "T5", "T10"} /\ r[2] \in Statuses
<1>1. \/ r[1] = "T1" /\ r[2] \in {"WARN", "PASS"}
      \/ r \in Reachable("T5", "NORMAL_PROXY_URL", "normal-proxy", env)
      \/ r \in Reachable("T10", "EXT_PROXY_URL", "ext-proxy", env)
  BY DEF RegisterTeeMachineChecks
<1>2. ASSUME r \in Reachable("T5", "NORMAL_PROXY_URL", "normal-proxy", env)
      PROVE  r[1] = "T5" /\ r[2] \in {"SKIP", "PASS", "WARN"}
  BY <1>2, ReachableSays
<1>3. ASSUME r \in Reachable("T10", "EXT_PROXY_URL", "ext-proxy", env)
      PROVE  r[1] = "T10" /\ r[2] \in {"SKIP", "PASS", "WARN"}
  BY <1>3, ReachableSays
<1>4. QED
  BY <1>1, <1>2, <1>3 DEF Statuses

LEMMA TestSays ==
  ASSUME NEW env, NEW r \in RegisterTestChecks(env)
  PROVE  /\ r[1] \in {"E1", "E3", "E6"} /\ r[2] \in Statuses
         /\ r = <<"E1", "FAIL">> => ~ WellFormed(config).sender
<1>1. \/ r = <<"E1", IF ~ run.given \/ ~ config.exists THEN "SKIP"
                     ELSE IF WellFormed(config).sender THEN "PASS" ELSE "FAIL">>
      \/ r = <<"E6", "PASS">>
      \/ r \in Reachable("E3", "EXT_PROXY_URL", "ext-proxy", env)
  BY DEF RegisterTestChecks, ParseExtensionEnv
<1>2. ASSUME r \in Reachable("E3", "EXT_PROXY_URL", "ext-proxy", env)
      PROVE  r[1] = "E3" /\ r[2] \in {"SKIP", "PASS", "WARN"}
  BY <1>2, ReachableSays
<1>3. QED
  BY <1>1, <1>2 DEF Statuses

(* What the later checks have in common. *)
LEMMA LocalInTurn ==
  ASSUME IInv, todo # <<>>, Len(todo') \in Nat, Len(todo') < Len(todo), run' = run,
         Head(todo) \in {"services", "tee-version", "tee-machine", "test"}, NEW r,
         r[1] \notin RegistrationIds,
         r[1] \in ReaderIds =>
           \/ r[1] = "S2" /\ Head(todo) = "services"
           \/ r[1] = "V4" /\ Head(todo) = "tee-version"
           \/ r[1] = "E1" /\ Head(todo) = "test"
  PROVE  InTurn(r)'
<1>1. TypeInv /\ TodoInv
  BY DEF IInv
<1>2. ASSUME r[1] \in ReaderIds, run.step = "all" PROVE Len(todo) = Left(r[1])
  <2>1. PICK n, h : n = Len(todo) /\ h = Head(todo)
    OBVIOUS
  <2>2. /\ h = "services" => n = 4
        /\ h = "tee-version" => n = 3
        /\ h = "test" => n = 1
    BY <1>1, <1>2, <2>1, InAll
  <2>3. Left("S2") = 4 /\ Left("V4") = 3 /\ Left("E1") = 1
    BY LeftIs
  <2>4. QED
    BY <1>2, <2>1, <2>2, <2>3
<1>3. QED
  BY <1>1, <1>2, NowInTurn

LEMMA CheckLocallyInv ==
  ASSUME IInv, CheckLocally
  PROVE  IInv'
<1>1. todo # <<>> /\ run' = run /\ missed' = missed /\ moves' \in 0 .. MaxMoves
  BY DEF CheckLocally, IInv, TypeInv, TypeOK
<1>2. TodoInv /\ todo' = Tail(todo) /\ config' = config
  BY DEF IInv, CheckLocally, Says, files
<1>3. Len(todo') \in Nat /\ Len(todo') < Len(todo)
  BY <1>1, <1>2, LenTail
<1>4. CASE At("services") /\ Says(RegisterServicesChecks(run.env))
  <2>1. PICK results : results = RegisterServicesChecks(run.env)
    OBVIOUS
  <2>2. Head(todo) = "services" /\ Says(results)
    BY <1>4, <2>1 DEF At
  <2>3. ASSUME NEW r \in results
        PROVE  /\ r[1] \in {"S2", "S5", "S7", "S9", "S10"} /\ r[2] \in Statuses
               /\ r = <<"S2", "FAIL">> => ~ WellFormed(config).id
    BY <2>1, <2>3, ServicesSays
  <2>4. ASSUME NEW r \in results PROVE InTurn(r)' /\ Backed(r)'
    <3>1. InTurn(r)'
      <4>1. r[1] \notin RegistrationIds /\ (r[1] \in ReaderIds => r[1] = "S2")
        BY <2>3, <2>4 DEF RegistrationIds, ReaderIds
      <4>2. QED
        BY <1>1, <1>3, <2>2, <4>1, LocalInTurn
    <3>2. Backed(r)'
      <4>1. CASE r = <<"S2", "FAIL">>
        <5>1. ~ WellFormed(config').id
          BY <1>2, <2>3, <2>4, <4>1
        <5>2. QED
          BY <4>1, <5>1, NoIdBacked
      <4>2. CASE r # <<"S2", "FAIL">>
        <5>1. r[1] \in {"S2", "S5", "S7", "S9", "S10"} /\ r[2] \in Statuses
          BY <2>3, <2>4
        <5>2. QED
          BY <4>2, <5>1, PlainBacked
      <4>3. QED
        BY <4>1, <4>2
    <3>3. QED
      BY <3>1, <3>2
  <2>5. <<"R2", "PASS">> \notin results
    BY <2>3
  <2>6. run.given /\ ~ WellFormed(config).id => <<"S2", "FAIL">> \in results
    BY <2>1 DEF RegisterServicesChecks, ParseExtensionEnv
  <2>7. SameFile => run.given
    BY DEF SameFile
  <2>8. QED
    BY <1>1, <2>2, <2>4, <2>5, <2>6, <2>7, QuietInv
<1>5. CASE At("tee-version") /\ Says(RegisterTeeVersionChecks(run.env))
  <2>1. PICK results : results = RegisterTeeVersionChecks(run.env)
    OBVIOUS
  <2>2. Head(todo) = "tee-version" /\ Says(results)
    BY <1>5, <2>1 DEF At
  <2>3. ASSUME NEW r \in results
        PROVE  /\ r[1] \in {"V2", "V4", "V6"} /\ r[2] \in Statuses
               /\ r[1] = "V4" /\ r[2] = "FAIL" => ~ WellFormed(config).id
               /\ r[1] = "V2" /\ r[2] = "WARN" => run.env["DEPLOYMENT_PRIVATE_KEY"] = ""
    BY <2>1, <2>3, TeeVersionSays
  <2>4. ASSUME NEW r \in results PROVE InTurn(r)' /\ Backed(r)'
    <3>1. InTurn(r)'
      <4>1. r[1] \notin RegistrationIds /\ (r[1] \in ReaderIds => r[1] = "V4")
        BY <2>3, <2>4 DEF RegistrationIds, ReaderIds
      <4>2. QED
        BY <1>1, <1>3, <2>2, <4>1, LocalInTurn
    <3>2. Backed(r)'
      <4>1. CASE r = <<"V4", "FAIL">>
        <5>0. r[1] = "V4" /\ r[2] = "FAIL"
          BY <4>1
        <5>1. ~ WellFormed(config').id
          BY <1>2, <2>3, <2>4, <5>0
        <5>2. QED
          BY <4>1, <5>1, NoIdBacked
      <4>2. CASE r = <<"V2", "WARN">>
        <5>0. r[1] = "V2" /\ r[2] = "WARN"
          BY <4>2
        <5>1. run.env["DEPLOYMENT_PRIVATE_KEY"] = ""
          BY <2>3, <2>4, <5>0
        <5>2. run'.step = "all" => run'.dotenv["DEPLOYMENT_PRIVATE_KEY"] = ""
          BY <1>1, <5>1 DEF IInv, ReadInv
        <5>3. r[1] = "V2" /\ r[2] = "WARN" /\ r[2] \in Statuses
          BY <4>2 DEF Statuses
        <5>4. r \notin {<<"R2", "PASS">>, <<"R3", "PASS">>, <<"R4", "PASS">>,
                        <<"R7", "PASS">>, <<"R", "SKIP">>, <<"R2-format", "FAIL">>,
                        <<"D7-id", "FAIL">>, <<"S2", "FAIL">>, <<"V4", "FAIL">>,
                        <<"D7-sender", "FAIL">>, <<"E1", "FAIL">>}
          BY <5>3
        <5>5. QED
          BY <5>2, <5>3, <5>4 DEF Backed
      <4>3. CASE r # <<"V4", "FAIL">> /\ r # <<"V2", "WARN">>
        <5>1. r[1] \in {"V2", "V4", "V6"} /\ r[2] \in Statuses
          BY <2>3, <2>4
        <5>2. QED
          BY <4>3, <5>1, PlainBacked
      <4>4. QED
        BY <4>1, <4>2, <4>3
    <3>3. QED
      BY <3>1, <3>2
  <2>5. <<"R2", "PASS">> \notin results
    BY <2>3
  <2>6. run.given /\ config.exists /\ ~ WellFormed(config).id => <<"V4", "FAIL">> \in results
    BY <2>1 DEF RegisterTeeVersionChecks, ParseExtensionEnv
  <2>7. SameFile => run.given /\ config.exists
    BY DEF SameFile
  <2>8. QED
    BY <1>1, <2>2, <2>4, <2>5, <2>6, <2>7, QuietInv
<1>6. CASE At("tee-machine") /\ Says(RegisterTeeMachineChecks(run.env))
  <2>1. PICK results : results = RegisterTeeMachineChecks(run.env)
    OBVIOUS
  <2>2. Head(todo) = "tee-machine" /\ Says(results)
    BY <1>6, <2>1 DEF At
  <2>3. ASSUME NEW r \in results
        PROVE  r[1] \in {"T1", "T5", "T10"} /\ r[2] \in Statuses
    BY <2>1, <2>3, TeeMachineSays
  <2>4. ASSUME NEW r \in results PROVE InTurn(r)' /\ Backed(r)'
    <3>1. r[1] \notin RegistrationIds /\ r[1] \notin ReaderIds
      BY <2>3, <2>4 DEF RegistrationIds, ReaderIds
    <3>2. InTurn(r)'
      BY <1>1, <1>3, <2>2, <3>1, LocalInTurn
    <3>3. Backed(r)'
      BY <2>3, <2>4, PlainBacked
    <3>4. QED
      BY <3>2, <3>3
  <2>5. <<"R2", "PASS">> \notin results
    BY <2>3
  <2>6. QED
    BY <1>1, <2>2, <2>4, <2>5, QuietInv
<1>7. CASE At("test") /\ Says(RegisterTestChecks(run.env))
  <2>1. PICK results : results = RegisterTestChecks(run.env)
    OBVIOUS
  <2>2. Head(todo) = "test" /\ Says(results)
    BY <1>7, <2>1 DEF At
  <2>3. ASSUME NEW r \in results
        PROVE  /\ r[1] \in {"E1", "E3", "E6"} /\ r[2] \in Statuses
               /\ r = <<"E1", "FAIL">> => ~ WellFormed(config).sender
    BY <2>1, <2>3, TestSays
  <2>4. ASSUME NEW r \in results PROVE InTurn(r)' /\ Backed(r)'
    <3>1. InTurn(r)'
      <4>1. r[1] \notin RegistrationIds /\ (r[1] \in ReaderIds => r[1] = "E1")
        BY <2>3, <2>4 DEF RegistrationIds, ReaderIds
      <4>2. QED
        BY <1>1, <1>3, <2>2, <4>1, LocalInTurn
    <3>2. Backed(r)'
      <4>1. CASE r = <<"E1", "FAIL">>
        <5>1. ~ WellFormed(config').sender
          BY <1>2, <2>3, <2>4, <4>1
        <5>2. QED
          BY <4>1, <5>1, NoSenderBacked
      <4>2. CASE r # <<"E1", "FAIL">>
        <5>1. r[1] \in {"E1", "E3", "E6"} /\ r[2] \in Statuses
          BY <2>3, <2>4
        <5>2. QED
          BY <4>2, <5>1, PlainBacked
      <4>3. QED
        BY <4>1, <4>2
    <3>3. QED
      BY <3>1, <3>2
  <2>5. <<"R2", "PASS">> \notin results
    BY <2>3
  <2>6. run.given /\ config.exists /\ ~ WellFormed(config).sender => <<"E1", "FAIL">> \in results
    BY <2>1 DEF RegisterTestChecks, ParseExtensionEnv
  <2>7. SameFile => run.given /\ config.exists
    BY DEF SameFile
  <2>8. QED
    BY <1>1, <2>2, <2>4, <2>5, <2>6, <2>7, QuietInv
<1>8. QED
  BY <1>4, <1>5, <1>6, <1>7 DEF CheckLocally

(* D7 reads the file: from here on the run knows if it is rewritten.       *)
LEMMA ReadConfigInv ==
  ASSUME IInv, ReadConfig
  PROVE  IInv'
<1>1. /\ todo # <<>> /\ Head(todo) = "D7" /\ todo' = Tail(todo) /\ config' = config
      /\ missed' = missed /\ moves' = moves
  BY DEF ReadConfig, At, Says, files
<1>2. PICK results :
        results = IF run.given THEN CheckExtensionEnvFormat(config) ELSE {}
  OBVIOUS
<1>3. Says(results)
  BY <1>2 DEF ReadConfig
<1>4. TypeInv /\ TodoInv
  BY DEF IInv
<1>5. /\ run' \in Runs /\ run'.step = run.step /\ run'.given = run.given
      /\ run'.env = run.env
      /\ run'.dotenv = run.dotenv /\ run'.id = run.id /\ run'.sender = run.sender
      /\ run'.counter = run.counter
  <2>1. run \in Runs /\ run' = [run EXCEPT !.rewritten = FALSE]
    BY <1>4 DEF TypeInv, ReadConfig
  <2>2. QED
    BY <2>1 DEF Runs
<1>6. run'.counter <= Len(extensions) /\ missed' \subseteq 0 .. MaxExtensions - 1
      /\ moves' \in 0 .. MaxMoves
  BY <1>1, <1>4, <1>5 DEF TypeInv, TypeOK
<1>7. PICK sender, id :
        /\ sender = IF WellFormed(config).sender THEN "PASS" ELSE "FAIL"
        /\ id = IF WellFormed(config).id THEN "PASS" ELSE "FAIL"
  OBVIOUS
<1>8. results = IF ~ run.given THEN {}
                ELSE IF ~ config.exists THEN {<<"D7", "SKIP">>}
                ELSE {<<"D7-sender", sender>>, <<"D7-id", id>>}
  BY <1>2, <1>7 DEF CheckExtensionEnvFormat
<1>9. Len(todo') \in Nat /\ Len(todo') < Len(todo)
  BY <1>1, <1>4, LenTail
<1>10. ASSUME NEW r \in results PROVE r[1] \in {"D7", "D7-sender", "D7-id"}
  BY <1>8, <1>10
<1>11. ASSUME NEW r \in results PROVE InTurn(r)'
  <2>1. run.step = "all" => Len(todo) = Left("D7-id") /\ Left("D7-id") = Left("D7-sender")
    BY <1>1, <1>4, Turn, LeftIs
  <2>2. r[1] \notin RegistrationIds
    BY <1>10, <1>11 DEF RegistrationIds
  <2>3. r[1] \in ReaderIds /\ run.step = "all" => Len(todo) = Left(r[1])
    BY <1>10, <1>11, <2>1 DEF ReaderIds
  <2>4. QED
    BY <1>1, <1>4, <1>5, <1>9, <2>2, <2>3, NowInTurn
<1>12. ASSUME NEW r \in results PROVE Backed(r)'
  <2>1. CASE r = <<"D7", "SKIP">>
    <3>1. r[1] = "D7" /\ r[2] \in Statuses
      BY <2>1 DEF Statuses
    <3>2. QED
      BY <3>1, PlainBacked
  <2>2. CASE r = <<"D7-sender", sender>>
    <3>1. CASE sender = "PASS"
      <4>1. r[1] = "D7-sender" /\ r[2] = "PASS" /\ r[2] \in Statuses
        BY <2>2, <3>1 DEF Statuses
      <4>2. QED
        BY <4>1, PlainBacked
    <3>2. CASE sender # "PASS"
      <4>1. sender = "FAIL" /\ ~ WellFormed(config').sender
        BY <1>1, <1>7, <3>2
      <4>2. QED
        BY <2>2, <4>1, NoSenderBacked
    <3>3. QED
      BY <3>1, <3>2
  <2>3. CASE r = <<"D7-id", id>>
    <3>1. CASE id = "PASS"
      <4>1. r[1] = "D7-id" /\ r[2] = "PASS" /\ r[2] \in Statuses
        BY <2>3, <3>1 DEF Statuses
      <4>2. QED
        BY <4>1, PlainBacked
    <3>2. CASE id # "PASS"
      <4>1. id = "FAIL" /\ ~ WellFormed(config').id
        BY <1>1, <1>7, <3>2
      <4>2. QED
        BY <2>3, <4>1, NoIdBacked
    <3>3. QED
      BY <3>1, <3>2
  <2>4. QED
    BY <1>8, <1>12, <2>1, <2>2, <2>3
<1>13. <<"R2", "PASS">> \notin results
  BY <1>10
<1>14. SameFile' => config.exists /\ run.given
  BY <1>1, <1>5 DEF SameFile
<1>15. /\ SameFile' /\ ~ WellFormed(config).id => <<"D7-id", "FAIL">> \in results
       /\ SameFile' /\ ~ WellFormed(config).sender => <<"D7-sender", "FAIL">> \in results
  BY <1>7, <1>8, <1>14
<1>16. QED
  BY <1>1, <1>3, <1>5, <1>6, <1>11, <1>12, <1>13, <1>15, SaysInv

(* The registration checks read it too, and keep what they read.           *)
LEMMA ReadRegistrationInv ==
  ASSUME ValidationAssumption, IInv, ReadRegistration
  PROVE  IInv'
<1>0. PICK c : c = IF run.given THEN config ELSE NoFile
  OBVIOUS
<1>1. /\ todo # <<>> /\ Head(todo) = "R" /\ missed' = missed /\ moves' = moves
      /\ run' = [run EXCEPT !.id = c.id, !.sender = c.sender]
      /\ \/ c.id = NoId /\ c.sender = "" /\ Returns({<<"R", "SKIP">>})
         \/ Says({})
  BY <1>0 DEF ReadRegistration, At, ParseExtensionEnv
<1>2. TypeInv /\ TodoInv
  BY DEF IInv
<1>3. c.id \in Int /\ c.sender \in Texts
  <2>1. config \in [exists : BOOLEAN, id : Int, sender : STRING]
    BY <1>2 DEF TypeInv, TypeOK, ValidationAssumption
  <2>2. NoFile.id \in Int /\ NoFile.sender \in Texts
    BY DEF NoFile, NoId, Texts
  <2>3. QED
    BY <1>0, <2>1, <2>2 DEF Texts
<1>4. /\ run' \in Runs /\ run'.step = run.step /\ run'.given = run.given
      /\ run'.env = run.env
      /\ run'.dotenv = run.dotenv /\ run'.id = c.id /\ run'.sender = c.sender
      /\ run'.counter = run.counter /\ run'.rewritten = run.rewritten
  <2>1. run \in Runs
    BY <1>2 DEF TypeInv
  <2>2. QED
    BY <1>1, <1>3, <2>1 DEF Runs
<1>5. run'.counter <= Len(extensions) /\ missed' \subseteq 0 .. MaxExtensions - 1
      /\ moves' \in 0 .. MaxMoves
  BY <1>1, <1>2, <1>4 DEF TypeInv, TypeOK
<1>6. SameFile' => c = config
  BY <1>0, <1>4 DEF SameFile
<1>7. CASE c.id = NoId /\ c.sender = "" /\ Returns({<<"R", "SKIP">>})
  <2>1. PICK r : r = <<"R", "SKIP">>
    OBVIOUS
  <2>2. r[1] = "R" /\ r[2] = "SKIP" /\ r[2] \in Statuses
    BY <2>1 DEF Statuses
  <2>3. /\ todo' = (IF run.step = "all" THEN LaterChecks ELSE <<>>) /\ exit' = exit
        /\ config' = config
    BY <1>7 DEF Returns, files
  <2>4. Len(todo') \in Nat /\ Len(todo') < Len(todo)
    BY <1>1, <1>2, <1>4, <2>3, ReturnInOrder
  <2>5. InTurn(r)'
    <3>1. r[1] \in RegistrationIds /\ Left(r[1]) = Left(Head(todo))
      BY <1>1, <2>2 DEF RegistrationIds
    <3>2. QED
      BY <1>1, <1>2, <1>4, <2>4, <3>1, NowInTurn
  <2>6. Backed(r)'
    <3>1. SameFile' => ~ WellFormed(config').id
      <4>0. SUFFICES ASSUME c = config PROVE ~ WellFormed(config').id
        BY <1>6
      <4>1. PICK n : n = config.id
        OBVIOUS
      <4>2. n = -1
        BY <1>7, <4>0, <4>1 DEF NoId
      <4>3. ~ (n >= 0)
        BY <4>2
      <4>4. QED
        BY <2>3, <4>1, <4>3 DEF WellFormed
    <3>2. r \notin {<<"R2", "PASS">>, <<"R3", "PASS">>, <<"R4", "PASS">>,
                    <<"R7", "PASS">>, <<"V2", "WARN">>, <<"D7-sender", "FAIL">>,
                    <<"E1", "FAIL">>}
      BY <2>2
    <3>3. QED
      BY <2>2, <3>1, <3>2 DEF Backed
  <2>7. Returns({r}) /\ \A q \in {r} : InTurn(q)' /\ Backed(q)'
    BY <1>7, <2>1, <2>5, <2>6
  <2>8. <<"R2", "PASS">> \notin {r}
    BY <2>2
  <2>9. QED
    BY <1>1, <1>4, <1>5, <1>6, <2>7, <2>8, ReturnsInv
<1>8. CASE Says({})
  BY <1>1, <1>4, <1>5, <1>6, <1>8, SaysInv
<1>9. QED
  BY <1>1, <1>7, <1>8

(* R1 has counted, or failed, and EXTENSION_ID is a number or is not.      *)
LEMMA FormattedInv ==
  ASSUME IInv, NEW status \in {"PASS", "WARN", "FAIL"}, At("R1"),
         Formatted({<<"R1", status>>}), missed' = missed, moves' \in 0 .. MaxMoves,
         run' = run \/ run' = [run EXCEPT !.counter = Len(extensions)]
  PROVE  IInv'
<1>1. todo # <<>> /\ Head(todo) = "R1"
  BY DEF At
<1>2. TypeInv /\ TodoInv
  BY DEF IInv
<1>3. Len(extensions) \in Nat /\ run \in Runs /\ run.counter <= Len(extensions)
  BY <1>2 DEF TypeInv
<1>4. /\ run' \in Runs /\ run'.step = run.step /\ run'.given = run.given
      /\ run'.env = run.env
      /\ run'.dotenv = run.dotenv /\ run'.id = run.id /\ run'.sender = run.sender
      /\ run'.rewritten = run.rewritten
      /\ run'.counter = run.counter \/ run'.counter = Len(extensions)
  BY <1>3 DEF Runs
<1>5. run'.counter <= Len(extensions) /\ missed' \subseteq 0 .. MaxExtensions - 1
  BY <1>2, <1>3, <1>4 DEF TypeInv, TypeOK
<1>6. PICK r : r = <<"R1", status>>
  OBVIOUS
<1>7. r[1] = "R1" /\ r[2] = status /\ r[2] \in Statuses
  BY <1>6 DEF Statuses
<1>8. Backed(r)'
  BY <1>7, PlainBacked
<1>9. CASE run.id >= 0
  <2>1. Says({r})
    BY <1>6, <1>9 DEF Formatted
  <2>2. Len(todo') \in Nat /\ Len(todo') < Len(todo)
    BY <1>1, <1>2, <2>1, LenTail DEF Says
  <2>3. InTurn(r)'
    <3>1. r[1] \in RegistrationIds /\ Left(r[1]) = Left(Head(todo))
      BY <1>1, <1>7 DEF RegistrationIds
    <3>2. QED
      BY <1>1, <1>2, <1>4, <2>2, <3>1, NowInTurn
  <2>4. <<"R2", "PASS">> \notin {r} /\ \A q \in {r} : InTurn(q)' /\ Backed(q)'
    BY <1>7, <1>8, <2>3
  <2>5. QED
    BY <1>1, <1>4, <1>5, <2>1, <2>4, SaysInv
<1>10. CASE ~ (run.id >= 0)
  <2>1. PICK s : s = <<"R2-format", "FAIL">>
    OBVIOUS
  <2>2. s[1] = "R2-format" /\ s[2] = "FAIL"
    BY <2>1
  <2>3. PICK results : results = {r} \cup {s}
    OBVIOUS
  <2>4. Returns(results)
    BY <1>6, <1>10, <2>1, <2>3 DEF Formatted
  <2>5. /\ todo' = (IF run.step = "all" THEN LaterChecks ELSE <<>>) /\ exit' = exit
        /\ config' = config
    BY <2>4 DEF Returns, files
  <2>6. Len(todo') \in Nat /\ Len(todo') < Len(todo)
    BY <1>1, <1>2, <1>4, <2>5, ReturnInOrder
  <2>7. ASSUME NEW q \in results PROVE InTurn(q)'
    <3>1. q[1] = "R1" \/ q[1] = "R2-format"
      BY <1>7, <2>2, <2>3, <2>7
    <3>2. q[1] \in RegistrationIds /\ Left(q[1]) = Left(Head(todo))
      BY <1>1, <3>1, LeftIs DEF RegistrationIds
    <3>3. QED
      BY <1>1, <1>2, <1>4, <2>6, <3>2, NowInTurn
  <2>8. Backed(s)'
    <3>1. SameFile' => SameFile
      BY <1>4, <2>5 DEF SameFile
    <3>2. Len(todo) < Left("R") /\ exit = "running"
      <4>1. exit = "running"
        BY <1>1, <1>2, NextCheck
      <4>2. Len(todo) = Left("R1")
        BY <1>1, <1>2, Turn
      <4>3. Left("R1") < Left("R")
        BY LeftIs
      <4>4. QED
        BY <4>1, <4>2, <4>3
    <3>3. SameFile' => run.id = config.id
      BY <3>1, <3>2 DEF IInv, ReadInv
    <3>4. SameFile' => ~ WellFormed(config').id
      BY <1>10, <2>5, <3>3 DEF WellFormed
    <3>5. QED
      BY <2>1, <3>4, NoIdBacked
  <2>9. <<"R2", "PASS">> \notin results /\ \A q \in results : InTurn(q)' /\ Backed(q)'
    BY <1>7, <1>8, <2>2, <2>3, <2>7, <2>8
  <2>10. QED
    BY <1>1, <1>4, <1>5, <2>4, <2>9, ReturnsInv
<1>11. QED
  BY <1>9, <1>10

LEMMA CheckCounterInv ==
  ASSUME IInv, CheckCounter
  PROVE  IInv'
<1>1. At("R1") /\ missed' = missed /\ moves' \in 0 .. MaxMoves
  BY DEF CheckCounter, IInv, TypeInv, TypeOK
<1>2. CASE manager = "code"
  <2>1. PICK status : status = IF NextPublicExtensionId = 0 THEN "WARN" ELSE "PASS"
    OBVIOUS
  <2>2. /\ run' = [run EXCEPT !.counter = Len(extensions)]
        /\ Formatted({<<"R1", status>>}) /\ status \in {"PASS", "WARN", "FAIL"}
    BY <1>2, <2>1 DEF CheckCounter, NextPublicExtensionId
  <2>3. QED
    BY <1>1, <2>2, FormattedInv
<1>3. CASE manager # "code"
  <2>1. run' = run /\ Formatted({<<"R1", "FAIL">>})
    BY <1>3 DEF CheckCounter
  <2>2. QED
    BY <1>1, <2>1, FormattedInv
<1>4. QED
  BY <1>2, <1>3

(* A call that fails says no more than that. *)
LEMMA CallFailsInv ==
  ASSUME ValidationAssumption, IInv,
         NEW check \in {"D1", "D5-funds", "D6", "R1", "R2", "R3", "R4"}, CallFails(check)
  PROVE  IInv'
<1>1. At(check) /\ run' = run /\ missed' = missed /\ moves' \in 0 .. MaxMoves
  <2>1. moves \in 0 .. MaxMoves /\ MaxMoves \in Nat
    BY DEF IInv, TypeInv, TypeOK, ValidationAssumption
  <2>2. QED
    BY <2>1 DEF CallFails, Moves
<1>2. CASE Timed(check) /\ Says(DeployResults(check, FALSE))
  <2>1. check \in {"D1", "D5-funds", "D6"}
    BY <1>2 DEF Timed
  <2>2. QED
    BY <1>1, <1>2, <2>1, DeployInv
<1>3. CASE check = "R1" /\ Formatted({<<"R1", "FAIL">>})
  BY <1>1, <1>3, FormattedInv
<1>4. CASE check \in {"R2", "R3", "R4"} /\ Says({<<check, "FAIL">>})
  BY <1>1, <1>4, RegisteredInv
<1>5. QED
  BY <1>2, <1>3, <1>4 DEF CallFails

-----------------------------------------------------------------------------
(* The beginning and the end of a run.                                     *)

LEMMA StartVerifyInv ==
  ASSUME ValidationAssumption, IInv, NEW step \in Steps, NEW filter \in Filters,
         NEW given \in BOOLEAN, StartVerify(step, filter, given)
  PROVE  IInv'
<1>1. step \in StepNames /\ filter \in SUBSET STRING
  BY DEF ValidationAssumption
<1>2. PICK env : env = IF step \in StepsNeedingChain THEN Loaded ELSE exported
  OBVIOUS
<1>3. /\ run' = [NoRun EXCEPT !.step = step, !.filter = filter, !.given = given,
                              !.dotenv = dotenv, !.env = env]
      /\ report' = {} /\ missed' = {} /\ moves' = moves
      /\ \/ exit' \in {"connecting", "1"} /\ todo' = <<>>
         \/ exit' = "running" /\ todo' = Order(step) /\ step \notin StepsNeedingChain
      /\ extensions' = extensions /\ manager' = manager /\ balance' = balance
      /\ config' = config /\ exported' = exported /\ dotenv' = dotenv
      /\ silent' = silent
  BY <1>2 DEF StartVerify, chain, files
<1>4. exported \in Variables /\ dotenv \in Variables
  BY DEF IInv, TypeInv
<1>5. env \in Variables
  <2>1. Loaded \in Variables
    BY <1>4 DEF Loaded, Variables
  <2>2. QED
    BY <1>2, <1>4, <2>1
<1>6. PICK empty : empty = [n \in EnvNames |-> ""]
  OBVIOUS
<1>7. empty \in Variables
  BY <1>6 DEF Variables, Texts
<1>8. NoRun = [step |-> "none", given |-> FALSE, filter |-> {}, env |-> empty, dotenv |-> empty,
               id |-> NoId, sender |-> "", counter |-> -1, rewritten |-> FALSE]
  BY <1>6 DEF NoRun
<1>9. run' = [step |-> step, given |-> given, filter |-> filter, env |-> env, dotenv |-> dotenv,
              id |-> NoId, sender |-> "", counter |-> -1, rewritten |-> FALSE]
  BY <1>3, <1>8
<1>10. /\ run' \in Runs /\ run'.step = step /\ run'.env = env /\ run'.dotenv = dotenv
       /\ run'.counter = -1
  <2>1. "" \in Texts /\ NoId \in Int /\ -1 \in Int
    BY DEF Texts, NoId
  <2>2. QED
    BY <1>1, <1>4, <1>5, <1>9, <2>1 DEF Runs
<1>11. TypeInv'
  <2>1. -1 <= Len(extensions)
    <3>1. Len(extensions) \in Nat
      BY DEF IInv, TypeInv
    <3>2. QED
      BY <3>1
  <2>2. TypeOK'
    BY <1>3 DEF IInv, TypeInv, TypeOK, Ongoing
  <2>3. extensions' \in Seq(Extensions) /\ exported' \in Variables /\ dotenv' \in Variables
    BY <1>3 DEF IInv, TypeInv
  <2>4. run'.counter <= Len(extensions')
    BY <1>3, <1>10, <2>1
  <2>5. QED
    BY <1>10, <2>2, <2>3, <2>4 DEF TypeInv
<1>12. Order(step) \in Seq(Checks)
  BY <1>1, OrderType
<1>13. TodoInv'
  <2>1. CASE exit' = "running"
    <3>1. Ends(Order(step), Order(step))
      BY <1>12 DEF Ends
    <3>2. Ends(todo, Order(run.step))'
      BY <1>3, <1>10, <2>1, <3>1 DEF Ends, Order
    <3>3. QED
      BY <1>1, <1>3, <1>10, <1>12, <2>1, <3>2 DEF TodoInv
  <2>2. CASE exit' # "running"
    <3>1. todo' \in Seq(Checks)
      <4>1. todo' = <<>> /\ <<>> \in Seq(Checks)
        BY <1>3, <2>2
      <4>2. QED
        BY <4>1
    <3>2. QED
      BY <1>1, <1>3, <1>10, <2>2, <3>1 DEF TodoInv
  <2>3. QED
    BY <2>1, <2>2
<1>14. ReportInv'
  BY <1>3 DEF ReportInv
<1>15. exit' = "running" => run'.step # "all"
  BY <1>3, <1>10 DEF StepsNeedingChain
<1>16. CompleteInv'
  <2>1. SUFFICES ASSUME exit' = "running" PROVE Complete'
    BY <1>3 DEF CompleteInv
  <2>2. ~ SameFile'
    BY <1>15, <2>1 DEF SameFile
  <2>3. QED
    BY <1>3, <2>2 DEF Complete
<1>17. ReadInv'
  <2>1. ASSUME run'.step = "all", run'.env["DEPLOYMENT_PRIVATE_KEY"] = ""
        PROVE  run'.dotenv["DEPLOYMENT_PRIVATE_KEY"] = ""
    <3>1. env = Loaded
      BY <1>2, <1>10, <2>1 DEF StepsNeedingChain
    <3>2. Loaded["DEPLOYMENT_PRIVATE_KEY"] =
            IF exported["DEPLOYMENT_PRIVATE_KEY"] # ""
            THEN exported["DEPLOYMENT_PRIVATE_KEY"] ELSE dotenv["DEPLOYMENT_PRIVATE_KEY"]
      BY DEF Loaded, EnvNames
    <3>3. QED
      BY <1>10, <2>1, <3>1, <3>2
  <2>2. ~ (SameFile' /\ exit' = "running" /\ Len(todo') < Left("R")')
    BY <1>15 DEF SameFile
  <2>3. QED
    BY <2>1, <2>2 DEF ReadInv
<1>18. ExitInv'
  BY <1>3 DEF ExitInv
<1>19. QED
  BY <1>11, <1>13, <1>14, <1>16, <1>17, <1>18 DEF IInv

(* The tools are set up: no check was made yet, and all are to come.       *)
LEMMA ConnectInv ==
  ASSUME IInv, Connect
  PROVE  IInv'
<1>1. /\ exit = "connecting" /\ exit' = "running" /\ todo' = Order(run.step)
      /\ run' = run /\ report' = report /\ missed' = missed /\ moves' = moves
      /\ extensions' = extensions /\ manager' = manager /\ balance' = balance
      /\ config' = config /\ exported' = exported /\ dotenv' = dotenv
      /\ silent' = silent
  BY DEF Connect, chain, files
<1>2. run.step \in StepNames /\ report = {}
  BY <1>1 DEF IInv, TodoInv
<1>3. TypeInv'
  BY <1>1 DEF IInv, TypeInv, TypeOK, Ongoing
<1>4. TodoInv'
  <2>1. Order(run.step) \in Seq(Checks)
    BY <1>2, OrderType
  <2>2. Ends(Order(run.step), Order(run.step))
    BY <2>1 DEF Ends
  <2>3. Ends(todo, Order(run.step))'
    BY <1>1, <2>2 DEF Ends, Order
  <2>4. QED
    BY <1>1, <1>2, <2>1, <2>3 DEF TodoInv
<1>5. ASSUME run.step = "all", NEW id \in ReaderIds \cup {"R"}
      PROVE  ~ (Len(todo') < Left(id)')
  <2>1. PICK n : n = Len(todo')
    OBVIOUS
  <2>2. n = 14
    BY <1>1, <1>5, <2>1, OrderOfAll
  <2>3. Later' = 4
    BY <1>1, <1>5 DEF Later
  <2>4. Left(id)' \in {1, 3, 4, 10, 11}
    BY <1>5, <2>3 DEF Left, ReaderIds
  <2>5. QED
    BY <2>1, <2>2, <2>4
<1>6. CompleteInv'
  <2>1. SameFile' => \A id \in ReaderIds : ~ (Len(todo') < Left(id)')
    BY <1>1, <1>5 DEF SameFile
  <2>2. Complete'
    BY <1>1, <1>2, <2>1 DEF Complete, ReaderIds
  <2>3. QED
    BY <2>2 DEF CompleteInv
<1>7. ReadInv'
  <2>1. ~ (SameFile' /\ Len(todo') < Left("R")')
    BY <1>1, <1>5 DEF SameFile
  <2>2. QED
    BY <1>1, <2>1 DEF IInv, ReadInv
<1>8. ReportInv' /\ ExitInv'
  BY <1>1, <1>2 DEF ReportInv, ExitInv
<1>9. QED
  BY <1>3, <1>4, <1>6, <1>7, <1>8 DEF IInv

LEMMA ConnectFailsInv ==
  ASSUME ValidationAssumption, IInv, ConnectFails
  PROVE  IInv'
<1>1. /\ exit = "connecting" /\ exit' = "1" /\ todo' = todo
      /\ moves \in 0 .. MaxMoves /\ moves' = moves + 1 /\ moves < MaxMoves
      /\ MaxMoves \in Nat
      /\ run' = run /\ report' = report /\ missed' = missed
      /\ extensions' = extensions /\ manager' = manager /\ balance' = balance
      /\ config' = config /\ exported' = exported /\ dotenv' = dotenv
      /\ silent' = silent
  BY DEF ConnectFails, Moves, chain, files, IInv, TypeInv, TypeOK, ValidationAssumption
<1>2. report = {}
  BY <1>1 DEF IInv, TodoInv
<1>3. TypeInv'
  <2>1. moves' \in 0 .. MaxMoves
    BY <1>1
  <2>2. TypeOK'
    BY <1>1, <2>1 DEF IInv, TypeInv, TypeOK
  <2>3. QED
    BY <1>1, <2>2 DEF IInv, TypeInv
<1>4. TodoInv'
  BY <1>1 DEF IInv, TodoInv
<1>5. ReportInv' /\ CompleteInv' /\ ExitInv'
  BY <1>1, <1>2 DEF ReportInv, CompleteInv, ExitInv
<1>6. ReadInv'
  BY <1>1 DEF IInv, ReadInv
<1>7. QED
  BY <1>3, <1>4, <1>5, <1>6 DEF IInv

(* What a result rests on is kept by whatever else goes on: extensions are *)
(* not taken back, nor their senders changed, nor permissions withdrawn.   *)
Grows ==
  /\ Len(extensions) <= Len(extensions')
  /\ \A i \in 1 .. Len(extensions) :
       /\ extensions'[i].sender = extensions[i].sender
       /\ extensions[i].owners \subseteq extensions'[i].owners
       /\ extensions[i].evm => extensions'[i].evm

SameRun ==
  /\ run'.step = run.step /\ run'.given = run.given
  /\ run'.filter = run.filter /\ run'.env = run.env
  /\ run'.dotenv = run.dotenv /\ run'.id = run.id /\ run'.sender = run.sender
  /\ run'.counter = run.counter

LEMMA BackedStays ==
  ASSUME TypeInv, Grows, SameRun, missed' = missed, SameFile' => SameFile /\ config' = config,
         Len(extensions') \in Nat, NEW r, Backed(r)
  PROVE  Backed(r)'
<1>1. Len(extensions) \in Nat /\ run.id \in Int /\ run.counter \in Int
      /\ run.counter <= Len(extensions) /\ Len(extensions) <= Len(extensions')
  BY DEF TypeInv, Runs, Grows
<1>2. ASSUME NEW id \in 0 .. Len(extensions) - 1
      PROVE  /\ extensions'[id + 1].sender = extensions[id + 1].sender
             /\ extensions[id + 1].owners \subseteq extensions'[id + 1].owners
             /\ extensions[id + 1].evm => extensions'[id + 1].evm
  <2>1. id + 1 \in 1 .. Len(extensions)
    BY <1>1, <1>2
  <2>2. QED
    BY <2>1 DEF Grows
<1>3. InRange => InRange'
  BY <1>1 DEF InRange, SameRun
<1>4. r = <<"R2", "PASS">> => (InRange /\ Extension(run.id).sender = run.sender)'
  BY <1>2, <1>3 DEF Backed, InRange, Extension, SameRun
<1>5. r = <<"R3", "PASS">> =>
        (InRange /\ DefaultPrivateKey(run.env) \in Extension(run.id).owners)'
  BY <1>2, <1>3 DEF Backed, InRange, Extension, SameRun
<1>6. r = <<"R4", "PASS">> => (InRange /\ Extension(run.id).evm)'
  BY <1>2, <1>3 DEF Backed, InRange, Extension, SameRun
<1>7. ASSUME r = <<"R7", "PASS">>, missed' = {},
             NEW c \in 0 .. run'.counter - 1, NEW d \in 0 .. run'.counter - 1,
             extensions'[c + 1].sender = run'.sender,
             extensions'[d + 1].sender = run'.sender
      PROVE  c = d
  <2>1. c \in 0 .. run.counter - 1 /\ d \in 0 .. run.counter - 1
        /\ run'.sender = run.sender
    BY <1>7 DEF SameRun
  <2>2. c \in 0 .. Len(extensions) - 1 /\ d \in 0 .. Len(extensions) - 1
    BY <1>1, <2>1
  <2>3. Extension(c).sender = run.sender /\ Extension(d).sender = run.sender
    BY <1>2, <1>7, <2>1, <2>2 DEF Extension
  <2>4. QED
    BY <1>7, <2>1, <2>3 DEF Backed
<1>8. r = <<"R7", "PASS">> /\ missed' = {} =>
        (\A c, d \in 0 .. run.counter - 1 :
          Extension(c).sender = run.sender /\ Extension(d).sender = run.sender
          => c = d)'
  BY <1>7 DEF Extension
<1>9. r = <<"V2", "WARN">> /\ run'.step = "all" =>
        run'.dotenv["DEPLOYMENT_PRIVATE_KEY"] = ""
  BY DEF Backed, SameRun
<1>10. SameFile' =>
       /\ r \in {<<"D7-id", "FAIL">>, <<"S2", "FAIL">>, <<"V4", "FAIL">>,
                 <<"R2-format", "FAIL">>, <<"R", "SKIP">>}
            => ~ WellFormed(config').id
       /\ r \in {<<"D7-sender", "FAIL">>, <<"E1", "FAIL">>}
            => ~ WellFormed(config').sender
  BY DEF Backed
<1>11. r[2] \in Statuses
  BY DEF Backed
<1>12. QED
  BY <1>4, <1>5, <1>6, <1>8, <1>9, <1>10, <1>11 DEF Backed

(* --checks takes results out of the report, so that an exit code 0 speaks *)
(* only for those that are left.                                           *)
LEMMA FinishInv ==
  ASSUME IInv, Finish
  PROVE  IInv'
<1>1. /\ exit = "running" /\ todo = <<>>
      /\ report' = {r \in report : run.filter = {} \/ IdOf(r[1]) \in run.filter}
      /\ exit' = (IF HasFailures(report') THEN "1" ELSE "0")
      /\ extensions' = extensions /\ manager' = manager /\ balance' = balance
      /\ config' = config /\ exported' = exported /\ dotenv' = dotenv
      /\ silent' = silent /\ run' = run /\ todo' = todo /\ missed' = missed
      /\ moves' = moves
  BY DEF Finish, chain, files
<1>2. report' \subseteq report /\ exit' \in {"0", "1"}
  BY <1>1
<1>3. TypeInv'
  <2>1. TypeOK'
    BY <1>1, <1>2 DEF IInv, TypeInv, TypeOK
  <2>2. QED
    BY <1>1, <2>1 DEF IInv, TypeInv
<1>4. TodoInv'
  BY <1>1, <1>2 DEF IInv, TodoInv
<1>5. ReportInv'
  <2>1. SUFFICES ASSUME NEW r \in report' PROVE InTurn(r)' /\ Backed(r)'
    BY DEF ReportInv
  <2>2. InTurn(r) /\ Backed(r)
    BY <1>2, <2>1 DEF IInv, ReportInv
  <2>3. Left(r[1])' = Left(r[1])
    BY <1>1, SameLeft
  <2>4. InTurn(r)'
    BY <1>1, <2>2, <2>3 DEF InTurn
  <2>5. Grows
    <3>1. Len(extensions) \in Nat
      BY DEF IInv, TypeInv
    <3>2. QED
      BY <1>1, <3>1 DEF Grows
  <2>6. SameRun /\ Len(extensions') \in Nat
    BY <1>1 DEF SameRun, IInv, TypeInv
  <2>7. SameFile' => SameFile /\ config' = config
    BY <1>1 DEF SameFile
  <2>8. Backed(r)'
    BY <1>1, <2>2, <2>5, <2>6, <2>7, BackedStays DEF IInv
  <2>9. QED
    BY <2>4, <2>8
<1>6. CompleteInv'
  <2>1. SUFFICES ASSUME run.filter = {} PROVE Complete'
    BY <1>1, <1>2 DEF CompleteInv
  <2>2. report' = report
    BY <1>1, <2>1
  <2>3. Complete
    BY <1>1 DEF IInv, CompleteInv
  <2>4. \A id : Left(id)' = Left(id)
    BY <1>1, SameLeft
  <2>5. SameFile' <=> SameFile
    BY <1>1 DEF SameFile
  <2>6. QED
    BY <1>1, <2>2, <2>3, <2>4, <2>5 DEF Complete, Says2
<1>7. ReadInv'
  BY <1>1, <1>2 DEF IInv, ReadInv
<1>8. ExitInv'
  BY <1>1 DEF ExitInv
<1>9. QED
  BY <1>3, <1>4, <1>5, <1>6, <1>7, <1>8 DEF IInv

-----------------------------------------------------------------------------
(* What goes on meanwhile.                                                 *)

LEMMA WorldInv ==
  ASSUME IInv, TypeInv', Grows, SameRun, todo' = todo, report' = report,
         exit' = exit, missed' = missed,
         SameFile' => SameFile /\ config' = config
  PROVE  IInv'
<1>1. run'.step = run.step /\ run'.filter = run.filter
  BY DEF SameRun
<1>2. \A id : Left(id)' = Left(id)
  BY <1>1, SameLeft
<1>3. TodoInv'
  BY <1>1 DEF IInv, TodoInv, Ends, Order
<1>4. ReportInv'
  <2>1. SUFFICES ASSUME NEW r \in report PROVE InTurn(r)' /\ Backed(r)'
    BY DEF ReportInv
  <2>2. InTurn(r) /\ Backed(r) /\ TypeInv
    BY <2>1 DEF IInv, ReportInv
  <2>3. InTurn(r)'
    BY <1>1, <1>2, <2>2 DEF InTurn
  <2>4. Len(extensions') \in Nat
    BY DEF TypeInv
  <2>5. Backed(r)'
    BY <2>2, <2>4, BackedStays
  <2>6. QED
    BY <2>3, <2>5
<1>5. CompleteInv'
  <2>1. SUFFICES ASSUME Complete PROVE Complete'
    BY <1>1 DEF IInv, CompleteInv
  <2>2. QED
    BY <1>1, <1>2, <2>1 DEF Complete, Says2
<1>6. ReadInv'
  BY <1>1, <1>2 DEF IInv, ReadInv, SameRun
<1>7. ExitInv'
  BY DEF IInv, ExitInv
<1>8. QED
  BY <1>3, <1>4, <1>5, <1>6, <1>7 DEF IInv

LEMMA NothingGrows ==
  ASSUME IInv, extensions' = extensions
  PROVE  Grows
<1>1. Len(extensions) \in Nat
  BY DEF IInv, TypeInv
<1>2. QED
  BY <1>1 DEF Grows

LEMMA RegisterExtensionInv ==
  ASSUME ValidationAssumption, IInv, RegisterExtension
  PROVE  IInv'
<1>1. /\ moves \in 0 .. MaxMoves /\ moves' = moves + 1 /\ moves < MaxMoves
      /\ Len(extensions) < MaxExtensions
      /\ manager' = manager /\ balance' = balance
      /\ config' = config /\ exported' = exported /\ dotenv' = dotenv
      /\ silent' = silent /\ run' = run /\ todo' = todo /\ report' = report
      /\ exit' = exit /\ missed' = missed
  BY DEF RegisterExtension, Moves, files, IInv, TypeInv, TypeOK
<1>2. PICK e \in Extensions : extensions' = Append(extensions, e)
  BY DEF RegisterExtension, Extensions, Keys
<1>3. /\ extensions \in Seq(Extensions) /\ Len(extensions) \in Nat
      /\ MaxExtensions \in Nat /\ MaxMoves \in Nat
  BY DEF IInv, TypeInv, ValidationAssumption
<1>4. /\ extensions' \in Seq(Extensions) /\ Len(extensions') = Len(extensions) + 1
      /\ \A i \in 1 .. Len(extensions) : extensions'[i] = extensions[i]
  BY <1>2, <1>3
<1>5. Grows
  BY <1>3, <1>4 DEF Grows
<1>6. TypeInv'
  <2>1. \A i \in DOMAIN extensions' : extensions'[i] \in Extensions
    BY <1>4
  <2>2. Len(extensions') <= MaxExtensions
    BY <1>1, <1>3, <1>4
  <2>3. moves' \in 0 .. MaxMoves
    BY <1>1, <1>3
  <2>4. TypeOK'
    BY <1>1, <2>1, <2>2, <2>3 DEF IInv, TypeInv, TypeOK, Extensions
  <2>5. run'.counter <= Len(extensions')
    <3>1. run.counter \in Int /\ run.counter <= Len(extensions)
      BY DEF IInv, TypeInv, Runs
    <3>2. QED
      BY <1>1, <1>3, <1>4, <3>1
  <2>6. QED
    BY <1>1, <1>4, <2>4, <2>5 DEF IInv, TypeInv
<1>7. SameRun /\ (SameFile' => SameFile /\ config' = config)
  BY <1>1 DEF SameRun, SameFile
<1>8. QED
  BY <1>1, <1>5, <1>6, <1>7, WorldInv

LEMMA GrantInv ==
  ASSUME ValidationAssumption, IInv, Grant
  PROVE  IInv'
<1>1. /\ moves \in 0 .. MaxMoves /\ moves' = moves + 1 /\ moves < MaxMoves
      /\ manager' = manager /\ balance' = balance
      /\ config' = config /\ exported' = exported /\ dotenv' = dotenv
      /\ silent' = silent /\ run' = run /\ todo' = todo /\ report' = report
      /\ exit' = exit /\ missed' = missed
  BY DEF Grant, Moves, files, IInv, TypeInv, TypeOK
<1>2. PICK n \in DOMAIN extensions :
        extensions' \in {[extensions EXCEPT ![n].owners = @ \cup {k}] : k \in Keys}
                     \cup {[extensions EXCEPT ![n].evm = TRUE]}
  BY DEF Grant
<1>3. /\ extensions \in Seq(Extensions) /\ Len(extensions) \in Nat /\ MaxMoves \in Nat
      /\ extensions[n] \in Extensions /\ DOMAIN extensions = 1 .. Len(extensions)
  BY <1>2 DEF IInv, TypeInv, ValidationAssumption
<1>4. PICK e : /\ extensions' = [extensions EXCEPT ![n] = e] /\ e \in Extensions
               /\ e.sender = extensions[n].sender /\ extensions[n].owners \subseteq e.owners
               /\ extensions[n].evm => e.evm
  <2>1. CASE extensions' = [extensions EXCEPT ![n].evm = TRUE]
    <3>1. PICK e : e = [extensions[n] EXCEPT !.evm = TRUE]
      OBVIOUS
    <3>2. extensions' = [extensions EXCEPT ![n] = e]
      BY <2>1, <3>1
    <3>3. /\ e \in Extensions /\ e.sender = extensions[n].sender
          /\ extensions[n].owners \subseteq e.owners /\ e.evm
      BY <1>3, <3>1 DEF Extensions
    <3>4. QED
      BY <3>2, <3>3
  <2>2. CASE \E k \in Keys : extensions' = [extensions EXCEPT ![n].owners = @ \cup {k}]
    <3>1. PICK k \in Keys : extensions' = [extensions EXCEPT ![n].owners = @ \cup {k}]
      BY <2>2
    <3>2. PICK e : e = [extensions[n] EXCEPT !.owners = @ \cup {k}]
      OBVIOUS
    <3>3. extensions' = [extensions EXCEPT ![n] = e]
      BY <3>1, <3>2
    <3>4. /\ e \in Extensions /\ e.sender = extensions[n].sender
          /\ extensions[n].owners \subseteq e.owners /\ e.evm = extensions[n].evm
      BY <1>3, <3>2 DEF Extensions
    <3>5. QED
      BY <3>3, <3>4
  <2>3. QED
    BY <1>2, <2>1, <2>2
<1>5. /\ extensions' \in Seq(Extensions) /\ Len(extensions') = Len(extensions)
      /\ \A i \in 1 .. Len(extensions) :
           extensions'[i] = IF i = n THEN e ELSE extensions[i]
  BY <1>2, <1>3, <1>4
<1>6. Grows
  BY <1>3, <1>4, <1>5 DEF Grows
<1>7. TypeInv'
  <2>1. \A i \in DOMAIN extensions' : extensions'[i] \in Extensions
    BY <1>5
  <2>2. Len(extensions') <= MaxExtensions
    BY <1>5 DEF IInv, TypeInv, TypeOK
  <2>3. moves' \in 0 .. MaxMoves
    BY <1>1, <1>3
  <2>4. TypeOK'
    BY <1>1, <2>1, <2>2, <2>3 DEF IInv, TypeInv, TypeOK, Extensions
  <2>5. run'.counter <= Len(extensions')
    BY <1>1, <1>5 DEF IInv, TypeInv
  <2>6. QED
    BY <1>1, <1>5, <2>4, <2>5 DEF IInv, TypeInv
<1>8. SameRun /\ (SameFile' => SameFile /\ config' = config)
  BY <1>1 DEF SameRun, SameFile
<1>9. QED
  BY <1>1, <1>6, <1>7, <1>8, WorldInv

LEMMA WriteConfigInv ==
  ASSUME ValidationAssumption, IInv, WriteConfig
  PROVE  IInv'
<1>1. /\ moves \in 0 .. MaxMoves /\ moves' = moves + 1 /\ moves < MaxMoves
      /\ MaxMoves \in Nat /\ config' \in Configs
      /\ extensions' = extensions /\ manager' = manager /\ balance' = balance
      /\ exported' = exported /\ dotenv' = dotenv
      /\ silent' = silent /\ todo' = todo /\ report' = report
      /\ exit' = exit /\ missed' = missed
  BY DEF WriteConfig, Moves, chain, IInv, TypeInv, TypeOK, ValidationAssumption
<1>2. /\ run' \in Runs /\ SameRun /\ run'.rewritten
  <2>1. run \in Runs /\ run' = [run EXCEPT !.rewritten = TRUE]
    BY DEF IInv, TypeInv, WriteConfig
  <2>2. QED
    BY <2>1 DEF Runs, SameRun
<1>3. TypeInv'
  <2>1. moves' \in 0 .. MaxMoves
    BY <1>1
  <2>2. TypeOK'
    BY <1>1, <2>1 DEF IInv, TypeInv, TypeOK
  <2>3. run'.counter <= Len(extensions')
    BY <1>1, <1>2 DEF IInv, TypeInv, SameRun
  <2>4. QED
    BY <1>1, <1>2, <2>2, <2>3 DEF IInv, TypeInv
<1>4. ~ SameFile'
  BY <1>2 DEF SameFile
<1>5. QED
  BY <1>1, <1>2, <1>3, <1>4, NothingGrows, WorldInv

LEMMA SetKeyInDotEnvInv ==
  ASSUME ValidationAssumption, IInv, SetKeyInDotEnv
  PROVE  IInv'
<1>1. /\ moves \in 0 .. MaxMoves /\ moves' = moves + 1 /\ moves < MaxMoves
      /\ MaxMoves \in Nat
      /\ extensions' = extensions /\ manager' = manager /\ balance' = balance
      /\ config' = config /\ exported' = exported
      /\ dotenv' = [dotenv EXCEPT !["DEPLOYMENT_PRIVATE_KEY"] = "own"]
      /\ silent' = silent /\ run' = run /\ todo' = todo /\ report' = report
      /\ exit' = exit /\ missed' = missed
  BY DEF SetKeyInDotEnv, Moves, chain, IInv, TypeInv, TypeOK, ValidationAssumption
<1>2. dotenv' \in Variables
  <2>1. dotenv \in Variables /\ "own" \in Texts
    BY DEF IInv, TypeInv, Texts
  <2>2. QED
    BY <1>1, <2>1 DEF Variables
<1>3. dotenv' \in DotEnvs
                  \cup {[d EXCEPT !["DEPLOYMENT_PRIVATE_KEY"] = "own"] : d \in DotEnvs}
  <2>1. CASE dotenv \in DotEnvs
    BY <1>1, <2>1
  <2>2. CASE \E d \in DotEnvs : dotenv = [d EXCEPT !["DEPLOYMENT_PRIVATE_KEY"] = "own"]
    <3>1. PICK d \in DotEnvs : dotenv = [d EXCEPT !["DEPLOYMENT_PRIVATE_KEY"] = "own"]
      BY <2>2
    <3>2. d \in [EnvNames -> STRING]
      BY DEF ValidationAssumption
    <3>3. dotenv' = [d EXCEPT !["DEPLOYMENT_PRIVATE_KEY"] = "own"]
      BY <1>1, <3>1, <3>2
    <3>4. QED
      BY <3>3
  <2>3. QED
    BY <2>1, <2>2 DEF IInv, TypeInv, TypeOK
<1>4. TypeInv'
  <2>1. moves' \in 0 .. MaxMoves
    BY <1>1
  <2>2. TypeOK'
    BY <1>1, <1>3, <2>1 DEF IInv, TypeInv, TypeOK
  <2>3. QED
    BY <1>1, <1>2, <2>2 DEF IInv, TypeInv
<1>5. SameRun /\ (SameFile' => SameFile /\ config' = config)
  BY <1>1 DEF SameRun, SameFile
<1>6. QED
  BY <1>1, <1>4, <1>5, NothingGrows, WorldInv

(* The services, the balance, the node's silence: no invariant is about    *)
(* them, but for their types.                                              *)
LEMMA OthersInv ==
  ASSUME IInv, moves' \in 0 .. MaxMoves, balance' \in {0, 1}, silent' \in BOOLEAN,
         UNCHANGED <<extensions, manager, files, run, todo, report, exit, missed>>
  PROVE  IInv'
<1>1. /\ extensions' = extensions /\ manager' = manager
      /\ config' = config /\ exported' = exported /\ dotenv' = dotenv
      /\ run' = run /\ todo' = todo /\ report' = report
      /\ exit' = exit /\ missed' = missed
  BY DEF files
<1>2. TypeOK'
  BY <1>1 DEF IInv, TypeInv, TypeOK
<1>3. TypeInv'
  BY <1>1, <1>2 DEF IInv, TypeInv
<1>4. SameRun /\ (SameFile' => SameFile /\ config' = config)
  BY <1>1 DEF SameRun, SameFile
<1>5. QED
  BY <1>1, <1>3, <1>4, NothingGrows, WorldInv

LEMMA WorldStepInv ==
  ASSUME ValidationAssumption, IInv, World
  PROVE  IInv'
<1>1. CASE RegisterExtension
  BY <1>1, RegisterExtensionInv
<1>2. CASE Grant
  BY <1>2, GrantInv
<1>3. CASE WriteConfig
  BY <1>3, WriteConfigInv
<1>4. CASE SetKeyInDotEnv
  BY <1>4, SetKeyInDotEnvInv
<1>5. CASE Others
  <2>1. balance' \in {0, 1} /\ silent' \in BOOLEAN
    <3>1. balance \in {0, 1} /\ silent \in BOOLEAN
      BY DEF IInv, TypeInv, TypeOK
    <3>2. CASE balance' = 1 - balance /\ silent' = silent
      BY <3>1, <3>2
    <3>3. CASE balance' = balance
      BY <1>5, <3>1, <3>3 DEF Others
    <3>4. QED
      BY <1>5, <3>2, <3>3 DEF Others
  <2>2. moves' \in 0 .. MaxMoves
    <3>1. moves \in 0 .. MaxMoves /\ moves' = moves + 1 /\ moves < MaxMoves
          /\ MaxMoves \in Nat
      BY <1>5 DEF Others, Moves, IInv, TypeInv, TypeOK, ValidationAssumption
    <3>2. QED
      BY <3>1
  <2>3. UNCHANGED <<extensions, manager, files, run, todo, report, exit, missed>>
    BY <1>5 DEF Others
  <2>4. QED
    BY <2>1, <2>2, <2>3, OthersInv
<1>6. CASE NodeRecovers
  <2>1. moves' \in 0 .. MaxMoves /\ balance' \in {0, 1} /\ silent' \in BOOLEAN
    BY <1>6 DEF NodeRecovers, chain, IInv, TypeInv, TypeOK
  <2>2. UNCHANGED <<extensions, manager, files, run, todo, report, exit, missed>>
    BY <1>6 DEF NodeRecovers, chain
  <2>3. QED
    BY <2>1, <2>2, OthersInv
<1>7. QED
  BY <1>1, <1>2, <1>3, <1>4, <1>5, <1>6 DEF World

-----------------------------------------------------------------------------
(* The theorems.                                                           *)

LEMMA InitInv ==
  ASSUME ValidationAssumption, Init
  PROVE  IInv
<1>1. exported \in Variables /\ dotenv \in Variables
  <2>1. exported \in [EnvNames -> STRING] /\ dotenv \in [EnvNames -> STRING]
    BY DEF Init, ValidationAssumption
  <2>2. STRING \subseteq Texts
    BY DEF Texts
  <2>3. QED
    BY <2>1, <2>2 DEF Variables
<1>2. PICK empty : empty = [n \in EnvNames |-> ""]
  OBVIOUS
<1>3. empty \in Variables
  BY <1>2 DEF Variables, Texts
<1>4. run = [step |-> "none", given |-> FALSE, filter |-> {}, env |-> empty, dotenv |-> empty,
             id |-> NoId, sender |-> "", counter |-> -1, rewritten |-> FALSE]
  BY <1>2 DEF Init, NoRun
<1>5. run \in Runs /\ run.counter = -1 /\ run.step = "none"
  <2>1. "" \in Texts /\ NoId \in Int /\ -1 \in Int
    BY DEF Texts, NoId
  <2>2. QED
    BY <1>3, <1>4, <2>1 DEF Runs
<1>6. extensions = <<>> /\ todo = <<>> /\ report = {} /\ exit = "not-started"
  BY DEF Init
<1>7. extensions \in Seq(Extensions) /\ Len(extensions) = 0
  <2>1. <<>> \in Seq(Extensions) /\ Len(<<>>) = 0
    OBVIOUS
  <2>2. QED
    BY <1>6, <2>1
<1>8. TypeOK
  <2>1. Len(extensions) <= MaxExtensions /\ DOMAIN extensions = {}
    BY <1>6, <1>7 DEF ValidationAssumption
  <2>2. moves \in 0 .. MaxMoves
    BY DEF Init, ValidationAssumption
  <2>3. balance \in {0, 1} /\ missed \subseteq 0 .. MaxExtensions - 1
    BY DEF Init, MinDeployBalance
  <2>4. QED
    BY <1>6, <2>1, <2>2, <2>3 DEF Init, TypeOK
<1>9. TypeInv
  BY <1>1, <1>5, <1>7, <1>8 DEF TypeInv
<1>10. TodoInv
  <2>1. <<>> \in Seq(Checks)
    OBVIOUS
  <2>2. QED
    BY <1>6, <2>1 DEF TodoInv
<1>11. ReportInv /\ CompleteInv /\ ExitInv
  BY <1>6 DEF ReportInv, CompleteInv, ExitInv
<1>12. ReadInv
  BY <1>5 DEF ReadInv, SameFile
<1>13. QED
  BY <1>9, <1>10, <1>11, <1>12 DEF IInv

LEMMA VerifyInv ==
  ASSUME ValidationAssumption, IInv, Verify
  PROVE  IInv'
<1>1. ASSUME NEW check \in {"D1", "D5-funds", "D6"}, Deploy(check) \/ TimesOut(check)
      PROVE  IInv'
  <2>1. At(check) /\ run' = run /\ missed' = missed /\ moves' \in 0 .. MaxMoves
    BY <1>1 DEF Deploy, TimesOut, IInv, TypeInv, TypeOK
  <2>2. CASE Deploy(check)
    BY <2>1, <2>2, DeployInv DEF Deploy
  <2>3. CASE TimesOut(check)
    BY <2>1, <2>3, DeployInv DEF TimesOut
  <2>4. QED
    BY <1>1, <2>2, <2>3
<1>2. CASE ReadConfig
  BY <1>2, ReadConfigInv
<1>3. CASE ReadRegistration
  BY <1>3, ReadRegistrationInv
<1>4. CASE CheckCounter
  BY <1>4, CheckCounterInv
<1>5. ASSUME NEW check \in {"R2", "R3", "R4"}, CheckRegistered(check) PROVE IInv'
  BY <1>5, CheckRegisteredInv
<1>6. CASE CheckUnique
  BY <1>6, UniqueInv
<1>7. CASE CheckLocally
  BY <1>7, CheckLocallyInv
<1>8. CASE Finish
  BY <1>8, FinishInv
<1>9. CASE Connect
  BY <1>9, ConnectInv
<1>10. QED
  BY <1>1, <1>2, <1>3, <1>4, <1>5, <1>6, <1>7, <1>8, <1>9 DEF Verify

LEMMA NextInv ==
  ASSUME ValidationAssumption, IInv, [Next]_vars
  PROVE  IInv'
<1>1. ASSUME NEW step \in Steps, NEW filter \in Filters, NEW given \in BOOLEAN,
             StartVerify(step, filter, given)
      PROVE  IInv'
  BY <1>1, StartVerifyInv
<1>2. CASE Verify
  BY <1>2, VerifyInv
<1>3. ASSUME NEW check \in {"D1", "D5-funds", "D6", "R1", "R2", "R3", "R4"},
             CallFails(check)
      PROVE  IInv'
  BY <1>3, CallFailsInv
<1>4. CASE World
  BY <1>4, WorldStepInv
<1>5. CASE UNCHANGED vars
  <2>1. moves' \in 0 .. MaxMoves /\ balance' \in {0, 1} /\ silent' \in BOOLEAN
    BY <1>5 DEF vars, chain, IInv, TypeInv, TypeOK
  <2>2. UNCHANGED <<extensions, manager, files, run, todo, report, exit, missed>>
    BY <1>5 DEF vars, chain
  <2>3. QED
    BY <2>1, <2>2, OthersInv
<1>6. CASE ConnectFails
  BY <1>6, ConnectFailsInv
<1>7. QED
  BY <1>1, <1>2, <1>3, <1>4, <1>5, <1>6 DEF Next

(* Whatever goes on while a run makes its checks - extensions registered,  *)
(* permissions granted, the file rewritten, calls failing - the results it *)
(* has so far are so, and none is missing that a check should have made.   *)
THEOREM InductiveInvariant == Spec => []IInv
<1>1. Init => IInv
  BY ValidationAssumption, InitInv
<1>2. IInv /\ [Next]_vars => IInv'
  BY ValidationAssumption, NextInv
<1>3. QED
  BY <1>1, <1>2, PTL DEF Spec

(* The variables have their types, and a run that is over has no check to make. *)
THEOREM TypeCorrect == Spec => []TypeOK
<1>1. IInv => TypeOK
  BY DEF IInv, TypeInv
<1>2. QED
  BY <1>1, InductiveInvariant, PTL

(* A clean report of the registration checks (verify-deploy's exit code 0  *)
(* with R2 passed and no filter) is true of the chain, though each part of *)
(* it was asked in a call of its own: R3 and R4 cannot have been left out, *)
(* and nothing they found is ever taken back.                              *)
THEOREM CleanReportsAreTrue == Spec => []CleanReportIsTrue
<1>1. ASSUME IInv, exit = "0", run.step \in {"register", "all"}, run.filter = {},
             <<"R2", "PASS">> \in report
      PROVE  /\ Extension(run.id).sender = run.sender
             /\ DefaultPrivateKey(run.env) \in Extension(run.id).owners
             /\ Extension(run.id).evm
  <2>1. Complete
    BY <1>1 DEF IInv, CompleteInv
  <2>2. Len(todo) < Left("R3") /\ Len(todo) < Left("R4")
    <3>1. todo = <<>>
      BY <1>1 DEF IInv, TypeInv, TypeOK
    <3>2. Len(<<>>) = 0
      OBVIOUS
    <3>3. PICK n : n = Len(todo)
      OBVIOUS
    <3>4. n = 0
      BY <3>1, <3>2, <3>3
    <3>5. QED
      BY <3>3, <3>4, LeftIs
  <2>3. Says2("R3") /\ Says2("R4")
    BY <1>1, <2>1, <2>2 DEF Complete
  <2>4. ASSUME NEW id, <<id, "FAIL">> \in report PROVE FALSE
    <3>1. PICK r : r = <<id, "FAIL">>
      OBVIOUS
    <3>2. r \in report /\ r[2] = "FAIL"
      BY <2>4, <3>1
    <3>3. QED
      BY <1>1, <3>2 DEF IInv, ExitInv, HasFailures
  <2>5. <<"R3", "PASS">> \in report /\ <<"R4", "PASS">> \in report
    BY <2>3, <2>4 DEF Says2
  <2>6. \A r \in report : Backed(r)
    BY <1>1 DEF IInv, ReportInv
  <2>7. QED
    BY <1>1, <2>5, <2>6 DEF Backed
<1>2. IInv => CleanReportIsTrue
  BY <1>1 DEF CleanReportIsTrue, Ended
<1>3. QED
  BY <1>2, InductiveInvariant, PTL

(* Of two extensions with the run's sender the first is bound.  If R2 and  *)
(* R7 passed and R7 had an answer for each extension that R1 counted, the  *)
(* first is the run's own: what was registered since comes after it.       *)
THEOREM UniqueSendersBind == Spec => []UniqueSenderBinds
<1>1. ASSUME IInv, <<"R2", "PASS">> \in report, <<"R7", "PASS">> \in report,
             run.id < run.counter, missed = {}
      PROVE  FirstNaming(run.sender) = run.id
  <2>1. Backed(<<"R2", "PASS">>) /\ Backed(<<"R7", "PASS">>)
    BY <1>1 DEF IInv, ReportInv
  <2>2. run.id \in 0 .. Len(extensions) - 1 /\ Extension(run.id).sender = run.sender
    BY <2>1 DEF Backed, InRange
  <2>3. ASSUME NEW c \in 0 .. run.counter - 1, NEW d \in 0 .. run.counter - 1,
               Extension(c).sender = run.sender, Extension(d).sender = run.sender
        PROVE  c = d
    BY <1>1, <2>1, <2>3 DEF Backed
  <2>4. run.counter \in Int /\ Len(extensions) \in Nat
    BY <1>1 DEF IInv, TypeInv, Runs
  <2>5. ASSUME NEW d \in 0 .. run.id - 1 PROVE Extension(d).sender # run.sender
    <3>1. d \in 0 .. run.counter - 1 /\ run.id \in 0 .. run.counter - 1 /\ d # run.id
      BY <1>1, <2>2, <2>4, <2>5
    <3>2. QED
      BY <2>2, <2>3, <3>1
  <2>6. ASSUME NEW id \in 0 .. Len(extensions) - 1, Extension(id).sender = run.sender,
               \A d \in 0 .. id - 1 : Extension(d).sender # run.sender
        PROVE  id = run.id
    <3>1. ~ (id < run.id)
      <4>1. ASSUME id < run.id PROVE id \in 0 .. run.id - 1
        BY <2>2, <2>6, <4>1
      <4>2. QED
        BY <2>5, <2>6, <4>1
    <3>2. ~ (run.id < id)
      <4>1. ASSUME run.id < id PROVE run.id \in 0 .. id - 1
        BY <2>2, <2>6, <4>1
      <4>2. QED
        BY <2>2, <2>6, <4>1
    <3>3. QED
      BY <2>2, <2>4, <3>1, <3>2
  <2>7. QED
    BY <2>2, <2>5, <2>6 DEF FirstNaming, NextPublicExtensionId
<1>2. IInv => UniqueSenderBinds
  BY <1>1 DEF UniqueSenderBinds
<1>3. QED
  BY <1>2, InductiveInvariant, PTL

(* A run of all steps without -config reads no file: the registration      *)
(* checks return at once, and whoever would read it says SKIP.             *)
UnreadInv ==
  run.step = "all" /\ ~ run.given =>
    /\ exit = "running" => Len(todo) \notin 5 .. 9
    /\ \A r \in report : r[1] \in Readers => r[2] = "SKIP"

LEMMA SaysUnread ==
  ASSUME IInv, UnreadInv, NEW results, todo # <<>>, Says(results),
         run'.step = run.step, run'.given = run.given,
         run.step = "all" /\ ~ run.given =>
           /\ Head(todo) # "R"
           /\ \A r \in results : r[1] \in Readers => r[2] = "SKIP"
  PROVE  UnreadInv'
<1>1. SUFFICES ASSUME run.step = "all", ~ run.given
               PROVE  /\ Len(todo') \notin 5 .. 9
                      /\ \A r \in report' : r[1] \in Readers => r[2] = "SKIP"
  BY DEF UnreadInv
<1>2. TypeInv /\ TodoInv
  BY DEF IInv
<1>3. exit = "running" /\ Len(todo') = Len(todo) - 1 /\ Len(todo) \in Nat
  <2>1. exit = "running" /\ Len(Tail(todo)) = Len(todo) - 1
    BY <1>2, NextCheck
  <2>2. Len(todo) \in Nat
    BY <1>2 DEF TodoInv
  <2>3. QED
    BY <2>1, <2>2 DEF Says
<1>4. Len(todo) # 10
  BY <1>1, <1>2, InAll
<1>5. Len(todo) \notin 5 .. 9
  BY <1>1, <1>3 DEF UnreadInv
<1>6. Len(todo') \notin 5 .. 9
  <2>1. PICK m, n : m = Len(todo') /\ n = Len(todo)
    OBVIOUS
  <2>2. n \in Nat /\ m = n - 1 /\ n # 10 /\ n \notin 5 .. 9
    BY <1>3, <1>4, <1>5, <2>1
  <2>3. m \notin 5 .. 9
    BY <2>2
  <2>4. QED
    BY <2>1, <2>3
<1>7. \A r \in report' : r[1] \in Readers => r[2] = "SKIP"
  BY <1>1 DEF UnreadInv, Says
<1>8. QED
  BY <1>6, <1>7

(* None of the checks that ask the registry is made. *)
LEMMA NotAsked ==
  ASSUME IInv, UnreadInv, todo # <<>>,
         Head(todo) \in {"R1", "R2", "R3", "R4", "R7"}
  PROVE  ~ (run.step = "all" /\ ~ run.given)
<1>1. SUFFICES ASSUME run.step = "all", ~ run.given PROVE FALSE
  OBVIOUS
<1>2. TypeInv /\ TodoInv
  BY DEF IInv
<1>3. Len(todo) \in 5 .. 9
  <2>1. PICK n, h : n = Len(todo) /\ h = Head(todo)
    OBVIOUS
  <2>2. n = 9 \/ n = 8 \/ n = 7 \/ n = 6 \/ n = 5
    BY <1>1, <1>2, <2>1, InAll
  <2>3. QED
    BY <2>1, <2>2
<1>4. exit = "running"
  BY <1>2, NextCheck
<1>5. QED
  BY <1>1, <1>3, <1>4 DEF UnreadInv

LEMMA DeployUnread ==
  ASSUME IInv, UnreadInv, NEW check \in {"D1", "D5-funds", "D6"},
         NEW answered \in BOOLEAN, At(check), Says(DeployResults(check, answered)),
         run' = run
  PROVE  UnreadInv'
<1>1. todo # <<>> /\ Head(todo) # "R"
  BY DEF At
<1>2. PICK results : results = DeployResults(check, answered)
  OBVIOUS
<1>3. \A r \in results : r[1] \notin Readers
  BY <1>2, DeployResultsAre DEF Readers
<1>4. QED
  BY <1>1, <1>2, <1>3, SaysUnread

LEMMA ReadRegistrationUnread ==
  ASSUME IInv, UnreadInv, ReadRegistration
  PROVE  UnreadInv'
<1>1. todo # <<>> /\ Head(todo) = "R"
  BY DEF ReadRegistration, At
<1>2. run'.step = run.step /\ run'.given = run.given
  <2>1. PICK i, t : run' = [run EXCEPT !.id = i, !.sender = t]
    BY DEF ReadRegistration
  <2>2. run \in Runs
    BY DEF IInv, TypeInv
  <2>3. QED
    BY <2>1, <2>2 DEF Runs
<1>3. CASE run.step = "all" /\ ~ run.given
  <2>1. Returns({<<"R", "SKIP">>})
    <3>1. PICK c : c = IF run.given THEN config ELSE NoFile
      OBVIOUS
    <3>2. c.id = NoId /\ c.sender = ""
      BY <1>3, <3>1 DEF NoFile
    <3>3. QED
      BY <3>1, <3>2 DEF ReadRegistration, ParseExtensionEnv
  <2>2. todo' = LaterChecks /\ report' = report \cup {<<"R", "SKIP">>}
    BY <1>3, <2>1 DEF Returns
  <2>3. Len(todo') = 4
    BY <2>2, LaterChecksAre
  <2>4. PICK s : s = <<"R", "SKIP">>
    OBVIOUS
  <2>5. s[2] = "SKIP" /\ report' = report \cup {s}
    BY <2>2, <2>4
  <2>6. \A r \in report' : r[1] \in Readers => r[2] = "SKIP"
    BY <1>3, <2>5 DEF UnreadInv
  <2>7. QED
    BY <2>3, <2>6 DEF UnreadInv
<1>4. CASE ~ (run.step = "all" /\ ~ run.given)
  BY <1>2, <1>4 DEF UnreadInv
<1>5. QED
  BY <1>3, <1>4

LEMMA CheckLocallyUnread ==
  ASSUME IInv, UnreadInv, CheckLocally
  PROVE  UnreadInv'
<1>1. todo # <<>> /\ run' = run
  BY DEF CheckLocally
<1>2. CASE At("services") /\ Says(RegisterServicesChecks(run.env))
  <2>1. ASSUME ~ run.given, NEW r \in RegisterServicesChecks(run.env), r[1] \in Readers
        PROVE  r[2] = "SKIP"
    <3>1. PICK s5, s10 :
            r \in {<<"S2", "SKIP">>, <<"S5", s5>>, <<"S7", "PASS">>, <<"S10", s10>>}
                   \cup Reachable("S9", "EXT_PROXY_URL", "ext-proxy", run.env)
      BY <2>1 DEF RegisterServicesChecks
    <3>2. r \in Reachable("S9", "EXT_PROXY_URL", "ext-proxy", run.env) => r[1] = "S9"
      BY ReachableSays
    <3>3. QED
      BY <2>1, <3>1, <3>2 DEF Readers
  <2>2. PICK results : results = RegisterServicesChecks(run.env)
    OBVIOUS
  <2>3. QED
    BY <1>1, <1>2, <2>1, <2>2, SaysUnread DEF At
<1>3. CASE At("tee-version") /\ Says(RegisterTeeVersionChecks(run.env))
  <2>1. ASSUME ~ run.given, NEW r \in RegisterTeeVersionChecks(run.env), r[1] \in Readers
        PROVE  r[2] = "SKIP"
    <3>1. PICK s2 :
            r \in {<<"V2", s2>>, <<"V4", "SKIP">>}
                   \cup Reachable("V6", "EXT_PROXY_URL", "ext-proxy", run.env)
      BY <2>1 DEF RegisterTeeVersionChecks
    <3>2. r \in Reachable("V6", "EXT_PROXY_URL", "ext-proxy", run.env) => r[1] = "V6"
      BY ReachableSays
    <3>3. QED
      BY <2>1, <3>1, <3>2 DEF Readers
  <2>2. PICK results : results = RegisterTeeVersionChecks(run.env)
    OBVIOUS
  <2>3. QED
    BY <1>1, <1>3, <2>1, <2>2, SaysUnread DEF At
<1>4. CASE At("tee-machine") /\ Says(RegisterTeeMachineChecks(run.env))
  <2>1. PICK results : results = RegisterTeeMachineChecks(run.env)
    OBVIOUS
  <2>2. \A r \in results : r[1] \notin Readers
    BY <2>1, TeeMachineSays DEF Readers
  <2>3. QED
    BY <1>1, <1>4, <2>1, <2>2, SaysUnread DEF At
<1>5. CASE At("test") /\ Says(RegisterTestChecks(run.env))
  <2>1. ASSUME ~ run.given, NEW r \in RegisterTestChecks(run.env), r[1] \in Readers
        PROVE  r[2] = "SKIP"
    <3>1. r \in {<<"E1", "SKIP">>, <<"E6", "PASS">>}
                  \cup Reachable("E3", "EXT_PROXY_URL", "ext-proxy", run.env)
      BY <2>1 DEF RegisterTestChecks
    <3>2. r \in Reachable("E3", "EXT_PROXY_URL", "ext-proxy", run.env) => r[1] = "E3"
      BY ReachableSays
    <3>3. QED
      BY <2>1, <3>1, <3>2 DEF Readers
  <2>2. PICK results : results = RegisterTestChecks(run.env)
    OBVIOUS
  <2>3. QED
    BY <1>1, <1>5, <2>1, <2>2, SaysUnread DEF At
<1>6. QED
  BY <1>2, <1>3, <1>4, <1>5 DEF CheckLocally

(* A run begins with no results, and its checks with the first of them.    *)
LEMMA BeginsUnread ==
  ASSUME IInv, UnreadInv,
         (\E step \in Steps, filter \in Filters, given \in BOOLEAN :
            StartVerify(step, filter, given)) \/ Connect \/ ConnectFails \/ Finish
  PROVE  UnreadInv'
<1>1. ASSUME NEW step \in Steps, NEW filter \in Filters, NEW given \in BOOLEAN,
             StartVerify(step, filter, given)
      PROVE  UnreadInv'
  <2>1. report' = {} /\ run'.step = step
    BY <1>1 DEF StartVerify, NoRun
  <2>2. step = "all" => exit' # "running"
    BY <1>1 DEF StartVerify, StepsNeedingChain
  <2>3. QED
    BY <2>1, <2>2 DEF UnreadInv
<1>2. CASE Connect
  <2>1. run' = run /\ report' = report /\ todo' = Order(run.step)
    BY <1>2 DEF Connect
  <2>2. run.step = "all" => Len(todo') = 14
    BY <2>1, OrderOfAll
  <2>3. QED
    BY <2>1, <2>2 DEF UnreadInv
<1>3. CASE ConnectFails
  BY <1>3 DEF ConnectFails, UnreadInv
<1>4. CASE Finish
  <2>1. report' \subseteq report /\ exit' \in {"0", "1"} /\ run' = run
    BY <1>4 DEF Finish
  <2>2. QED
    BY <2>1 DEF UnreadInv
<1>5. QED
  BY <1>1, <1>2, <1>3, <1>4

LEMMA UnreadStep ==
  ASSUME IInv, UnreadInv, [Next]_vars
  PROVE  UnreadInv'
<1>1. ASSUME NEW check \in {"D1", "D5-funds", "D6"}, Deploy(check) \/ TimesOut(check)
      PROVE  UnreadInv'
  BY <1>1, DeployUnread DEF Deploy, TimesOut
<1>2. CASE ReadConfig
  <2>1. todo # <<>> /\ Head(todo) = "D7"
    BY <1>2 DEF ReadConfig, At
  <2>2. PICK results :
          results = IF run.given THEN CheckExtensionEnvFormat(config) ELSE {}
    OBVIOUS
  <2>3. Says(results) /\ run' = [run EXCEPT !.rewritten = FALSE]
    BY <1>2, <2>2 DEF ReadConfig
  <2>4. run'.step = run.step /\ run'.given = run.given
    <3>1. run \in Runs
      BY DEF IInv, TypeInv
    <3>2. QED
      BY <2>3, <3>1 DEF Runs
  <2>5. QED
    BY <2>1, <2>2, <2>3, <2>4, SaysUnread
<1>3. CASE ReadRegistration
  BY <1>3, ReadRegistrationUnread
<1>4. ASSUME todo # <<>>, Head(todo) \in {"R1", "R2", "R3", "R4", "R7"},
             run'.step = run.step, run'.given = run.given
      PROVE  UnreadInv'
  BY <1>4, NotAsked DEF UnreadInv
<1>5. CASE CheckCounter
  <2>1. run'.step = run.step /\ run'.given = run.given
    <3>1. run' = run \/ run' = [run EXCEPT !.counter = NextPublicExtensionId]
      BY <1>5 DEF CheckCounter
    <3>2. run \in Runs
      BY DEF IInv, TypeInv
    <3>3. QED
      BY <3>1, <3>2 DEF Runs
  <2>2. QED
    BY <1>4, <1>5, <2>1 DEF CheckCounter, At
<1>6. ASSUME NEW check \in {"R2", "R3", "R4"}, CheckRegistered(check)
      PROVE  UnreadInv'
  BY <1>4, <1>6 DEF CheckRegistered, At
<1>7. CASE CheckUnique
  BY <1>4, <1>7 DEF CheckUnique, At
<1>8. CASE CheckLocally
  BY <1>8, CheckLocallyUnread
<1>9. ASSUME NEW check \in {"D1", "D5-funds", "D6", "R1", "R2", "R3", "R4"},
             CallFails(check)
      PROVE  UnreadInv'
  <2>1. run' = run /\ At(check)
    BY <1>9 DEF CallFails
  <2>2. CASE check \in {"D1", "D5-funds", "D6"}
    <3>1. Says(DeployResults(check, FALSE))
      BY <1>9, <2>2 DEF CallFails
    <3>2. QED
      BY <2>1, <2>2, <3>1, DeployUnread
  <2>3. CASE check \in {"R1", "R2", "R3", "R4"}
    BY <1>4, <2>1, <2>3 DEF At
  <2>4. QED
    BY <2>2, <2>3
<1>10. CASE World \/ UNCHANGED vars
  <2>1. /\ report' = report /\ todo' = todo /\ exit' = exit
        /\ run' = run \/ run' = [run EXCEPT !.rewritten = TRUE]
    BY <1>10 DEF World, RegisterExtension, Grant, WriteConfig, SetKeyInDotEnv,
                 Others, NodeRecovers, vars
  <2>2. run'.step = run.step /\ run'.given = run.given
    <3>1. run \in Runs
      BY DEF IInv, TypeInv
    <3>2. QED
      BY <2>1, <3>1 DEF Runs
  <2>3. QED
    BY <2>1, <2>2 DEF UnreadInv
<1>11. QED
  BY <1>1, <1>2, <1>3, <1>5, <1>6, <1>7, <1>8, <1>9, <1>10, BeginsUnread
     DEF Next, Verify

(* The five readers of config/extension.env agree in a report of all steps *)
(* during which nobody wrote the file.  With -config each reads by itself, *)
(* all find the same fault, and the fault is in the exit code; without it, *)
(* as verify-deploy is run by default, all of them say SKIP and a fault of *)
(* the file is passed over.                                                *)
THEOREM ReadersDoAgree == Spec => []ReadersAgree
<1>1. ASSUME IInv, Ended({"all"}), run.filter = {}, ~ run.rewritten, config.exists,
             report # {}, run.given
      PROVE  /\ {c \in {"D7-id", "S2", "V4"} : <<c, "FAIL">> \in report}
                  \in {{}, {"D7-id", "S2", "V4"}}
             /\ {c \in {"D7-sender", "E1"} : <<c, "FAIL">> \in report}
                  \in {{}, {"D7-sender", "E1"}}
             /\ <<"R2-format", "FAIL">> \in report => <<"S2", "FAIL">> \in report
             /\ <<"R", "SKIP">> \in report => exit = "1"
  <2>1. SameFile /\ Complete
    BY <1>1 DEF Ended, SameFile, IInv, CompleteInv
  <2>2. \A id \in ReaderIds : Len(todo) < Left(id)
    <3>1. todo = <<>>
      BY <1>1 DEF Ended, IInv, TypeInv, TypeOK
    <3>2. Len(<<>>) = 0
      OBVIOUS
    <3>3. PICK n : n = Len(todo)
      OBVIOUS
    <3>4. n = 0
      BY <3>1, <3>2, <3>3
    <3>5. QED
      BY <3>3, <3>4, LeftIs DEF ReaderIds
  <2>3. \A r \in report : Backed(r)
    BY <1>1 DEF IInv, ReportInv
  <2>4. /\ ~ WellFormed(config).id =>
             \A id \in {"D7-id", "S2", "V4"} : <<id, "FAIL">> \in report
        /\ ~ WellFormed(config).sender =>
             \A id \in {"D7-sender", "E1"} : <<id, "FAIL">> \in report
    BY <2>1, <2>2 DEF Complete, ReaderIds
  <2>5. WellFormed(config).id =>
          /\ \A id \in {"D7-id", "S2", "V4", "R2-format"} : <<id, "FAIL">> \notin report
          /\ <<"R", "SKIP">> \notin report
    BY <2>1, <2>3 DEF Backed
  <2>6. WellFormed(config).sender =>
          \A id \in {"D7-sender", "E1"} : <<id, "FAIL">> \notin report
    BY <2>1, <2>3 DEF Backed
  <2>7. {c \in {"D7-id", "S2", "V4"} : <<c, "FAIL">> \in report}
          \in {{}, {"D7-id", "S2", "V4"}}
    BY <2>4, <2>5
  <2>8. {c \in {"D7-sender", "E1"} : <<c, "FAIL">> \in report}
          \in {{}, {"D7-sender", "E1"}}
    BY <2>4, <2>6
  <2>9. ASSUME <<"R", "SKIP">> \in report PROVE exit = "1"
    <3>1. PICK r : r = <<"S2", "FAIL">>
      OBVIOUS
    <3>2. r \in report /\ r[2] = "FAIL"
      BY <2>4, <2>5, <2>9, <3>1
    <3>3. exit # "0"
      BY <1>1, <3>2 DEF IInv, ExitInv, HasFailures
    <3>4. QED
      BY <1>1, <3>3 DEF Ended
  <2>10. QED
    BY <2>4, <2>5, <2>7, <2>8, <2>9
<1>2. IInv /\ UnreadInv => ReadersAgree
  <2>1. ASSUME UnreadInv, Ended({"all"}), ~ run.given
        PROVE  \A r \in report : r[1] \in Readers => r[2] = "SKIP"
    BY <2>1 DEF UnreadInv, Ended
  <2>2. QED
    BY <1>1, <2>1 DEF ReadersAgree
<1>3. Init => UnreadInv
  BY DEF Init, UnreadInv, NoRun
<1>4. IInv /\ UnreadInv /\ [Next]_vars => UnreadInv'
  BY UnreadStep
<1>5. QED
  BY <1>2, <1>3, <1>4, InductiveInvariant, PTL DEF Spec

(* The key that V2 asks for, put in .env, is seen by the next run of all   *)
(* steps: it loads .env before it makes any check.                         *)
THEOREM FixesAreSeen == Spec => []FixIsSeen
<1>1. ASSUME IInv, run.step = "all", <<"V2", "WARN">> \in report
      PROVE  run.dotenv["DEPLOYMENT_PRIVATE_KEY"] = ""
  BY <1>1 DEF IInv, ReportInv, Backed
<1>2. IInv => FixIsSeen
  BY <1>1 DEF FixIsSeen
<1>3. QED
  BY <1>2, InductiveInvariant, PTL
=============================================================================
