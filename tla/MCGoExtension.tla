---------------------------- MODULE MCGoExtension ----------------------------
(* Small instances of GoExtension for TLC: a group of order 5, keys of at   *)
(* most 2 bytes, with every way a decrypted key can be refused.             *)
EXTENDS GoExtension

CONSTANTS pay

Bytes(n, v) == [length |-> n, value |-> v]

MCPlaintexts == {Bytes(0, 0), Bytes(2, 0), Bytes(1, 1), Bytes(2, 2),
                 Bytes(2, 5), Bytes(2, 6), Bytes(3, 2)}

MCTexts == {pay}

Instruction(type, command, msg) ==
  [opType |-> type, opCommand |-> command,
   originalMessage |-> msg, message |-> Empty]

Direct(command, msg) ==
  [opType |-> "KEY", opCommand |-> command,
   originalMessage |-> Empty, message |-> msg]

State == Instruction("GET /state", "", Empty)

(* Every kind of request. *)
WideInputs ==
  {Instruction("KEY", "UPDATE", m) : m \in MCPlaintexts \cup {BadHex, Empty}}
  \cup {Instruction("KEY", "SIGN", m) : m \in {pay, BadHex, Empty}}
  \cup {Instruction("OTHER", "SIGN", pay), Instruction("KEY", "SET_POLICY", pay),
        Direct("SIGN", pay), State}
=============================================================================
