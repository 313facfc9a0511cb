--------------------------- MODULE MCInstructions ---------------------------
(* Small instances of Instructions for TLC: its other constants are given  *)
(* in the .cfg file.                                                       *)
EXTENDS Instructions

(* The Go extension with a node for each way the tools may, or may not,    *)
(* learn a reason, and the TypeScript extension.                           *)
MCDeployments ==
  {[language |-> "go", estimate |-> "error data", call |-> "stripped"],
   [language |-> "go", estimate |-> "stripped", call |-> "result"],
   [language |-> "go", estimate |-> "error text", call |-> "error text"],
   [language |-> "typescript", estimate |-> "stripped", call |-> "error data"]}
=============================================================================
