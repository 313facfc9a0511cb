-------------------------- MODULE MCExtensionSetup --------------------------
(* Small instances of ExtensionSetup for TLC: its constants are given in    *)
(* the .cfg files.                                                         *)
EXTENDS ExtensionSetup
=============================================================================
