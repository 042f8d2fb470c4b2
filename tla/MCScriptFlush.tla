------------------------------ MODULE MCScriptFlush ------------------------------
(***************************************************************************)
(* Small instances of ScriptFlush.                                         *)
(***************************************************************************)
EXTENDS ScriptFlush
=============================================================================
