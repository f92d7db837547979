----------------------------- MODULE MCCommands -----------------------------
(***************************************************************************)
(* One client with every command, together with the laws of the commands.  *)
(***************************************************************************)
EXTENDS MCDB, CommandLaws

MCIndices == -4 .. 3
=============================================================================
