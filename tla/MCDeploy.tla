------------------------------ MODULE MCDeploy ------------------------------
(***************************************************************************)
(* Version 1 is installed, the server publishes 2; one installer carries 3 *)
(* and another one, perhaps that of the first day, still carries 1.        *)
(***************************************************************************)
EXTENDS Deploy

CONSTANT old

MCCarried == [i \in Installer |-> IF i = old THEN 1 ELSE 3]
=============================================================================
