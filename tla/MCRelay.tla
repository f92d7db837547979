------------------------------ MODULE MCRelay -------------------------------
(* Two nodes, for TLC.                                                     *)
EXTENDS Relay

CONSTANTS n1, n2

MCNodes == <<n1, n2>>
MCInputs == {<<"key", 0>>, <<"key", 1>>, <<"flush", 1>>}
=============================================================================
