---------------------------- MODULE MCIoService ----------------------------
(***************************************************************************)
(* IoService with a few calls and a channel of one.                        *)
(***************************************************************************)
EXTENDS IoService

CONSTANTS a, b

TwoCallers == {a, b}
=============================================================================
