---------------------------- MODULE MCJobManager ----------------------------
(***************************************************************************)
(* JobManager with a few saves, some of which do not load.                 *)
(***************************************************************************)
EXTENDS JobManager

SecondIsBad == {0, 1, 3}
AllGood == Versions
=============================================================================
