--------------------------- MODULE MCRecordStore ---------------------------
(***************************************************************************)
(* RecordStore on two callers, two hashes and two jobs.  The batches hold  *)
(* the cases that matter: one item, two different items, one item twice.   *)
(* Two timestamps let two inserts collide on a key or not.                 *)
(***************************************************************************)
EXTENDS RecordStore

CONSTANTS c1, c2, h1, h2, j1, j2

MCCallers == {c1, c2}
MCHashes == {h1, h2}
MCBatches == {<<h1>>, <<h1, h1>>, <<h1, h2>>, <<h2, h1>>}
MCJobIds == {j1, j2}
MCTimestamps == {1, 2}
=============================================================================
