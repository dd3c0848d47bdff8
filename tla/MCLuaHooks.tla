----------------------------- MODULE MCLuaHooks -----------------------------
(***************************************************************************)
(* LuaHooks with two workers.  Three calls of defer() on a queue of two    *)
(* fill it, and let a deferred function defer another one.                 *)
(***************************************************************************)
EXTENDS LuaHooks

CONSTANTS w1, w2

TwoWorkers == {w1, w2}
=============================================================================
