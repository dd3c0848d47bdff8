--------------------------- MODULE MCCdpTransport ---------------------------
(***************************************************************************)
(* CdpTransport with two calls and one waiter with a timeout on a session. *)
(***************************************************************************)
EXTENDS CdpTransport

CONSTANTS c1, c2, w1, s1

TwoCalls == {c1, c2}
OneWaiter == {w1}
OneSession == {s1}
KeyOf == [w \in OneWaiter |-> s1]
=============================================================================
