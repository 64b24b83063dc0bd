------------------------- MODULE MCReceiveOnlyDaemon -------------------------
(* One file, for TLC: contents of one size, or b2 larger.                  *)
EXTENDS ReceiveOnlyDaemon

CONSTANTS f, P, b1, b2, u

DaemonAbove == [p \in Paths |-> {}]
DaemonHomes == [i \in Items |-> Paths]
DaemonSizes == [b \in Blobs |-> IF b = b2 THEN 2 ELSE 1]
EqualSizes  == [b \in Blobs |-> 1]
=============================================================================
