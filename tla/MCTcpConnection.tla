--------------------------- MODULE MCTcpConnection ---------------------------
(* TcpConnection on small instances: messages of two bytes, of one and of  *)
(* none, a send buffer of one byte, so that writes are partial, and a low  *)
(* high-water mark.                                                        *)
EXTENDS TcpConnection

CONSTANTS m1, m2, m3, t1

AllMessages == {m1, m2, m3}
OneThread == {t1}
TwoMessages == {m1, m2}
Size(m) == CASE m = m1 -> 2 [] m = m2 -> 1 [] m = m3 -> 0
Lengths == [m \in AllMessages |-> Size(m)]
LengthsOfTwo == [m \in TwoMessages |-> Size(m)]
=============================================================================
