--------------------------- MODULE MCRoomOwnership ---------------------------
EXTENDS RoomOwnership, TLC

CONSTANTS s1, s2, e1, e2, r1, r2

RoomSymmetry == Permutations({s1, s2}) \union Permutations({r1, r2})

\* Nobody reads what a cancelled request had captured, nor the captured row and
\* the proof of a completed one: states that differ only there are one.
Remembered(q) ==
  CASE q.status = "cancelled" -> [NoTarget EXCEPT !.status = "cancelled"]
    [] q.status = "completed" -> [q EXCEPT !.snapshot = NewRow, !.proof = None]
    [] OTHER -> q

RoomView ==
  <<row, receipt, [r \in Request |-> Remembered(request[r])], guard, sessionVars, room>>
=============================================================================
