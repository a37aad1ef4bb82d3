-------------------------- MODULE MCServerRegistry --------------------------
(* Model values for ServerRegistry: the built-in server and one more, two    *)
(* filters, and two connections; every delete asks for the files too.        *)
EXTENDS ServerRegistry, TLC

CONSTANTS m, s, n, a, r, q, c, d

MCServer == {m, s}
MCFilter == {n, a}
MCSetter == {r, q}
MCAsks == {TRUE}
MCConn == {c, d}
MCSymmetry == Permutations(MCConn) \cup Permutations(MCSetter)
=============================================================================
