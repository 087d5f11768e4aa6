---------------------------- MODULE MCNodeCalls ----------------------------
(***************************************************************************)
(* An instance of NodeCalls for TLC.                                       *)
(***************************************************************************)
EXTENDS NodeCalls, TLC

CONSTANTS symbol, string, other, s1, s2, ctype, plain, nul

Pair(k, v) == [key |-> k, value |-> v]

\* :content_type and 'Content-type' are one name.
MCNameOf == [k \in Keys |-> IF k = other THEN plain ELSE ctype]

\* Two keys of one name and a third; set_header may refuse the first value, or the
\* last.
MCHashes == {<<Pair(symbol, s1), Pair(string, plain), Pair(other, s2)>>}
MCArgLists == {<<>>, <<s1>>, <<s1, s2>>}

Symmetry == Permutations(Callers)

============================================================================
