---------------------------- MODULE MCZmsgBuild ----------------------------
(***************************************************************************)
(* Instances of ZmsgBuild for TLC.                                         *)
(***************************************************************************)
EXTENDS ZmsgBuild, TLC

CONSTANTS w1, w2, hello, pathname, number

\* A String, an object with to_str, and one that cannot be converted.
MCMessages == {<<>>, <<hello>>, <<hello, pathname>>, <<pathname, hello>>,
               <<hello, number>>, <<pathname, number>>}

Symmetry == Permutations(Workers)

=============================================================================
