---------------------------- MODULE MCEventObject ----------------------------
(***************************************************************************)
(* Instances of EventObject for TLC.                                       *)
(***************************************************************************)
EXTENDS EventObject, TLC

CONSTANTS symbol, string, ctype, a, b

\* :content_type and 'Content-type' give one name.
MCNameOf == [k \in Keys |-> ctype]

\* Every name made from a UUID is one text.
MCNameFrom == [x \in Texts |-> a]

\* No part, one, and two.
MCMessages == {<<>>, <<a>>, <<b, a>>}

Symmetry == Permutations(Strings)

==============================================================================
