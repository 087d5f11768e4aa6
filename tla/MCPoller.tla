----------------------------- MODULE MCPoller -----------------------------
(***************************************************************************)
(* An instance of Poller for TLC.                                          *)
(***************************************************************************)
EXTENDS Poller

CONSTANTS n1, n2, w1, w2

\* One node, a node given twice beside another, and two nodes with what is no
\* node between them.
MCLists == {<<n1>>, <<n1, n1, n2>>, <<n2, NotANode, n1>>}

===========================================================================
