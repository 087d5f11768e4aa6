----------------------------- MODULE MCNodeWait -----------------------------
(***************************************************************************)
(* Instances of NodeWait for TLC.                                          *)
(***************************************************************************)
EXTENDS NodeWait, TLC

CONSTANTS c1, c2, alice, bob

MCEvents == {[type |-> "JOIN", peer_name |-> alice],
             [type |-> "SHOUT", peer_name |-> alice],
             [type |-> "SHOUT", peer_name |-> bob]}
OneOfEach == {[type |-> "JOIN", peer_name |-> alice],
              [type |-> "SHOUT", peer_name |-> bob]}

MCWants == {[type |-> "SHOUT", criteria |-> [peer_name |-> bob]]}

\* One thread with nested calls, two threads, a single caller.
Nested == (c1 :> c1) @@ (c2 :> c1)
Separate == (c1 :> c1) @@ (c2 :> c2)
Alone == (c1 :> c1)
OneInTheOther == (c1 :> 0) @@ (c2 :> 1)
Outermost == [c \in Callers |-> 0]

AllMethods == [c \in Callers |-> Methods]
EachOrTimed == [c \in Callers |-> {"each", "timed"}]
Threads == Permutations(Callers)
OnlyTimed == [c \in Callers |-> {"timed"}]
WaitsInBlock == (c1 :> {"wait", "timed"}) @@ (c2 :> {"timed"})
ShortInBlock == (c1 :> Methods) @@ (c2 :> {"recv", "timed"})

=============================================================================
