---------------------------- MODULE PollerProofs ----------------------------
(***************************************************************************)
(* What holds of Poller for any nodes, threads and calls: the entries of   *)
(* the hash keep the polled sockets alive, and map every one to its node.  *)
(***************************************************************************)
EXTENDS Poller, SequenceTheorems, WellFoundedInduction, TLAPS

\* A set of naturals has a least element.
LEMMA LeastOf ==
    ASSUME NEW I \in SUBSET Nat, I # {}
    PROVE  Min(I) \in I
<1>1. PICK x \in I : \A y \in I : <<y, x>> \notin OpToRel(<, Nat)
  BY NatLessThanWellFounded, WFMin
<1>2. \A y \in I : ~(y < x)
  BY <1>1 DEF OpToRel
<1>3. \A y \in I : x <= y
  BY <1>2
<1>4. QED
  BY <1>3 DEF Min

\* zlist_remove leaves a list of the same elements.
LEMMA RemoveFirstType ==
    ASSUME NEW S, NEW s \in Seq(S), NEW e
    PROVE  RemoveFirst(s, e) \in Seq(S)
<1>1. Len(s) \in Nat /\ \A k \in 1..Len(s) : s[k] \in S
  BY ElementOfSeq, LenProperties
<1>2. ASSUME NEW k \in 1..Len(s) PROVE RemoveAt(s, k) \in Seq(S)
  <2>1. SubSeq(s, 1, k - 1) \in Seq(S)
    BY <1>1, <1>2, SubSeqProperties
  <2>2. SubSeq(s, k + 1, Len(s)) \in Seq(S)
    BY <1>1, <1>2, SubSeqProperties
  <2>3. QED
    BY <2>1, <2>2, ConcatProperties DEF RemoveAt
<1>3. CASE \E k \in 1..Len(s) : s[k] = e
  <2> DEFINE I == {k \in 1..Len(s) : s[k] = e}
  <2>1. I # {} /\ I \subseteq Nat
    BY <1>1, <1>3
  <2>2. Min(I) \in I
    BY <2>1, LeastOf
  <2>3. QED
    BY <1>2, <1>3, <2>1, <2>2 DEF RemoveFirst, SelectInSeq
<1>4. CASE ~\E k \in 1..Len(s) : s[k] = e
  BY <1>4 DEF RemoveFirst
<1>5. QED
  BY <1>3, <1>4

-----------------------------------------------------------------------------
(* Types.                                                                  *)

LEMMA TypeStep == TypeOK /\ [Next]_vars => TypeOK'
<1> SUFFICES ASSUME TypeOK, [Next]_vars PROVE TypeOK'
  OBVIOUS
<1> USE DEF listVars, heapVars, waitVars
<1>1. ASSUME NEW n \in Nodes, Arrive(n) PROVE TypeOK'
  BY <1>1 DEF Arrive, TypeOK
<1>2. ASSUME NEW n \in Nodes, Drop(n) PROVE TypeOK'
  BY <1>2 DEF Drop, TypeOK
<1>3. ASSUME NEW n \in Nodes, Collect(n) PROVE TypeOK'
  BY <1>3 DEF Collect, TypeOK
<1>4. CASE TakeNodes
  BY <1>4 DEF TakeNodes, TypeOK
<1>5. ASSUME NEW t \in Threads, PollInterrupted(t) PROVE TypeOK'
  <2>1. snapshot' \in [Threads -> Seq(Nodes)]
    BY <1>5, EmptySeq DEF PollInterrupted, TypeOK
  <2>2. QED
    BY <1>5, <2>1 DEF PollInterrupted, Goto, Points, Reasons, TypeOK
<1>6. ASSUME NEW t \in Changers, NEW list \in Lists, BeginAdd(t, list)
      PROVE TypeOK'
  BY <1>6, NodesAssumption DEF BeginAdd, Goto, Points, Threads, TypeOK
<1>7. ASSUME NEW t \in Changers, NEW list \in Lists, BeginRemove(t, list)
      PROVE TypeOK'
  BY <1>7, NodesAssumption DEF BeginRemove, Goto, Points, Threads, TypeOK
<1>8. ASSUME NEW t \in Changers, AddNode(t) PROVE TypeOK'
  <2>1. Head(todo[t]) \in Nodes /\ todo[t] # <<>>
        /\ todo[t] \in Seq(Nodes \cup {NotANode})
    BY <1>8 DEF AddNode, Threads, TypeOK
  <2> DEFINE n == Head(todo[t])
  <2>2. nodes' = nodes \cup {n} /\ polled' = Append(polled, n)
        /\ removed' = removed \ {n} /\ todo' = [todo EXCEPT ![t] = Tail(@)]
    BY <1>8 DEF AddNode
  <2> HIDE DEF n
  <2>3. polled \in Seq(nodes \cup {n})
    BY SeqMonotonic DEF TypeOK
  <2>4. polled' \in Seq(nodes')
    BY <2>2, <2>3, AppendProperties
  <2>5. Tail(todo[t]) \in Seq(Nodes \cup {NotANode})
    BY <2>1, HeadTailProperties
  <2>6. todo' \in [Threads -> Seq(Nodes \cup {NotANode})]
    BY <2>2, <2>5 DEF TypeOK
  <2>7. nodes' \subseteq Nodes
    BY <2>1, <2>2 DEF n, TypeOK
  <2>8. QED
    BY <1>8, <2>2, <2>4, <2>6, <2>7 DEF AddNode, TypeOK
<1>9. ASSUME NEW t \in Changers, RemoveNode(t) PROVE TypeOK'
  <2>1. Head(todo[t]) \in Nodes /\ todo[t] # <<>>
        /\ todo[t] \in Seq(Nodes \cup {NotANode})
    BY <1>9 DEF RemoveNode, Threads, TypeOK
  <2> DEFINE n == Head(todo[t])
  <2>2. nodes' = nodes \cup {n} /\ polled' = RemoveFirst(polled, n)
        /\ todo' = [todo EXCEPT ![t] = Tail(@)]
    BY <1>9 DEF RemoveNode
  <2> HIDE DEF n
  <2>3. polled \in Seq(nodes \cup {n})
    BY SeqMonotonic DEF TypeOK
  <2>4. polled' \in Seq(nodes')
    BY <2>2, <2>3, RemoveFirstType
  <2>5. Tail(todo[t]) \in Seq(Nodes \cup {NotANode})
    BY <2>1, HeadTailProperties
  <2>6. todo' \in [Threads -> Seq(Nodes \cup {NotANode})]
    BY <2>2, <2>5 DEF TypeOK
  <2>7. nodes' \subseteq Nodes
    BY <2>1, <2>2 DEF n, TypeOK
  <2>8. QED
    BY <1>9, <2>4, <2>6, <2>7 DEF RemoveNode, TypeOK
<1>10. ASSUME NEW t \in Changers, EndLoop(t) PROVE TypeOK'
  BY <1>10, EmptySeq DEF EndLoop, Goto, Points, TypeOK
<1>11. ASSUME NEW t \in Waiters, NEW b \in BOOLEAN, Wait(t, b) PROVE TypeOK'
  BY <1>11 DEF Wait, Goto, Points, Reasons, TypeOK
<1>12. ASSUME NEW t \in Waiters, ReadList(t) PROVE TypeOK'
  <2>1. polled \in Seq(Nodes)
    BY SeqMonotonic DEF TypeOK
  <2>2. QED
    BY <1>12, <2>1 DEF ReadList, Goto, Points, TypeOK
<1>13. ASSUME NEW t \in Waiters, PollReady(t) PROVE TypeOK'
  <2>1. snapshot[t] \in Seq(Nodes)
    BY DEF Threads, TypeOK
  <2>2. Ready(snapshot[t]) \subseteq 1..Len(snapshot[t]) /\ Ready(snapshot[t]) # {}
    BY <1>13, <2>1, LenProperties DEF PollReady, Ready
  <2>3. Min(Ready(snapshot[t])) \in 1..Len(snapshot[t])
    BY <2>1, <2>2, LenProperties, LeastOf
  <2>4. snapshot[t][Min(Ready(snapshot[t]))] \in Nodes
    BY <2>1, <2>3, ElementOfSeq
  <2>5. sock' \in [Threads -> Nodes \cup {NoNode}]
    BY <1>13, <2>4 DEF PollReady, TypeOK
  <2>6. snapshot' \in [Threads -> Seq(Nodes)]
    BY <1>13, EmptySeq DEF PollReady, TypeOK
  <2>7. QED
    BY <1>13, <2>5, <2>6 DEF PollReady, Goto, Points, Reasons, TypeOK
<1>14. ASSUME NEW t \in Waiters, PollExpired(t) PROVE TypeOK'
  <2>1. snapshot' \in [Threads -> Seq(Nodes)]
    BY <1>14, EmptySeq DEF PollExpired, TypeOK
  <2>2. QED
    BY <1>14, <2>1 DEF PollExpired, Goto, Points, Reasons, TypeOK
<1>15. ASSUME NEW t \in Waiters, Lookup(t) PROVE TypeOK'
  <2>1. sock[t] \in nodes => sock[t] \in Nodes
    BY DEF TypeOK
  <2>2. QED
    BY <1>15, <2>1 DEF Lookup, Goto, Points, TypeOK
<1>16. ASSUME NEW t \in Waiters, Read(t) PROVE TypeOK'
  <2>1. \A n \in Nodes : n = result[t] => queue[n] - 1 \in Nat
    BY <1>16, NodesAssumption DEF Read, HasInput, TypeOK
  <2>2. queue' \in [Nodes -> Nat]
    BY <1>16, <2>1 DEF Read, TypeOK
  <2>3. /\ result' = [result EXCEPT ![t] = NoNode] /\ sock' = [sock EXCEPT ![t] = NoNode]
        /\ ended' = [ended EXCEPT ![t] = "none"] /\ timed' = [timed EXCEPT ![t] = FALSE]
        /\ pc' = [pc EXCEPT ![t] = "idle"]
        /\ UNCHANGED <<gvl, listVars, held, freed, events, todo, snapshot, calls,
                       interrupts>>
    BY <1>16 DEF Read, Goto
  <2>4. QED
    BY <2>2, <2>3 DEF Points, Reasons, TypeOK
<1>17. CASE UNCHANGED vars
  BY <1>17 DEF vars, TypeOK
<1>18. QED
  BY <1>1, <1>2, <1>3, <1>4, <1>5, <1>6, <1>7, <1>8, <1>9, <1>10, <1>11, <1>12,
     <1>13, <1>14, <1>15, <1>16, <1>17
  DEF Next, Environment, WaitStep, LoopStep, Threads

\* The invariant of the runs: the variables keep their types, and zpoller polls
\* the sockets of nodes of the hash only (poller.c:122-123, 171-172).
THEOREM TypeCorrect == Spec => []TypeOK
<1>1. Init => TypeOK
  BY EmptySeq DEF Init, TypeOK, Points, Reasons
<1>2. QED
  BY <1>1, TypeStep, PTL DEF Spec

-----------------------------------------------------------------------------
(* Why the sockets are live.                                               *)

\* What a thread in #wait points to is in the hash, ...
WaiterLinked(t) ==
    /\ pc[t] = "polling" => snapshot[t] \in Seq(nodes)
    /\ pc[t] \in {"waiting", "polling"} => sock[t] = NoNode
    /\ pc[t] = "polled" => sock[t] \in nodes \cup {NoNode}
    /\ pc[t] = "polled" /\ ended[t] = "ready" => sock[t] \in nodes
    /\ pc[t] = "returned" /\ ended[t] = "ready" => result[t] = sock[t]

\* ... and no node of the hash, or that can come into it, is freed.
Linked ==
    /\ freed \cap (nodes \cup held) = {}
    /\ \A t \in Changers : freed \cap ToSet(todo[t]) = {}
    /\ \A t \in Waiters : WaiterLinked(t)

LEMMA TailElements ==
    ASSUME NEW S, NEW s \in Seq(S), s # <<>>
    PROVE  Head(s) \in ToSet(s) /\ ToSet(Tail(s)) \subseteq ToSet(s)
<1>1. /\ Len(s) \in Nat \ {0} /\ DOMAIN s = 1..Len(s) /\ Head(s) = s[1]
      /\ Tail(s) \in Seq(S) /\ Len(Tail(s)) = Len(s) - 1
      /\ \A k \in 1..Len(Tail(s)) : Tail(s)[k] = s[k + 1]
  BY HeadTailProperties, LenProperties, EmptySeq
<1>2. DOMAIN Tail(s) = 1..(Len(s) - 1)
  BY <1>1, LenProperties
<1>3. \A k \in 1..(Len(s) - 1) : k + 1 \in 1..Len(s) /\ Tail(s)[k] = s[k + 1]
  BY <1>1
<1>4. 1 \in 1..Len(s)
  BY <1>1
<1>5. QED
  BY <1>1, <1>2, <1>3, <1>4 DEF ToSet

\* The hash grows, and the threads in #wait stay where they are.
LEMMA WaitersStay ==
    ASSUME Linked, nodes \subseteq nodes', UNCHANGED <<snapshot, sock, ended, result>>,
           \A t \in Waiters : pc'[t] = pc[t] \/ pc'[t] \in {"idle", "adding", "removing"}
    PROVE  \A t \in Waiters : (WaiterLinked(t))'
  BY SeqMonotonic DEF Linked, WaiterLinked

\* A waiter moves, and the hash stays as it is.
LEMMA WaiterMoves ==
    ASSUME TypeOK, Linked, NEW t \in Waiters,
           UNCHANGED <<nodes, held, freed, todo>>, (WaiterLinked(t))',
           \A u \in Waiters \ {t} :
               /\ pc'[u] = pc[u] /\ snapshot'[u] = snapshot[u] /\ sock'[u] = sock[u]
               /\ ended'[u] = ended[u] /\ result'[u] = result[u]
    PROVE  Linked'
  BY DEF Linked, WaiterLinked

LEMMA LoopKeepsLinked ==
    ASSUME TypeOK, Linked, NEW t \in Changers, todo[t] # <<>>, Head(todo[t]) \in Nodes,
           nodes' = nodes \cup {Head(todo[t])}, todo' = [todo EXCEPT ![t] = Tail(@)],
           UNCHANGED <<held, freed, pc, snapshot, sock, ended, result>>
    PROVE  Linked'
<1>1. todo[t] \in Seq(Nodes \cup {NotANode})
  BY DEF TypeOK, Threads
<1>2. Head(todo[t]) \in ToSet(todo[t]) /\ ToSet(Tail(todo[t])) \subseteq ToSet(todo[t])
  BY <1>1, TailElements
<1>3. \A u \in Changers : ToSet(todo'[u]) \subseteq ToSet(todo[u])
  BY <1>2 DEF TypeOK, Threads
<1>4. \A u \in Waiters : (WaiterLinked(u))'
  BY WaitersStay
<1>5. QED
  BY <1>2, <1>3, <1>4 DEF Linked

LEMMA ArgumentsAreLive ==
    ASSUME TypeOK, Linked, NEW list, Known(list)
    PROVE  freed \cap ToSet(list) = {}
  BY NodesAssumption DEF TypeOK, Linked, Known

LEMMA LinkedStep == TypeOK /\ Linked /\ [Next]_vars => Linked'
<1> SUFFICES ASSUME TypeOK, Linked, [Next]_vars PROVE Linked'
  OBVIOUS
<1> USE DEF listVars, heapVars, waitVars
<1>1. ASSUME NEW n \in Nodes, Arrive(n) \/ Drop(n) PROVE Linked'
  <2>1. held' \subseteq held
        /\ UNCHANGED <<nodes, freed, pc, todo, snapshot, sock, ended, result>>
    BY <1>1 DEF Arrive, Drop
  <2>2. QED
    BY <2>1, WaitersStay DEF Linked
<1>2. ASSUME NEW n \in Nodes, Collect(n) PROVE Linked'
  <2>1. /\ freed' = freed \cup {n} /\ n \notin held \cup nodes
        /\ \A t \in Changers : n \notin ToSet(todo[t])
    BY <1>2 DEF Collect, Reached, Threads
  <2>2. UNCHANGED <<nodes, held, pc, todo, snapshot, sock, ended, result>>
    BY <1>2 DEF Collect
  <2>3. QED
    BY <2>1, <2>2, WaitersStay DEF Linked
<1>3. CASE TakeNodes
  <2>1. held' = held \cup nodes
        /\ UNCHANGED <<nodes, freed, pc, todo, snapshot, sock, ended, result>>
    BY <1>3 DEF TakeNodes
  <2>2. QED
    BY <2>1, WaitersStay DEF Linked
<1>4. ASSUME NEW t \in Changers, NEW list \in Lists, BeginAdd(t, list)
      PROVE Linked'
  <2>1. /\ todo' = [todo EXCEPT ![t] = list] /\ freed \cap ToSet(list) = {}
        /\ UNCHANGED <<nodes, held, freed, snapshot, sock, ended, result>>
        /\ pc' = [pc EXCEPT ![t] = "adding"]
    BY <1>4, ArgumentsAreLive DEF BeginAdd, Goto
  <2>2. \A u \in Waiters : (WaiterLinked(u))'
    BY <2>1, WaitersStay DEF TypeOK, Threads
  <2>3. QED
    BY <2>1, <2>2 DEF Linked, TypeOK, Threads
<1>5. ASSUME NEW t \in Changers, NEW list \in Lists, BeginRemove(t, list)
      PROVE Linked'
  <2>1. /\ todo' = [todo EXCEPT ![t] = list] /\ freed \cap ToSet(list) = {}
        /\ UNCHANGED <<nodes, held, freed, snapshot, sock, ended, result>>
        /\ pc' = [pc EXCEPT ![t] = "removing"]
    BY <1>5, ArgumentsAreLive DEF BeginRemove, Goto
  <2>2. \A u \in Waiters : (WaiterLinked(u))'
    BY <2>1, WaitersStay DEF TypeOK, Threads
  <2>3. QED
    BY <2>1, <2>2 DEF Linked, TypeOK, Threads
<1>6. ASSUME NEW t \in Changers, AddNode(t) PROVE Linked'
  BY <1>6, LoopKeepsLinked DEF AddNode
<1>7. ASSUME NEW t \in Changers, RemoveNode(t) PROVE Linked'
  BY <1>7, LoopKeepsLinked DEF RemoveNode
<1>8. ASSUME NEW t \in Changers, EndLoop(t) PROVE Linked'
  <2>1. /\ todo' = [todo EXCEPT ![t] = <<>>] /\ pc' = [pc EXCEPT ![t] = "idle"]
        /\ UNCHANGED <<nodes, held, freed, snapshot, sock, ended, result>>
    BY <1>8 DEF EndLoop, Goto
  <2>2. \A u \in Waiters : (WaiterLinked(u))'
    BY <2>1, WaitersStay DEF TypeOK, Threads
  <2>3. ToSet(<<>>) = {}
    BY DEF ToSet
  <2>4. QED
    BY <2>1, <2>2, <2>3 DEF Linked, TypeOK, Threads
<1>9. ASSUME NEW t \in Waiters, NEW b \in BOOLEAN, Wait(t, b) PROVE Linked'
  <2>1. (WaiterLinked(t))'
    BY <1>9 DEF Wait, Goto, WaiterLinked, TypeOK, Threads
  <2>2. QED
    BY <1>9, <2>1, WaiterMoves DEF Wait, Goto, TypeOK, Threads
<1>10. ASSUME NEW t \in Waiters, ReadList(t) PROVE Linked'
  <2>1. (WaiterLinked(t))'
    BY <1>10 DEF ReadList, Goto, Linked, WaiterLinked, TypeOK, Threads
  <2>2. QED
    BY <1>10, <2>1, WaiterMoves DEF ReadList, Goto, TypeOK, Threads
<1>11. ASSUME NEW t \in Waiters, PollReady(t) PROVE Linked'
  <2>1. snapshot[t] \in Seq(nodes)
    BY <1>11 DEF PollReady, Linked, WaiterLinked
  <2>2. Ready(snapshot[t]) \subseteq 1..Len(snapshot[t]) /\ Ready(snapshot[t]) # {}
    BY <1>11, <2>1, LenProperties DEF PollReady, Ready
  <2>3. Min(Ready(snapshot[t])) \in 1..Len(snapshot[t])
    BY <2>1, <2>2, LenProperties, LeastOf
  <2>4. snapshot[t][Min(Ready(snapshot[t]))] \in nodes
    BY <2>1, <2>3, ElementOfSeq
  <2>5. (WaiterLinked(t))'
    BY <1>11, <2>4 DEF PollReady, Goto, WaiterLinked, TypeOK, Threads
  <2>6. QED
    BY <1>11, <2>5, WaiterMoves DEF PollReady, Goto, TypeOK, Threads
<1>12. ASSUME NEW t \in Waiters, PollExpired(t) \/ PollInterrupted(t) PROVE Linked'
  <2>1. (WaiterLinked(t))'
    BY <1>12 DEF PollExpired, PollInterrupted, Goto, Linked, WaiterLinked, TypeOK,
       Threads
  <2>2. QED
    BY <1>12, <2>1, WaiterMoves DEF PollExpired, PollInterrupted, Goto, TypeOK, Threads
<1>13. ASSUME NEW t \in Waiters, Lookup(t) PROVE Linked'
  <2>1. (WaiterLinked(t))'
    BY <1>13 DEF Lookup, Goto, Linked, WaiterLinked, TypeOK, Threads
  <2>2. QED
    BY <1>13, <2>1, WaiterMoves DEF Lookup, Goto, TypeOK, Threads
<1>14. ASSUME NEW t \in Waiters, Read(t) PROVE Linked'
  <2>1. (WaiterLinked(t))'
    BY <1>14 DEF Read, Goto, WaiterLinked, TypeOK, Threads
  <2>2. QED
    BY <1>14, <2>1, WaiterMoves DEF Read, Goto, TypeOK, Threads
<1>15. CASE UNCHANGED vars
  <2>1. UNCHANGED <<nodes, held, freed, pc, todo, snapshot, sock, ended, result>>
    BY <1>15 DEF vars
  <2>2. QED
    BY <2>1, WaitersStay DEF Linked
<1>16. QED
  BY <1>1, <1>2, <1>3, <1>4, <1>5, <1>6, <1>7, <1>8, <1>9, <1>10, <1>11, <1>12,
     <1>13, <1>14, <1>15
  DEF Next, Environment, WaitStep, LoopStep

\* The entries of the hash outlive every pointer that zpoller holds, and every
\* pointer that a thread in #wait holds (poller.c:122, 171).
THEOREM LinksHold == Spec => [](TypeOK /\ Linked)
<1>1. Init => Linked
  BY DEF Init, Linked, WaiterLinked, Threads
<1>2. TypeOK /\ Linked /\ [Next]_vars => Linked'
  BY LinkedStep
<1>3. QED
  BY <1>1, <1>2, TypeCorrect, PTL DEF Spec

\* The invariant of the runs: neither the poller nor a thread in #wait points to
\* a socket that the garbage collector has destroyed (poller.c:122, 171, 226).
THEOREM PolledSocketsLive == Spec => []SocketsAreLive
<1>1. TypeOK /\ Linked => SocketsAreLive
  <2> SUFFICES ASSUME TypeOK, Linked
               PROVE  /\ freed \cap ToSet(polled) = {}
                      /\ \A t \in Waiters : freed \cap InUse(t) = {}
    BY DEF SocketsAreLive
  <2>1. ASSUME NEW s \in Seq(nodes) PROVE ToSet(s) \subseteq nodes
    BY ElementOfSeq, LenProperties DEF ToSet
  <2>2. freed \cap ToSet(polled) = {}
    BY <2>1 DEF TypeOK, Linked
  <2>3. ASSUME NEW t \in Waiters PROVE freed \cap InUse(t) = {}
    <3>1. NoNode \notin freed
      BY NodesAssumption DEF TypeOK
    <3>2. QED
      BY <2>1, <3>1 DEF InUse, Linked, WaiterLinked
  <2>4. QED
    BY <2>2, <2>3
<1>2. QED
  BY <1>1, LinksHold, PTL

\* The invariant of the runs: a wait that ends because a socket has input
\* returns its node (poller.c:229-232).
THEOREM ReadyIsReturned == Spec => []ReadyNodeIsReturned
<1>1. Linked => ReadyNodeIsReturned
  BY DEF Linked, WaiterLinked, ReadyNodeIsReturned
<1>2. QED
  BY <1>1, LinksHold, PTL

-----------------------------------------------------------------------------
(* Why an added node is polled.                                            *)

\* zlist_remove takes no other element from a list.
LEMMA RemoveFirstKeeps ==
    ASSUME NEW S, NEW s \in Seq(S), NEW e, NEW x \in ToSet(s), x # e
    PROVE  x \in ToSet(RemoveFirst(s, e))
<1>1. Len(s) \in Nat /\ DOMAIN s = 1..Len(s) /\ \A k \in 1..Len(s) : s[k] \in S
  BY ElementOfSeq, LenProperties
<1>2. PICK j \in 1..Len(s) : s[j] = x
  BY <1>1 DEF ToSet
<1>3. ASSUME NEW k \in 1..Len(s), k # j PROVE x \in ToSet(RemoveAt(s, k))
  <2> DEFINE u == SubSeq(s, 1, k - 1)
             v == SubSeq(s, k + 1, Len(s))
  <2>1. /\ u \in Seq(S) /\ Len(u) = k - 1
        /\ \A m \in 1..(k - 1) : u[m] = s[m]
    BY <1>1, <1>3, SubSeqProperties
  <2>2. /\ v \in Seq(S) /\ Len(v) = Len(s) - k
        /\ \A m \in 1..(Len(s) - k) : v[m] = s[k + m]
    <3>1. k + 1 \in Int /\ Len(s) \in Int /\ \A m \in (k + 1)..Len(s) : s[m] \in S
      BY <1>1, <1>3
    <3>2. /\ v \in Seq(S)
          /\ Len(v) = IF k + 1 <= Len(s) THEN Len(s) - (k + 1) + 1 ELSE 0
          /\ \A m \in 1..(Len(s) - (k + 1) + 1) : v[m] = s[(k + 1) + m - 1]
      BY <3>1, SubSeqProperties
    <3> HIDE DEF v
    <3>3. Len(s) - (k + 1) + 1 = Len(s) - k
      BY <1>1, <1>3
    <3>4. \A m \in 1..(Len(s) - k) : (k + 1) + m - 1 = k + m
      BY <1>1, <1>3
    <3>5. Len(v) = Len(s) - k
      <4>1. Len(v) = IF k + 1 <= Len(s) THEN Len(s) - (k + 1) + 1 ELSE 0
        BY <3>2
      <4>2. k \in Int /\ Len(s) \in Int /\ k <= Len(s)
        BY <1>1, <1>3
      <4>3. QED
        BY <4>1, <4>2
    <3>6. ASSUME NEW m \in 1..(Len(s) - k) PROVE v[m] = s[k + m]
      <4>1. (k + 1) + m - 1 = k + m
        BY <3>4
      <4>2. v[m] = s[(k + 1) + m - 1]
        BY <3>2, <3>3
      <4>3. QED
        BY <4>1, <4>2
    <3>7. QED
      BY <3>2, <3>5, <3>6
  <2> HIDE DEF u, v
  <2>3. /\ u \o v \in Seq(S) /\ Len(u \o v) = Len(s) - 1
        /\ \A m \in 1..(Len(s) - 1) :
               (u \o v)[m] = IF m <= k - 1 THEN u[m] ELSE v[m - (k - 1)]
    <3>1. Len(u) + Len(v) = Len(s) - 1
      BY <1>1, <1>3, <2>1, <2>2
    <3>2. /\ u \o v \in Seq(S) /\ Len(u \o v) = Len(u) + Len(v)
          /\ \A m \in 1..(Len(u) + Len(v)) :
                 (u \o v)[m] = IF m <= Len(u) THEN u[m] ELSE v[m - Len(u)]
      BY <2>1, <2>2, ConcatProperties
    <3>3. QED
      BY <2>1, <3>1, <3>2
  <2>4. CASE j < k
    <3>1. j \in 1..(Len(s) - 1) /\ (u \o v)[j] = x
      BY <1>1, <1>2, <1>3, <2>1, <2>3, <2>4
    <3>2. QED
      BY <2>3, <3>1, LenProperties DEF RemoveAt, ToSet, u, v
  <2>5. CASE j > k
    <3>1. /\ j - 1 \in 1..(Len(s) - 1) /\ ~(j - 1 <= k - 1)
          /\ j - k = (j - 1) - (k - 1)
      BY <1>1, <1>2, <1>3, <2>5
    <3>4. (u \o v)[j - 1] = v[j - k]
      BY <2>3, <3>1
    <3>2. v[j - k] = x
      BY <1>1, <1>2, <1>3, <2>2, <2>5
    <3>3. QED
      BY <2>3, <3>1, <3>2, <3>4, LenProperties DEF RemoveAt, ToSet, u, v
  <2>6. QED
    BY <1>1, <1>2, <1>3, <2>4, <2>5
<1>4. CASE \E k \in 1..Len(s) : s[k] = e
  <2> DEFINE I == {k \in 1..Len(s) : s[k] = e}
  <2>1. I # {} /\ I \subseteq Nat
    BY <1>1, <1>4
  <2>2. Min(I) \in I
    BY <2>1, LeastOf
  <2>3. QED
    BY <1>2, <1>3, <1>4, <2>1, <2>2 DEF RemoveFirst, SelectInSeq
<1>5. CASE ~\E k \in 1..Len(s) : s[k] = e
  BY <1>5 DEF RemoveFirst
<1>6. QED
  BY <1>4, <1>5

\* One thread is in the loop of add or remove, and what remove has yet to reach
\* counts as removed.
OneChanges ==
    \A t \in Changers :
        /\ pc[t] \in {"adding", "removing"} => gvl = t
        /\ pc[t] = "removing" => ToSet(todo[t]) \cap Nodes \subseteq removed

\* A step that is not one of add or remove.
LEMMA OthersKeepAdded ==
    ASSUME OneChanges, AddedIsPolled, UNCHANGED <<gvl, polled, nodes, removed, todo>>,
           \A t \in Changers : pc'[t] = pc[t] \/ pc'[t] \notin {"adding", "removing"}
    PROVE  (OneChanges /\ AddedIsPolled)'
  BY DEF OneChanges, AddedIsPolled

LEMMA AddedStep ==
    TypeOK /\ OneChanges /\ AddedIsPolled /\ [Next]_vars => (OneChanges /\ AddedIsPolled)'
<1> SUFFICES ASSUME TypeOK, OneChanges, AddedIsPolled, [Next]_vars
             PROVE  (OneChanges /\ AddedIsPolled)'
  OBVIOUS
<1> USE DEF listVars, heapVars, waitVars
<1>1. ASSUME NEW t \in Changers, NEW list \in Lists, BeginAdd(t, list)
      PROVE (OneChanges /\ AddedIsPolled)'
  <2>1. \A u \in Changers : pc[u] \notin {"adding", "removing"}
    BY <1>1, ThreadsAssumption DEF BeginAdd, OneChanges, Threads
  <2>2. QED
    BY <1>1, <2>1 DEF BeginAdd, Goto, OneChanges, AddedIsPolled, TypeOK, Threads
<1>2. ASSUME NEW t \in Changers, NEW list \in Lists, BeginRemove(t, list)
      PROVE (OneChanges /\ AddedIsPolled)'
  <2>1. \A u \in Changers : pc[u] \notin {"adding", "removing"}
    BY <1>2, ThreadsAssumption DEF BeginRemove, OneChanges, Threads
  <2>2. /\ gvl' = t /\ todo' = [todo EXCEPT ![t] = list]
        /\ removed' = removed \cup (ToSet(list) \cap Nodes)
        /\ pc' = [pc EXCEPT ![t] = "removing"] /\ UNCHANGED <<polled, nodes>>
    BY <1>2 DEF BeginRemove, Goto
  <2>3. \A u \in Changers : pc'[u] \in {"adding", "removing"} => u = t
    BY <2>1, <2>2 DEF TypeOK, Threads
  <2>4. todo'[t] = list
    BY <2>2 DEF TypeOK, Threads
  <2>5. QED
    BY <2>2, <2>3, <2>4 DEF OneChanges, AddedIsPolled
<1>3. ASSUME NEW t \in Changers, AddNode(t) PROVE (OneChanges /\ AddedIsPolled)'
  <2> DEFINE n == Head(todo[t])
  <2>1. /\ gvl = t /\ pc[t] = "adding" /\ n \in Nodes /\ nodes' = nodes \cup {n}
        /\ polled' = Append(polled, n) /\ removed' = removed \ {n}
        /\ UNCHANGED <<gvl, pc>>
    BY <1>3 DEF AddNode, OneChanges
  <2> HIDE DEF n
  <2>2. \A u \in Changers : pc[u] \in {"adding", "removing"} => u = t
    BY <2>1 DEF OneChanges
  <2>3. OneChanges'
    BY <2>1, <2>2 DEF OneChanges
  <2>4. polled \in Seq(Nodes)
    BY SeqMonotonic DEF TypeOK
  <2>5. ToSet(polled') = ToSet(polled) \cup {n}
    <3>1. /\ Len(polled) \in Nat /\ Len(polled') = Len(polled) + 1
          /\ \A k \in 1..Len(polled) : polled'[k] = polled[k]
          /\ polled'[Len(polled) + 1] = n /\ polled' \in Seq(Nodes)
      BY <2>1, <2>4, AppendProperties, LenProperties
    <3>2. DOMAIN polled = 1..Len(polled) /\ DOMAIN polled' = 1..(Len(polled) + 1)
      BY <2>4, <3>1, LenProperties
    <3>3. 1..(Len(polled) + 1) = (1..Len(polled)) \cup {Len(polled) + 1}
      BY <3>1
    <3>4. QED
      BY <3>1, <3>2, <3>3 DEF ToSet
  <2>6. QED
    BY <2>1, <2>3, <2>5 DEF AddedIsPolled
<1>4. ASSUME NEW t \in Changers, RemoveNode(t) PROVE (OneChanges /\ AddedIsPolled)'
  <2> DEFINE n == Head(todo[t])
  <2>1. /\ gvl = t /\ pc[t] = "removing" /\ n \in Nodes /\ nodes' = nodes \cup {n}
        /\ polled' = RemoveFirst(polled, n) /\ todo' = [todo EXCEPT ![t] = Tail(@)]
        /\ todo[t] \in Seq(Nodes \cup {NotANode}) /\ todo[t] # <<>>
        /\ UNCHANGED <<gvl, pc, removed>>
    BY <1>4 DEF RemoveNode, OneChanges, TypeOK, Threads
  <2>2. n \in ToSet(todo[t]) /\ ToSet(Tail(todo[t])) \subseteq ToSet(todo[t])
    BY <2>1, TailElements
  <2> HIDE DEF n
  <2>3. n \in removed
    BY <2>1, <2>2 DEF OneChanges
  <2>4. \A u \in Changers : ToSet(todo'[u]) \subseteq ToSet(todo[u])
    BY <2>1, <2>2 DEF TypeOK, Threads
  <2>5. OneChanges'
    BY <2>1, <2>4 DEF OneChanges
  <2>6. \A x \in ToSet(polled) : x # n => x \in ToSet(polled')
    BY <2>1, RemoveFirstKeeps DEF TypeOK
  <2>7. QED
    BY <2>1, <2>3, <2>5, <2>6 DEF AddedIsPolled
<1>5. ASSUME NEW t \in Changers, EndLoop(t) PROVE (OneChanges /\ AddedIsPolled)'
  <2>1. \A u \in Changers : pc[u] \in {"adding", "removing"} => u = t
    BY <1>5 DEF EndLoop, OneChanges
  <2>2. \A u \in Changers : pc'[u] \notin {"adding", "removing"}
    BY <1>5, <2>1 DEF EndLoop, Goto, TypeOK, Threads
  <2>3. QED
    BY <1>5, <2>2 DEF EndLoop, OneChanges, AddedIsPolled
<1>6. ASSUME NEW n \in Nodes, Arrive(n) \/ Drop(n) \/ Collect(n)
      PROVE (OneChanges /\ AddedIsPolled)'
  BY <1>6, OthersKeepAdded DEF Arrive, Drop, Collect
<1>7. CASE TakeNodes
  BY <1>7, OthersKeepAdded DEF TakeNodes
<1>8. ASSUME NEW t \in Waiters, WaitStep(t) \/ PollInterrupted(t)
      PROVE (OneChanges /\ AddedIsPolled)'
  <2>1. UNCHANGED <<gvl, polled, nodes, removed, todo>>
    BY <1>8 DEF WaitStep, Wait, ReadList, PollReady, PollExpired, PollInterrupted,
       Lookup, Read
  <2>2. \E p \in {"waiting", "polling", "polled", "returned", "idle"} :
           pc' = [pc EXCEPT ![t] = p]
    BY <1>8 DEF WaitStep, Wait, ReadList, PollReady, PollExpired, PollInterrupted,
       Lookup, Read, Goto
  <2>3. QED
    BY <2>1, <2>2, OthersKeepAdded DEF TypeOK, Threads
<1>9. CASE UNCHANGED vars
  BY <1>9, OthersKeepAdded DEF vars
<1>10. QED
  BY <1>1, <1>2, <1>3, <1>4, <1>5, <1>6, <1>7, <1>8, <1>9
  DEF Next, Environment, LoopStep

\* The invariant of the runs: what is added is polled until it is removed, also
\* when it was removed before (poller.c:113-124, 163-173).
THEOREM AddedArePolled == Spec => []AddedIsPolled
<1>1. Init => OneChanges /\ AddedIsPolled
  BY DEF Init, OneChanges, AddedIsPolled, Threads
<1>2. TypeOK /\ OneChanges /\ AddedIsPolled /\ [Next]_vars
          => (OneChanges /\ AddedIsPolled)'
  BY AddedStep
<1>3. QED
  BY <1>1, <1>2, TypeCorrect, PTL DEF Spec

-----------------------------------------------------------------------------
(* Why the threads are never all stuck.                                    *)

\* The thread t is not about to block in the recv of a node without an event.
Served(t) ==
    /\ pc[t] = "polled" /\ sock[t] # NoNode => HasInput(sock[t])
    /\ pc[t] = "returned" /\ result[t] # NoNode => HasInput(result[t])

\* Only a read takes an event, and the thread that read goes back to the poller: it
\* is the thread that is served next.
SomeServed == \E t \in Waiters : Served(t)

\* No step but a read takes events from a node.
LEMMA ServedStays ==
    ASSUME TypeOK, NEW t \in Waiters, Served(t),
           \A n \in Nodes : queue[n] > 0 => queue'[n] > 0,
           pc'[t] = pc[t] \/ pc'[t] \notin {"polled", "returned"},
           sock'[t] = sock[t], result'[t] = result[t]
    PROVE  SomeServed'
<1>1. queue \in [Nodes -> Nat] /\ sock[t] \in Nodes \cup {NoNode}
      /\ result[t] \in Nodes \cup {NoNode}
  BY DEF TypeOK, Threads
<1>2. Served(t)'
  BY <1>1 DEF Served, HasInput
<1>3. QED
  BY <1>2 DEF SomeServed

LEMMA ServedStep == TypeOK /\ Linked /\ SomeServed /\ [Next]_vars => SomeServed'
<1> SUFFICES ASSUME TypeOK, Linked, SomeServed, [Next]_vars PROVE SomeServed'
  OBVIOUS
<1> USE DEF listVars, heapVars, waitVars
<1>1. PICK t \in Waiters : Served(t)
  BY DEF SomeServed
<1>2. ASSUME NEW u \in Waiters, Read(u) PROVE SomeServed'
  <2>1. pc'[u] = "idle"
    BY <1>2 DEF Read, Goto, TypeOK, Threads
  <2>2. QED
    BY <2>1 DEF SomeServed, Served
<1>3. ASSUME NEW n \in Nodes, Arrive(n) PROVE SomeServed'
  <2>1. \A m \in Nodes : queue[m] > 0 => queue'[m] > 0
    BY <1>3 DEF Arrive, TypeOK
  <2>2. QED
    BY <1>1, <1>3, <2>1, ServedStays DEF Arrive
<1>4. ASSUME queue' = queue, sock' = sock, result' = result,
             pc'[t] = pc[t] \/ pc'[t] \notin {"polled", "returned"}
      PROVE  SomeServed'
  <2>1. \A m \in Nodes : queue[m] > 0 => queue'[m] > 0
    BY <1>4 DEF TypeOK
  <2>2. QED
    BY <1>1, <1>4, <2>1, ServedStays
<1>5. ASSUME NEW n \in Nodes, Drop(n) \/ Collect(n) PROVE SomeServed'
  BY <1>4, <1>5 DEF Drop, Collect
<1>6. CASE TakeNodes
  BY <1>4, <1>6 DEF TakeNodes
<1>7. ASSUME NEW u \in Changers, NEW list \in Lists,
             BeginAdd(u, list) \/ BeginRemove(u, list)
      PROVE  SomeServed'
  BY <1>4, <1>7 DEF BeginAdd, BeginRemove, Goto, TypeOK, Threads
<1>8. ASSUME NEW u \in Changers, AddNode(u) \/ RemoveNode(u) \/ EndLoop(u)
      PROVE  SomeServed'
  BY <1>4, <1>8 DEF AddNode, RemoveNode, EndLoop, Goto, TypeOK, Threads
<1>9. ASSUME NEW u \in Waiters,
             \/ \E b \in BOOLEAN : Wait(u, b)
             \/ ReadList(u) \/ PollReady(u) \/ PollExpired(u)
             \/ PollInterrupted(u) \/ Lookup(u)
      PROVE  Served(t)'
  <2>1. queue' = queue
    BY <1>9 DEF Wait, ReadList, PollReady, PollExpired, PollInterrupted, Lookup
  <2>2. CASE u # t
    <3>1. pc'[t] = pc[t] /\ sock'[t] = sock[t] /\ result'[t] = result[t]
      BY <1>9, <2>2 DEF Wait, ReadList, PollReady, PollExpired, PollInterrupted,
         Lookup, Goto, TypeOK, Threads
    <3>2. QED
      BY <1>1, <2>1, <3>1 DEF Served, HasInput
  <2>3. CASE u = t
    <3>1. ASSUME (\E b \in BOOLEAN : Wait(t, b)) \/ ReadList(t) PROVE Served(t)'
      BY <3>1 DEF Wait, ReadList, Goto, Served, TypeOK, Threads
    <3>2. ASSUME PollReady(t) PROVE Served(t)'
      <4>1. snapshot[t] \in Seq(Nodes)
        BY DEF Threads, TypeOK
      <4>2. Ready(snapshot[t]) \subseteq 1..Len(snapshot[t]) /\ Ready(snapshot[t]) # {}
        BY <3>2, <4>1, LenProperties DEF PollReady, Ready
      <4>3. Min(Ready(snapshot[t])) \in Ready(snapshot[t])
        BY <4>1, <4>2, LenProperties, LeastOf
      <4>4. HasInput(snapshot[t][Min(Ready(snapshot[t]))])
        BY <4>3 DEF Ready
      <4>5. sock'[t] = snapshot[t][Min(Ready(snapshot[t]))] /\ pc'[t] = "polled"
        BY <3>2 DEF PollReady, Goto, TypeOK, Threads
      <4>6. QED
        BY <2>1, <4>4, <4>5 DEF Served, HasInput
    <3>3. ASSUME PollExpired(t) \/ PollInterrupted(t) PROVE Served(t)'
      <4>1. sock[t] = NoNode
        BY <3>3 DEF PollExpired, PollInterrupted, Linked, WaiterLinked
      <4>2. sock'[t] = NoNode /\ pc'[t] = "polled"
        BY <3>3, <4>1 DEF PollExpired, PollInterrupted, Goto, TypeOK, Threads
      <4>3. QED
        BY <4>2 DEF Served
    <3>4. ASSUME Lookup(t) PROVE Served(t)'
      <4>1. pc[t] = "polled" /\ pc'[t] = "returned" /\ result'[t] \in {sock[t], NoNode}
        BY <3>4 DEF Lookup, Goto, TypeOK, Threads
      <4>2. QED
        BY <1>1, <2>1, <4>1 DEF Served, HasInput
    <3>5. QED
      BY <1>9, <2>3, <3>1, <3>2, <3>3, <3>4
  <2>4. QED
    BY <2>2, <2>3
<1>10. CASE UNCHANGED vars
  BY <1>4, <1>10 DEF vars
<1>11. QED
  BY <1>1, <1>2, <1>3, <1>5, <1>6, <1>7, <1>8, <1>9, <1>10
  DEF Next, Environment, WaitStep, LoopStep, SomeServed

\* The invariant of the runs: of the threads that share a poller one can always go
\* on, however the others take each other's events (poller.c:187-235).
THEOREM SomeThreadGoesOn == Waiters # {} => (Spec => []NotAllStuck)
<1> SUFFICES ASSUME Waiters # {} PROVE Spec => []NotAllStuck
  OBVIOUS
<1>1. Init => SomeServed
  <2>1. PICK t \in Waiters : TRUE
    OBVIOUS
  <2>2. QED
    BY <2>1 DEF Init, SomeServed, Served, Threads
<1>2. SomeServed => NotAllStuck
  BY DEF SomeServed, Served, NotAllStuck
<1>3. TypeOK /\ Linked /\ SomeServed /\ [Next]_vars => SomeServed'
  BY ServedStep
<1>4. QED
  BY <1>1, <1>2, <1>3, LinksHold, PTL DEF Spec

=============================================================================
