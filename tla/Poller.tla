------------------------------- MODULE Poller -------------------------------
(***************************************************************************)
(* Zyre::Poller: the list of sockets that zpoller polls, the @nodes hash   *)
(* that maps the endpoint of a socket back to its node, and the threads    *)
(* that share a poller.  #add and #remove change both under the GVL, one   *)
(* node after the other; #wait gives the GVL up, and zpoller_wait reads    *)
(* the list and polls while other threads go on.                           *)
(*                                                                         *)
(* Nothing but @nodes keeps a node of the poller from the garbage          *)
(* collector, and the free function of a node destroys its socket.         *)
(***************************************************************************)
EXTENDS Integers, SequencesExt

CONSTANTS
    Nodes,         \* the nodes; each has a socket with an endpoint of its own
    NoNode,        \* no socket, and Ruby's nil
    NotANode,      \* any other object
    Waiters,       \* the threads that wait, and read from the node they get
    Changers,      \* the threads that add and remove
    Nobody,        \* no thread
    Lists,         \* the arguments of add and remove, flattened
    TimedOnly,     \* whether every wait has a timeout
    MaxCalls,      \* bound: calls of add and remove
    MaxEvents,     \* bound: events that arrive
    MaxInterrupts  \* bound: waits that a signal ends

Threads == Waiters \cup Changers

ASSUME NodesAssumption ==
    /\ NoNode \notin Nodes /\ NotANode \notin Nodes
    /\ Lists \subseteq Seq(Nodes \cup {NotANode})
ASSUME ThreadsAssumption == Nobody \notin Threads
ASSUME BoundsAssumption ==
    /\ TimedOnly \in BOOLEAN
    /\ MaxCalls \in Nat /\ MaxEvents \in Nat /\ MaxInterrupts \in Nat

VARIABLES
    gvl,        \* the thread in the loop of add or remove
    polled,     \* the sockets zpoller polls, by their nodes, oldest first
    nodes,      \* the @nodes hash: the nodes it has an entry for
    held,       \* the nodes the application refers to
    freed,      \* the nodes the garbage collector has freed
    queue,      \* the events that wait in each node's socket
    pc,         \* where each thread is
    todo,       \* the arguments its loop has not reached
    timed,      \* whether its wait has a timeout
    snapshot,   \* the list as its zpoller_wait read it
    sock,       \* what its zpoller_wait returned
    ended,      \* why it returned
    result,     \* what its #wait returned
    removed,    \* the nodes whose last add or remove was a remove
    calls, events, interrupts

vars == <<gvl, polled, nodes, held, freed, queue, pc, todo, timed, snapshot,
          sock, ended, result, removed, calls, events, interrupts>>

\* The parts of the state that only threads in #wait change, or never do.
waitVars == <<timed, snapshot, sock, ended, result>>
heapVars == <<held, freed, queue, events>>
listVars == <<polled, nodes, removed>>

-----------------------------------------------------------------------------
Points == {"idle", "adding", "removing", "waiting", "polling", "polled", "returned"}
Reasons == {"none", "ready", "expired", "interrupted"}

Goto(t, p) == pc' = [pc EXCEPT ![t] = p]

Init ==
    /\ gvl = Nobody
    /\ polled = <<>> /\ nodes = {}
    /\ held = Nodes /\ freed = {}
    /\ queue = [n \in Nodes |-> 0]
    /\ pc = [t \in Threads |-> "idle"]
    /\ todo = [t \in Threads |-> <<>>]
    /\ timed = [t \in Threads |-> FALSE]
    /\ snapshot = [t \in Threads |-> <<>>]
    /\ sock = [t \in Threads |-> NoNode]
    /\ ended = [t \in Threads |-> "none"]
    /\ result = [t \in Threads |-> NoNode]
    /\ removed = {}
    /\ calls = 0 /\ events = 0 /\ interrupts = 0

-----------------------------------------------------------------------------
(* The rest of the program.                                                *)

\* An event comes in on the socket of a node.
Arrive(n) ==
    /\ n \notin freed /\ events < MaxEvents
    /\ queue' = [queue EXCEPT ![n] = @ + 1]
    /\ events' = events + 1
    /\ UNCHANGED <<gvl, listVars, held, freed, pc, todo, waitVars, calls, interrupts>>

\* The application lets go of a node, or takes what #nodes gives it.
Drop(n) ==
    /\ n \in held
    /\ held' = held \ {n}
    /\ UNCHANGED <<gvl, listVars, freed, queue, events, pc, todo, waitVars, calls,
                   interrupts>>

TakeNodes ==
    /\ gvl = Nobody
    /\ held' = held \cup nodes
    /\ UNCHANGED <<gvl, listVars, freed, queue, events, pc, todo, waitVars, calls,
                   interrupts>>

\* The nodes that the garbage collector finds in use.
Reached ==
    held \cup nodes \cup {result[t] : t \in Threads}
         \cup UNION {ToSet(todo[t]) : t \in Threads}

Collect(n) ==
    /\ n \notin Reached \cup freed
    /\ freed' = freed \cup {n}
    /\ UNCHANGED <<gvl, listVars, held, queue, events, pc, todo, waitVars, calls,
                   interrupts>>

-----------------------------------------------------------------------------
(* add and remove.                                                         *)

Known(list) == ToSet(list) \subseteq held \cup nodes \cup {NotANode}

BeginAdd(t, list) ==
    /\ gvl = Nobody /\ pc[t] = "idle"
    /\ Known(list) /\ calls < MaxCalls
    /\ gvl' = t
    /\ todo' = [todo EXCEPT ![t] = list]
    /\ calls' = calls + 1
    /\ Goto(t, "adding")
    /\ UNCHANGED <<listVars, heapVars, waitVars, interrupts>>

\* Mutant: a node that is in the hash is taken to be polled.
AddNodeOnce(t) ==
    /\ pc[t] = "adding" /\ todo[t] # <<>>
    /\ LET n == Head(todo[t]) IN
        /\ n \in Nodes
        /\ nodes' = nodes \cup {n}
        /\ polled' = IF n \in nodes THEN polled ELSE Append(polled, n)
        /\ removed' = removed \ {n}
    /\ todo' = [todo EXCEPT ![t] = Tail(@)]
    /\ UNCHANGED <<gvl, heapVars, pc, waitVars, calls, interrupts>>

AddNode(t) ==
    /\ pc[t] = "adding" /\ todo[t] # <<>>
    /\ LET n == Head(todo[t]) IN
        /\ n \in Nodes
        /\ nodes' = nodes \cup {n}
        /\ polled' = Append(polled, n)
        /\ removed' = removed \ {n}
    /\ todo' = [todo EXCEPT ![t] = Tail(@)]
    /\ UNCHANGED <<gvl, heapVars, pc, waitVars, calls, interrupts>>

\* remove takes an Array, where add takes its arguments.
BeginRemove(t, list) ==
    /\ gvl = Nobody /\ pc[t] = "idle"
    /\ Known(list) /\ calls < MaxCalls
    /\ gvl' = t
    /\ todo' = [todo EXCEPT ![t] = list]
    /\ calls' = calls + 1
    /\ removed' = removed \cup (ToSet(list) \cap Nodes)
    /\ Goto(t, "removing")
    /\ UNCHANGED <<polled, nodes, heapVars, waitVars, interrupts>>

\* Mutant: the entry goes with the socket, as one would expect.
RemoveEntry(t) ==
    /\ pc[t] = "removing" /\ todo[t] # <<>>
    /\ LET n == Head(todo[t]) IN
        /\ n \in Nodes
        /\ nodes' = nodes \ {n}
        /\ polled' = RemoveFirst(polled, n)
    /\ todo' = [todo EXCEPT ![t] = Tail(@)]
    /\ UNCHANGED <<gvl, removed, heapVars, pc, waitVars, calls, interrupts>>

\* The entry is set, not deleted, and zlist_remove drops one occurrence.
RemoveNode(t) ==
    /\ pc[t] = "removing" /\ todo[t] # <<>>
    /\ LET n == Head(todo[t]) IN
        /\ n \in Nodes
        /\ nodes' = nodes \cup {n}
        /\ polled' = RemoveFirst(polled, n)
    /\ todo' = [todo EXCEPT ![t] = Tail(@)]
    /\ UNCHANGED <<gvl, removed, heapVars, pc, waitVars, calls, interrupts>>

\* The loop ends, or raises TypeError; what it did so far stays done.
EndLoop(t) ==
    /\ pc[t] \in {"adding", "removing"}
    /\ todo[t] # <<>> => Head(todo[t]) \notin Nodes
    /\ gvl' = Nobody
    /\ todo' = [todo EXCEPT ![t] = <<>>]
    /\ Goto(t, "idle")
    /\ UNCHANGED <<listVars, heapVars, waitVars, calls, interrupts>>

-----------------------------------------------------------------------------
(* wait.                                                                   *)

\* Mutant: the argument is not handed on, and the timeout stays -1.
WaitForever(t, hasTimeout) ==
    /\ gvl = Nobody /\ pc[t] = "idle"
    /\ TimedOnly => hasTimeout
    /\ timed' = [timed EXCEPT ![t] = FALSE]
    /\ sock' = [sock EXCEPT ![t] = NoNode]
    /\ ended' = [ended EXCEPT ![t] = "none"]
    /\ Goto(t, "waiting")
    /\ UNCHANGED <<gvl, listVars, heapVars, todo, snapshot, result, calls, interrupts>>

Wait(t, hasTimeout) ==
    /\ gvl = Nobody /\ pc[t] = "idle"
    /\ TimedOnly => hasTimeout
    /\ timed' = [timed EXCEPT ![t] = hasTimeout]
    /\ sock' = [sock EXCEPT ![t] = NoNode]
    /\ ended' = [ended EXCEPT ![t] = "none"]
    /\ Goto(t, "waiting")
    /\ UNCHANGED <<gvl, listVars, heapVars, todo, snapshot, result, calls, interrupts>>

\* zpoller_wait reads its list.
ReadList(t) ==
    /\ pc[t] = "waiting"
    /\ snapshot' = [snapshot EXCEPT ![t] = polled]
    /\ Goto(t, "polling")
    /\ UNCHANGED <<gvl, listVars, heapVars, todo, timed, sock, ended, result, calls,
                   interrupts>>

HasInput(n) == queue[n] > 0
Ready(list) == {k \in DOMAIN list : HasInput(list[k])}

\* Mutant: the first socket of the list is returned if any has input.
PollAny(t) ==
    /\ pc[t] = "polling"
    /\ Ready(snapshot[t]) # {}
    /\ sock' = [sock EXCEPT ![t] = snapshot[t][1]]
    /\ ended' = [ended EXCEPT ![t] = "ready"]
    /\ snapshot' = [snapshot EXCEPT ![t] = <<>>]
    /\ Goto(t, "polled")
    /\ UNCHANGED <<gvl, listVars, heapVars, todo, timed, result, calls,
                   interrupts>>

\* zpoller_wait returns the first socket of the list that has input ...
PollReady(t) ==
    /\ pc[t] = "polling"
    /\ Ready(snapshot[t]) # {}
    /\ sock' = [sock EXCEPT ![t] = snapshot[t][Min(Ready(snapshot[t]))]]
    /\ ended' = [ended EXCEPT ![t] = "ready"]
    /\ snapshot' = [snapshot EXCEPT ![t] = <<>>]
    /\ Goto(t, "polled")
    /\ UNCHANGED <<gvl, listVars, heapVars, todo, timed, result, calls,
                   interrupts>>

\* ... or NULL at the timeout ...
PollExpired(t) ==
    /\ pc[t] = "polling" /\ timed[t]
    /\ Ready(snapshot[t]) = {}
    /\ ended' = [ended EXCEPT ![t] = "expired"]
    /\ snapshot' = [snapshot EXCEPT ![t] = <<>>]
    /\ Goto(t, "polled")
    /\ UNCHANGED <<gvl, listVars, heapVars, todo, timed, sock, result, calls,
                   interrupts>>

\* ... or NULL when a signal interrupts it.
PollInterrupted(t) ==
    /\ pc[t] \in {"waiting", "polling"}
    /\ interrupts < MaxInterrupts
    /\ interrupts' = interrupts + 1
    /\ ended' = [ended EXCEPT ![t] = "interrupted"]
    /\ snapshot' = [snapshot EXCEPT ![t] = <<>>]
    /\ Goto(t, "polled")
    /\ UNCHANGED <<gvl, listVars, heapVars, todo, timed, sock, result, calls>>

\* With the GVL again, #wait maps the endpoint back to the node.
Lookup(t) ==
    /\ gvl = Nobody /\ pc[t] = "polled"
    /\ result' = [result EXCEPT ![t] =
                     IF sock[t] \in nodes THEN sock[t] ELSE NoNode]
    /\ Goto(t, "returned")
    /\ UNCHANGED <<gvl, listVars, heapVars, todo, timed, snapshot, sock, ended, calls,
                   interrupts>>

\* The caller reads an event of the node it got, which blocks if there is none,
\* and waits again; it waits again at once if it got nil.  The locals of its
\* #wait are gone.
Read(t) ==
    /\ gvl = Nobody /\ pc[t] = "returned"
    /\ result[t] # NoNode => HasInput(result[t])
    /\ queue' = [n \in Nodes |-> IF n = result[t] THEN queue[n] - 1 ELSE queue[n]]
    /\ result' = [result EXCEPT ![t] = NoNode]
    /\ sock' = [sock EXCEPT ![t] = NoNode]
    /\ ended' = [ended EXCEPT ![t] = "none"]
    /\ timed' = [timed EXCEPT ![t] = FALSE]
    /\ Goto(t, "idle")
    /\ UNCHANGED <<gvl, listVars, held, freed, events, todo, snapshot, calls,
                   interrupts>>

-----------------------------------------------------------------------------
WaitStep(t) ==
    \/ \E b \in BOOLEAN : Wait(t, b)
    \/ ReadList(t) \/ PollReady(t) \/ PollExpired(t) \/ Lookup(t) \/ Read(t)
LoopStep(t) == AddNode(t) \/ RemoveNode(t) \/ EndLoop(t)

Environment ==
    \/ \E n \in Nodes : Arrive(n) \/ Drop(n) \/ Collect(n)
    \/ TakeNodes
    \/ \E t \in Waiters : PollInterrupted(t)
    \/ \E t \in Changers, list \in Lists :
           BeginAdd(t, list) \/ BeginRemove(t, list)

Next ==
    \/ Environment
    \/ \E t \in Waiters : WaitStep(t)
    \/ \E t \in Changers : LoopStep(t)

Spec == Init /\ [][Next]_vars

\* Threads that can run do; no one need call add, remove or send an event.
Fairness ==
    /\ \A t \in Waiters : WF_vars(WaitStep(t))
    /\ \A t \in Changers : WF_vars(LoopStep(t))

FairSpec == Spec /\ Fairness

-----------------------------------------------------------------------------
(* Properties.                                                             *)

\* Every variable has the shape its comment gives it, and only nodes of the
\* hash are polled.
TypeOK ==
    /\ gvl \in Changers \cup {Nobody}
    /\ nodes \subseteq Nodes /\ polled \in Seq(nodes)
    /\ held \subseteq Nodes /\ freed \subseteq Nodes /\ removed \subseteq Nodes
    /\ queue \in [Nodes -> Nat]
    /\ pc \in [Threads -> Points]
    /\ todo \in [Threads -> Seq(Nodes \cup {NotANode})]
    /\ timed \in [Threads -> BOOLEAN]
    /\ snapshot \in [Threads -> Seq(Nodes)]
    /\ sock \in [Threads -> Nodes \cup {NoNode}]
    /\ ended \in [Threads -> Reasons]
    /\ result \in [Threads -> Nodes \cup {NoNode}]
    /\ calls \in Nat /\ events \in Nat /\ interrupts \in Nat

\* The sockets a thread in zpoller_wait, or just out of it, has pointers to.
InUse(t) ==
    IF pc[t] = "polling" THEN ToSet(snapshot[t])
    ELSE IF pc[t] = "polled" THEN {sock[t]}
    ELSE {}

\* No socket is destroyed while the poller or a thread that waits points to it:
\* the entries that remove leaves in @nodes (poller.c:171) are what keeps a
\* removed node alive for the threads that still poll it.
SocketsAreLive ==
    freed \cap (ToSet(polled) \cup UNION {InUse(t) : t \in Waiters}) = {}

\* A node that was added, and not given to remove since, is polled: also one that
\* was removed before, the entry of which is still in @nodes, and the nodes that
\* an add which raised came to (poller.c:113-124, 163-173).
AddedIsPolled == nodes \ removed \subseteq ToSet(polled)

\* A socket with input gives its node, whatever other threads add or remove
\* between zpoller_wait and the lookup of the endpoint (poller.c:229-232): nil
\* is an expired or interrupted wait.
ReadyNodeIsReturned ==
    \A t \in Waiters :
        pc[t] = "returned" /\ ended[t] = "ready" => result[t] = sock[t]

\* The threads that share a poller can take each other's events, so that one
\* blocks in the recv of a node that #wait gave it, but never all of them.
NotAllStuck ==
    \E t \in Waiters :
        ~(pc[t] = "returned" /\ result[t] # NoNode /\ ~HasInput(result[t]))

\* With timeouts, every event on a node that is polled is read in the end, also
\* on a node that is added while all threads are in #wait (poller.c:101).
AllRead == <>[](\A n \in ToSet(polled) : queue[n] = 0)

=============================================================================
