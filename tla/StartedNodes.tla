---------------------------- MODULE StartedNodes ----------------------------
(***************************************************************************)
(* started_node and the hooks of Zyre::Testing: an example makes nodes,    *)
(* lets a block configure each, joins them by a gossip hub that the first  *)
(* of them binds, starts them, and stops them all after the example.  The  *)
(* block can call started_node again or raise, an exception of another     *)
(* thread, as of a timeout, can end a call at any point, and the code      *)
(* around a call that raised can rescue and go on.                         *)
(*                                                                         *)
(* One thread runs the example; beside it the collector frees nodes that   *)
(* nobody refers to, and the threads of libzyre, which are external, find  *)
(* the peers.                                                              *)
(***************************************************************************)
EXTENDS Naturals, Sequences

CONSTANTS
    Nodes,         \* the nodes an example makes
    Headers,       \* the headers its blocks set
    None,          \* no node
    MaxInterrupts  \* bound: exceptions of another thread

ASSUME NodesAssumption == None \notin Nodes
ASSUME MaxInterruptsAssumption == MaxInterrupts \in Nat

VARIABLES
    example,         \* "running", "after" in the after hook, "over"
    stack,           \* the nodes of the started_node calls that run
    at,              \* where the call of each node is
    gossipEndpoint,  \* @gossip_endpoint is set
    startedNodes,    \* @started_zyre_nodes
    stops,           \* how many of them the after hook has stopped
    zyre,            \* what libzyre knows of each node
    headers,         \* the headers of each node
    hub,             \* what each node is to the gossip hub
    entered,         \* the ENTER events of each peer at each node, as sets of headers
    binder,          \* history: the node that is to bind the hub
    interrupted,     \* history: the nodes whose call an exception ended behind its block
    interrupts

vars == <<example, stack, at, gossipEndpoint, startedNodes, stops, zyre, headers, hub,
          entered, binder, interrupted, interrupts>>

zyreVars == <<zyre, headers, hub, entered>>
exampleVars == <<example, startedNodes, stops>>

-----------------------------------------------------------------------------
Listed(n) == \E k \in DOMAIN startedNodes : startedNodes[k] = n
InCall(n) == \E k \in DOMAIN stack : stack[k] = n

\* The innermost call.
Top(n) == stack # <<>> /\ stack[Len(stack)] = n
Pop == stack' = SubSeq(stack, 1, Len(stack) - 1)

Exists(n) == zyre[n] \in {"new", "started", "stopped"}
Serves(n) == hub[n] = "bound" /\ Exists(n)

\* The before hook has run.
Init ==
    /\ example = "running"
    /\ stack = <<>>
    /\ at = [n \in Nodes |-> "none"]
    /\ gossipEndpoint = FALSE
    /\ startedNodes = <<>>
    /\ stops = 0
    /\ zyre = [n \in Nodes |-> "unmade"]
    /\ headers = [n \in Nodes |-> {}]
    /\ hub = [n \in Nodes |-> "none"]
    /\ entered = [n \in Nodes |-> [m \in Nodes |-> {}]]
    /\ binder = None
    /\ interrupted = {}
    /\ interrupts = 0

-----------------------------------------------------------------------------
(* started_node                                                            *)

\* The example calls it, or the block of another call; a node is made, and yielded.
Call(n) ==
    /\ example = "running" /\ zyre[n] = "unmade"
    /\ stack = <<>> \/ \E m \in Nodes : Top(m) /\ at[m] = "block"
    /\ stack' = Append(stack, n)
    /\ at' = [at EXCEPT ![n] = "block"]
    /\ zyre' = [zyre EXCEPT ![n] = "new"]
    /\ UNCHANGED <<exampleVars, gossipEndpoint, headers, hub, entered, binder,
                   interrupted, interrupts>>

\* A block sets a header of its node, or of one of an outer block.
SetHeader(n, h) ==
    /\ \E m \in Nodes : Top(m) /\ at[m] = "block"
    /\ InCall(n) /\ h \notin headers[n]
    /\ headers' = [headers EXCEPT ![n] = @ \cup {h}]
    /\ UNCHANGED <<exampleVars, stack, at, gossipEndpoint, zyre, hub, entered, binder,
                   interrupted, interrupts>>

\* Mutant: the call does not keep the endpoint of the hub it binds.
BlockEndsForgets(n) ==
    /\ Top(n) /\ at[n] = "block"
    /\ at' = [at EXCEPT ![n] = IF gossipEndpoint THEN "connect" ELSE "bind"]
    /\ binder' = IF gossipEndpoint THEN binder ELSE n
    /\ UNCHANGED <<zyreVars, exampleVars, stack, gossipEndpoint, interrupted, interrupts>>

\* The block returns.  The call whose node is the first to come here is to bind the
\* hub, and says so before it does.
BlockEnds(n) ==
    /\ Top(n) /\ at[n] = "block"
    /\ at' = [at EXCEPT ![n] = IF gossipEndpoint THEN "connect" ELSE "bind"]
    /\ gossipEndpoint' = TRUE
    /\ binder' = IF gossipEndpoint THEN binder ELSE n
    /\ UNCHANGED <<zyreVars, exampleVars, stack, interrupted, interrupts>>

\* Mutant: the hub is known, but the node does not connect to it.
GossipConnectNot(n) ==
    /\ Top(n) /\ at[n] = "connect"
    /\ at' = [at EXCEPT ![n] = "start"]
    /\ UNCHANGED <<zyreVars, exampleVars, stack, gossipEndpoint, binder, interrupted,
                   interrupts>>

GossipConnect(n) ==
    /\ Top(n) /\ at[n] = "connect"
    /\ hub' = [hub EXCEPT ![n] = "connected"]
    /\ at' = [at EXCEPT ![n] = "start"]
    /\ UNCHANGED <<exampleVars, stack, gossipEndpoint, zyre, headers, entered, binder,
                   interrupted, interrupts>>

\* An endpoint is bound once.
GossipBind(n) ==
    /\ Top(n) /\ at[n] = "bind"
    /\ hub' = [hub EXCEPT ![n] = IF \E m \in Nodes : Serves(m) THEN "none" ELSE "bound"]
    /\ at' = [at EXCEPT ![n] = "start"]
    /\ UNCHANGED <<exampleVars, stack, gossipEndpoint, zyre, headers, entered, binder,
                   interrupted, interrupts>>

\* Mutant: the block gets the node when it is started.
StartYields(n) ==
    /\ Top(n) /\ at[n] = "start"
    /\ zyre' = [zyre EXCEPT ![n] = "started"]
    /\ at' = [at EXCEPT ![n] = "block"]
    /\ UNCHANGED <<exampleVars, stack, gossipEndpoint, headers, hub, entered, binder,
                   interrupted, interrupts>>

\* Behind the sleep of a call that bound the hub.
Start(n) ==
    /\ Top(n) /\ at[n] = "start"
    /\ zyre' = [zyre EXCEPT ![n] = "started"]
    /\ at' = [at EXCEPT ![n] = "append"]
    /\ UNCHANGED <<exampleVars, stack, gossipEndpoint, headers, hub, entered, binder,
                   interrupted, interrupts>>

\* Mutant: only the node that bound the hub is listed.
ReturnBinder(n) ==
    /\ Top(n) /\ at[n] = "append"
    /\ startedNodes' = IF hub[n] = "bound" THEN Append(startedNodes, n) ELSE startedNodes
    /\ at' = [at EXCEPT ![n] = "none"]
    /\ Pop
    /\ UNCHANGED <<zyreVars, example, stops, gossipEndpoint, binder, interrupted,
                   interrupts>>

\* The node is listed, and returned.
Return(n) ==
    /\ Top(n) /\ at[n] = "append"
    /\ startedNodes' = Append(startedNodes, n)
    /\ at' = [at EXCEPT ![n] = "none"]
    /\ Pop
    /\ UNCHANGED <<zyreVars, example, stops, gossipEndpoint, binder, interrupted,
                   interrupts>>

\* Mutant: the call of a block that raised stays open.
BlockRaisesOpen(n) ==
    /\ Top(n) /\ at[n] = "block"
    /\ Pop
    /\ UNCHANGED <<zyreVars, exampleVars, at, gossipEndpoint, binder, interrupted,
                   interrupts>>

\* The block raises, or lets an exception of a call in it pass.
BlockRaises(n) ==
    /\ Top(n) /\ at[n] = "block"
    /\ at' = [at EXCEPT ![n] = "none"]
    /\ Pop
    /\ UNCHANGED <<zyreVars, exampleVars, gossipEndpoint, binder, interrupted, interrupts>>

\* An exception of another thread ends the call behind its block: in the log output
\* of a method, in the sleep, or between two methods.
Interrupt(n) ==
    /\ Top(n) /\ at[n] # "block" /\ interrupts < MaxInterrupts
    /\ at' = [at EXCEPT ![n] = "none"]
    /\ Pop
    /\ interrupted' = interrupted \cup {n}
    /\ interrupts' = interrupts + 1
    /\ UNCHANGED <<zyreVars, exampleVars, gossipEndpoint, binder>>

-----------------------------------------------------------------------------
(* The hooks.                                                              *)

\* The example ends or fails.
ExampleEnds ==
    /\ example = "running" /\ stack = <<>>
    /\ example' = "after"
    /\ UNCHANGED <<zyreVars, stack, at, gossipEndpoint, startedNodes, stops, binder,
                   interrupted, interrupts>>

\* Mutant: the hook stops the newest node, again and again.
StopNewest ==
    /\ example = "after" /\ stops < Len(startedNodes)
    /\ zyre' = [zyre EXCEPT ![startedNodes[Len(startedNodes)]] = "stopped"]
    /\ stops' = stops + 1
    /\ UNCHANGED <<example, stack, at, gossipEndpoint, startedNodes, headers, hub,
                   entered, binder, interrupted, interrupts>>

Stop ==
    /\ example = "after" /\ stops < Len(startedNodes)
    /\ zyre' = [zyre EXCEPT ![startedNodes[stops + 1]] = "stopped"]
    /\ stops' = stops + 1
    /\ UNCHANGED <<example, stack, at, gossipEndpoint, startedNodes, headers, hub,
                   entered, binder, interrupted, interrupts>>

\* All are stopped, or an exception ends the hook.
HookEnds ==
    /\ example = "after"
    /\ stops = Len(startedNodes) \/ interrupts < MaxInterrupts
    /\ interrupts' = IF stops = Len(startedNodes) THEN interrupts ELSE interrupts + 1
    /\ example' = "over"
    /\ UNCHANGED <<zyreVars, stack, at, gossipEndpoint, startedNodes, stops, binder,
                   interrupted>>

-----------------------------------------------------------------------------
(* The rest of the program, and libzyre.                                   *)

\* The collector frees a node that is in no call and not listed, and so destroys it.
Collect(n) ==
    /\ Exists(n) /\ ~InCall(n) /\ ~Listed(n)
    /\ zyre' = [zyre EXCEPT ![n] = "destroyed"]
    /\ UNCHANGED <<exampleVars, stack, at, gossipEndpoint, headers, hub, entered, binder,
                   interrupted, interrupts>>

\* Two nodes that are started can find each other over the hub, while its node exists.
CanMeet(n, m) ==
    /\ zyre[n] = "started" /\ zyre[m] = "started"
    /\ hub[n] # "none" /\ hub[m] # "none"
    /\ \E k \in Nodes : Serves(k)

\* They do; the HELLO of m has the headers m has by then.
Discover(n, m) ==
    /\ n # m /\ entered[n][m] = {}
    /\ CanMeet(n, m)
    /\ entered' = [entered EXCEPT ![n][m] = {headers[m]}]
    /\ UNCHANGED <<exampleVars, stack, at, gossipEndpoint, zyre, headers, hub, binder,
                   interrupted, interrupts>>

Next ==
    \/ \E n \in Nodes :
        \/ Call(n) \/ BlockEnds(n) \/ GossipConnect(n) \/ GossipBind(n) \/ Start(n)
        \/ Return(n) \/ BlockRaises(n) \/ Interrupt(n) \/ Collect(n)
        \/ \E h \in Headers : SetHeader(n, h)
        \/ \E m \in Nodes : Discover(n, m)
    \/ ExampleEnds \/ Stop \/ HookEnds

Spec == Init /\ [][Next]_vars

\* libzyre finds peers in threads of its own.
FairSpec == Spec /\ \A n, m \in Nodes : WF_vars(Discover(n, m))

-----------------------------------------------------------------------------
(* Properties.                                                             *)

StackType ==
    /\ stack \in Seq(Nodes)
    /\ at \in [Nodes -> {"none", "block", "bind", "connect", "start", "append"}]
    /\ \A n \in Nodes : InCall(n) <=> at[n] # "none"
    /\ \A k \in DOMAIN stack : k # Len(stack) => at[stack[k]] = "block"
ExampleType ==
    /\ example \in {"running", "after", "over"}
    /\ example # "running" => stack = <<>>
    /\ startedNodes \in Seq(Nodes)
    /\ stops \in 0..Len(startedNodes)
ZyreType ==
    /\ zyre \in [Nodes -> {"unmade", "new", "started", "stopped", "destroyed"}]
    /\ headers \in [Nodes -> SUBSET Headers]
    /\ hub \in [Nodes -> {"none", "bound", "connected"}]
    /\ entered \in [Nodes -> [Nodes -> SUBSET SUBSET Headers]]
HistoryType ==
    /\ gossipEndpoint \in BOOLEAN
    /\ binder \in Nodes \cup {None}
    /\ interrupted \subseteq Nodes
    /\ interrupts \in Nat

\* Every variable has the shape its comment gives it, the calls around the innermost
\* are in their blocks, and the example ends with no call open.
TypeOK == StackType /\ ExampleType /\ ZyreType /\ HistoryType

\* A peer enters with every header that a block sets on it, however the calls nest
\* (node_spec.rb:38-66, testing.rb:263, 276).
EntersWithHeaders ==
    \A n, m \in Nodes : \A known \in entered[n][m] : known = headers[m]

\* All nodes that are started have one hub, and it is there: nested calls do not bind
\* a second one, and a block that raises does not leave the next calls without one
\* (testing.rb:263-274).  Only an exception between the choice of the hub and the
\* listing of its node can break it.
HubServes ==
    binder \notin interrupted =>
        \A n \in Nodes : Listed(n) =>
            hub[n] # "none" /\ \E m \in Nodes : Serves(m)

\* After the example no node runs on, whichever blocks raised, unless an exception came
\* between start and the listing of a node, or into the hook (testing.rb:247-249,
\* 276-277).
NoneLeftRunning ==
    example = "over" /\ stops = Len(startedNodes) =>
        \A n \in Nodes : zyre[n] = "started" => n \in interrupted

\* The hook stops every listed node once, in order, and none that is stopped or gone:
\* until its turn a node runs, whatever the collector and the other calls do
\* (testing.rb:247-249, 277).
StopsEachOnce ==
    \A k \in DOMAIN startedNodes :
        zyre[startedNodes[k]] = IF k <= stops THEN "stopped" ELSE "started"

\* Two nodes that started_node returned meet, if the example gives them the time.
NodesMeet ==
    \A n, m \in Nodes :
        (n # m /\ Listed(n) /\ Listed(m) /\ binder \notin interrupted)
            ~> (entered[n][m] # {} \/ example # "running")

=============================================================================
