------------------------- MODULE StartedNodesProofs -------------------------
(***************************************************************************)
(* What holds of StartedNodes for any number of nodes, headers, nested     *)
(* calls and exceptions.                                                   *)
(***************************************************************************)
EXTENDS StartedNodes, SequenceTheorems, TLAPS

(***************************************************************************)
(* The stack of calls.                                                     *)
(***************************************************************************)

\* A node has one call.
Distinct == \A j, k \in DOMAIN stack : stack[j] = stack[k] => j = k

StackInv == StackType /\ Distinct

LEMMA StackFacts ==
    ASSUME StackType
    PROVE  /\ Len(stack) \in Nat /\ DOMAIN stack = 1..Len(stack)
           /\ \A k \in 1..Len(stack) : stack[k] \in Nodes
           /\ stack # <<>> => Len(stack) \in 1..Len(stack)
  BY LenProperties, ElementOfSeq, EmptySeq DEF StackType

\* Only the innermost call is anywhere but in its block.
LEMMA TopOnly ==
    ASSUME StackType, NEW n \in Nodes, NEW m \in Nodes, Top(n),
           at[m] \notin {"none", "block"}
    PROVE  m = n
<1>1. PICK k \in DOMAIN stack : stack[k] = m
  BY DEF StackType, InCall
<1>2. k = Len(stack)
  BY <1>1 DEF StackType
<1>3. QED
  BY <1>1, <1>2 DEF Top

\* A call begins.
LEMMA PushStack ==
    ASSUME StackInv, NEW n \in Nodes, at[n] = "none",
           stack = <<>> \/ \E m \in Nodes : Top(m) /\ at[m] = "block",
           stack' = Append(stack, n), at' = [at EXCEPT ![n] = "block"]
    PROVE  StackInv'
<1>1. /\ Len(stack) \in Nat /\ DOMAIN stack = 1..Len(stack)
      /\ \A k \in 1..Len(stack) : stack[k] \in Nodes
  BY StackFacts DEF StackInv
<1>2. /\ stack' \in Seq(Nodes) /\ Len(stack') = Len(stack) + 1
      /\ DOMAIN stack' = 1..(Len(stack) + 1)
      /\ stack'[Len(stack) + 1] = n /\ \A k \in 1..Len(stack) : stack'[k] = stack[k]
  BY <1>1, AppendProperties DEF StackInv, StackType
<1>3. \A k \in 1..Len(stack) : stack[k] # n
  BY <1>1 DEF StackInv, StackType, InCall
<1>4. at' \in [Nodes -> {"none", "block", "bind", "connect", "start", "append"}]
      /\ at'[n] = "block" /\ \A m \in Nodes : m # n => at'[m] = at[m]
  BY DEF StackInv, StackType
<1>5. \A m \in Nodes : InCall(m)' <=> at'[m] # "none"
  <2> SUFFICES ASSUME NEW m \in Nodes PROVE InCall(m)' <=> at'[m] # "none"
    OBVIOUS
  <2>1. InCall(m)' <=> m = n \/ InCall(m)
    BY <1>1, <1>2 DEF InCall
  <2>2. InCall(m) <=> at[m] # "none"
    BY DEF StackInv, StackType
  <2>3. QED
    BY <1>4, <2>1, <2>2
<1>6. \A k \in 1..Len(stack) : at[stack[k]] = "block"
  <2> SUFFICES ASSUME NEW k \in 1..Len(stack) PROVE at[stack[k]] = "block"
    OBVIOUS
  <2>1. CASE k = Len(stack)
    <3>1. stack # <<>>
      BY <1>1, EmptySeq
    <3>2. QED
      BY <2>1, <3>1 DEF Top
  <2>2. CASE k # Len(stack)
    BY <1>1, <2>2 DEF StackInv, StackType
  <2>3. QED
    BY <2>1, <2>2
<1>7. \A k \in DOMAIN stack' : k # Len(stack') => at'[stack'[k]] = "block"
  BY <1>1, <1>2, <1>3, <1>4, <1>6
<1>8. Distinct'
  BY <1>1, <1>2, <1>3 DEF Distinct, StackInv
<1>9. QED
  BY <1>2, <1>4, <1>5, <1>7, <1>8 DEF StackInv, StackType

\* The innermost call ends.
LEMMA PopStack ==
    ASSUME StackInv, NEW n \in Nodes, Top(n), Pop, at' = [at EXCEPT ![n] = "none"]
    PROVE  StackInv'
<1>1. /\ Len(stack) \in Nat /\ DOMAIN stack = 1..Len(stack)
      /\ \A k \in 1..Len(stack) : stack[k] \in Nodes
      /\ Len(stack) \in 1..Len(stack) /\ stack[Len(stack)] = n
  BY StackFacts DEF StackInv, Top
<1>2. /\ stack' \in Seq(Nodes) /\ Len(stack') = Len(stack) - 1
      /\ DOMAIN stack' = 1..(Len(stack) - 1)
      /\ \A k \in 1..(Len(stack) - 1) : stack'[k] = stack[k]
  BY <1>1, SubSeqProperties, LenProperties DEF StackInv, StackType, Pop
<1>3. \A k \in 1..(Len(stack) - 1) : stack[k] # n
  BY <1>1 DEF StackInv, Distinct
<1>4. at' \in [Nodes -> {"none", "block", "bind", "connect", "start", "append"}]
      /\ at'[n] = "none" /\ \A m \in Nodes : m # n => at'[m] = at[m]
  BY DEF StackInv, StackType
<1>5. \A m \in Nodes : InCall(m)' <=> at'[m] # "none"
  <2> SUFFICES ASSUME NEW m \in Nodes PROVE InCall(m)' <=> at'[m] # "none"
    OBVIOUS
  <2>1. InCall(m)' <=> m # n /\ InCall(m)
    <3> DEFINE l == Len(stack)
    <3>0. l \in Nat
      BY <1>1
    <3>1. \A k \in 1..l : k # l => k \in 1..(l - 1)
      <4> HIDE DEF l
      <4>1. QED
        BY <3>0
    <3>2. \A k \in 1..(Len(stack) - 1) : k \in 1..Len(stack)
      BY <1>1
    <3>3. InCall(m)' <=> \E k \in 1..(Len(stack) - 1) : stack[k] = m
      BY <1>2 DEF InCall
    <3>4. InCall(m) <=> \E k \in 1..Len(stack) : stack[k] = m
      BY <1>1 DEF InCall
    <3>5. ASSUME InCall(m)' PROVE m # n /\ InCall(m)
      BY <1>3, <3>2, <3>3, <3>4, <3>5
    <3>6. ASSUME m # n, InCall(m) PROVE InCall(m)'
      BY <1>1, <3>1, <3>3, <3>4, <3>6
    <3>7. QED
      BY <3>5, <3>6
  <2>2. InCall(m) <=> at[m] # "none"
    BY DEF StackInv, StackType
  <2>3. QED
    BY <1>4, <2>1, <2>2
<1>6. \A k \in 1..(Len(stack) - 1) : at[stack[k]] = "block"
  BY <1>1 DEF StackInv, StackType
<1>7. \A k \in DOMAIN stack' : k # Len(stack') => at'[stack'[k]] = "block"
  BY <1>1, <1>2, <1>3, <1>4, <1>6
<1>8. Distinct'
  BY <1>1, <1>2 DEF Distinct, StackInv
<1>9. QED
  BY <1>2, <1>4, <1>5, <1>7, <1>8 DEF StackInv, StackType

\* The innermost call goes on.
LEMMA StepStack ==
    ASSUME StackInv, NEW n \in Nodes, Top(n),
           NEW x \in {"block", "bind", "connect", "start", "append"},
           stack' = stack, at' = [at EXCEPT ![n] = x]
    PROVE  StackInv'
<1>1. /\ Len(stack) \in Nat /\ DOMAIN stack = 1..Len(stack)
      /\ Len(stack) \in 1..Len(stack) /\ stack[Len(stack)] = n
      /\ \A k \in 1..Len(stack) : stack[k] \in Nodes
  BY StackFacts DEF StackInv, Top
<1>2. at' \in [Nodes -> {"none", "block", "bind", "connect", "start", "append"}]
      /\ at'[n] = x /\ \A m \in Nodes : m # n => at'[m] = at[m]
  BY DEF StackInv, StackType
<1>3. InCall(n) /\ \A m \in Nodes : InCall(m)' <=> InCall(m)
  BY <1>1 DEF InCall
<1>4. \A m \in Nodes : InCall(m)' <=> at'[m] # "none"
  BY <1>2, <1>3 DEF StackInv, StackType
<1>5. \A k \in DOMAIN stack' : k # Len(stack') => at'[stack'[k]] = "block"
  BY <1>1, <1>2 DEF StackInv, StackType, Distinct
<1>6. QED
  BY <1>2, <1>4, <1>5 DEF StackInv, StackType, Distinct

LEMMA KeepStack ==
    ASSUME StackInv, stack' = stack, at' = at
    PROVE  StackInv'
  BY DEF StackInv, StackType, Distinct, InCall

(***************************************************************************)
(* The nodes.                                                              *)
(***************************************************************************)

\* Where the call of a node is says what libzyre knows of the node, and so does the
\* list.
Life(n) ==
    /\ zyre[n] = "unmade" => at[n] = "none" /\ hub[n] = "none" /\ n \notin interrupted
    /\ at[n] \in {"block", "bind", "connect", "start"} => zyre[n] = "new"
    /\ at[n] = "append" => zyre[n] = "started"
    /\ Listed(n) => zyre[n] \in {"started", "stopped"}

\* A node that is started is on its way to the list, in the list and not stopped
\* yet, or an exception came.
Accounted(n) ==
    zyre[n] = "started" =>
        \/ at[n] = "append"
        \/ n \in interrupted
        \/ \E k \in DOMAIN startedNodes : k > stops /\ startedNodes[k] = n

\* Peers know what does not change any more.
Known(n, m) ==
    /\ entered[n][m] # {} => zyre[m] \notin {"unmade", "new"}
    /\ \A known \in entered[n][m] : known = headers[m]

NodesInv ==
    \A n \in Nodes : Life(n) /\ Accounted(n) /\ \A m \in Nodes : Known(n, m)

\* Before a hub is chosen no node has one.  Then it is the node chosen, whose call
\* binds it next, or has bound it and keeps the node or has listed it.
HubOf(n) ==
    /\ at[n] \in {"block", "bind", "connect"} => hub[n] = "none"
    /\ at[n] \in {"start", "append"} \/ Listed(n) => hub[n] # "none"
    /\ at[n] = "bind" => n = binder
    /\ at[n] = "connect" => binder # None
    /\ hub[n] = "bound" => n = binder
    /\ binder = None \/ at[binder] = "bind" => hub[n] = "none"

HubInv ==
    /\ gossipEndpoint <=> binder # None
    /\ \A n \in Nodes : HubOf(n)
    /\ binder # None /\ binder \notin interrupted =>
           \/ at[binder] = "bind"
           \/ hub[binder] = "bound" /\ (at[binder] \in {"start", "append"} \/ Listed(binder))

Inv == TypeOK /\ Distinct /\ NodesInv /\ HubInv

LEMMA InvStack ==
    ASSUME Inv
    PROVE  StackInv
  BY DEF Inv, TypeOK, StackInv

\* Nodes are not listed but by Return.
LEMMA ListStays ==
    ASSUME startedNodes' = startedNodes
    PROVE  \A n \in Nodes : Listed(n)' <=> Listed(n)
  BY DEF Listed

\* Return adds one.
LEMMA ListGrows ==
    ASSUME ExampleType, NEW n \in Nodes, startedNodes' = Append(startedNodes, n)
    PROVE  /\ startedNodes' \in Seq(Nodes) /\ Len(startedNodes') = Len(startedNodes) + 1
           /\ Len(startedNodes) \in Nat /\ stops \in 0..Len(startedNodes)
           /\ DOMAIN startedNodes' = 1..(Len(startedNodes) + 1)
           /\ DOMAIN startedNodes = 1..Len(startedNodes)
           /\ startedNodes'[Len(startedNodes) + 1] = n
           /\ \A k \in 1..Len(startedNodes) : startedNodes'[k] = startedNodes[k]
           /\ \A m \in Nodes : Listed(m)' <=> m = n \/ Listed(m)
<1>1. /\ startedNodes' \in Seq(Nodes) /\ Len(startedNodes') = Len(startedNodes) + 1
      /\ Len(startedNodes) \in Nat /\ stops \in 0..Len(startedNodes)
      /\ DOMAIN startedNodes' = 1..(Len(startedNodes) + 1)
      /\ DOMAIN startedNodes = 1..Len(startedNodes)
      /\ startedNodes'[Len(startedNodes) + 1] = n
      /\ \A k \in 1..Len(startedNodes) : startedNodes'[k] = startedNodes[k]
  BY AppendProperties, LenProperties DEF ExampleType
<1>2. \A m \in Nodes : Listed(m)' <=> m = n \/ Listed(m)
  BY <1>1 DEF Listed
<1>3. QED
  BY <1>1, <1>2

\* A call begins: its node was not made before.
LEMMA CallKeeps ==
    ASSUME Inv, NEW n \in Nodes, Call(n)
    PROVE  Inv'
<1>1. at[n] = "none" /\ hub[n] = "none" /\ n \notin interrupted /\ ~Listed(n)
  BY DEF Inv, NodesInv, Life, Call
<1>2. StackInv'
  BY <1>1, PushStack, InvStack DEF Call
<1>3. TypeOK'
  <2>1. at' \in [Nodes -> {"none", "block", "bind", "connect", "start", "append"}]
    BY <1>2 DEF StackInv, StackType
  <2>2. ExampleType' /\ ZyreType' /\ HistoryType'
    BY DEF Inv, TypeOK, ExampleType, ZyreType, HistoryType, Call, exampleVars
  <2>3. QED
    BY <1>2, <2>2 DEF TypeOK, StackInv
<1>4. \A m \in Nodes : /\ at'[m] = IF m = n THEN "block" ELSE at[m]
                       /\ zyre'[m] = IF m = n THEN "new" ELSE zyre[m]
                       /\ Listed(m)' <=> Listed(m)
  BY ListStays DEF Inv, TypeOK, StackType, ZyreType, Call, exampleVars
<1>5. /\ headers' = headers /\ hub' = hub /\ entered' = entered /\ binder' = binder
      /\ interrupted' = interrupted /\ startedNodes' = startedNodes /\ stops' = stops
      /\ gossipEndpoint' = gossipEndpoint
  BY DEF Call, exampleVars
<1>6. zyre[n] = "unmade"
  BY DEF Call
<1>7. NodesInv'
  <2> SUFFICES ASSUME NEW m \in Nodes
               PROVE  Life(m)' /\ Accounted(m)' /\ \A k \in Nodes : Known(m, k)'
    BY DEF NodesInv
  <2>1. Life(m) /\ Accounted(m) /\ \A k \in Nodes : Known(m, k)
    BY DEF Inv, NodesInv
  <2>2. Life(m)'
    BY <1>1, <1>4, <1>5, <2>1 DEF Life
  <2>3. Accounted(m)'
    BY <1>4, <1>5, <2>1 DEF Accounted
  <2>4. \A k \in Nodes : Known(m, k)'
    BY <1>4, <1>5, <1>6, <2>1 DEF Known
  <2>5. QED
    BY <2>2, <2>3, <2>4
<1>8. HubInv'
  <2>1. binder \in Nodes => (at'[binder] = IF binder = n THEN "block" ELSE at[binder])
    BY <1>4
  <2>2. binder \in Nodes \cup {None}
    BY DEF Inv, TypeOK, HistoryType
  <2>3. binder # n
    BY <1>1, <2>2, NodesAssumption DEF Inv, HubInv
  <2>4. \A m \in Nodes : HubOf(m)'
    <3> SUFFICES ASSUME NEW m \in Nodes PROVE HubOf(m)'
      OBVIOUS
    <3>1. HubOf(m)
      BY DEF Inv, HubInv
    <3>2. QED
      BY <1>1, <1>4, <1>5, <2>1, <2>2, <2>3, <3>1 DEF HubOf
  <2>5. QED
    BY <1>4, <1>5, <2>1, <2>2, <2>3, <2>4 DEF Inv, HubInv
<1>9. QED
  BY <1>2, <1>3, <1>7, <1>8 DEF Inv, StackInv

\* The facts about the node of the innermost call.
LEMMA TopFacts ==
    ASSUME Inv, NEW n \in Nodes, Top(n), at[n] # "none"
    PROVE  /\ Life(n) /\ Accounted(n) /\ HubOf(n) /\ n # None
           /\ \A m \in Nodes : at[m] \notin {"none", "block"} => m = n
  BY TopOnly, NodesAssumption DEF Inv, TypeOK, NodesInv, HubInv

\* A step that changes neither the calls nor what the hub is to a node.
LEMMA HubStays ==
    ASSUME Inv, at' = at, hub' = hub, binder' = binder, interrupted' = interrupted,
           gossipEndpoint' = gossipEndpoint, startedNodes' = startedNodes
    PROVE  HubInv'
<1>1. \A n \in Nodes \cup {None} : Listed(n)' <=> Listed(n)
  BY DEF Listed
<1>2. binder \in Nodes \cup {None}
  BY DEF Inv, TypeOK, HistoryType
<1>3. \A n \in Nodes : HubOf(n)'
  BY <1>1 DEF Inv, HubInv, HubOf
<1>4. QED
  BY <1>1, <1>2, <1>3 DEF Inv, HubInv

\* A block sets a header only of a node that is not started.
LEMMA SetHeaderKeeps ==
    ASSUME Inv, NEW n \in Nodes, NEW h \in Headers, SetHeader(n, h)
    PROVE  Inv'
<1>1. PICK m \in Nodes : Top(m) /\ at[m] = "block"
  BY DEF SetHeader
<1>2. /\ headers' = [headers EXCEPT ![n] = @ \cup {h}]
      /\ stack' = stack /\ at' = at /\ zyre' = zyre /\ hub' = hub /\ entered' = entered
      /\ binder' = binder /\ interrupted' = interrupted /\ startedNodes' = startedNodes
      /\ stops' = stops /\ gossipEndpoint' = gossipEndpoint /\ example' = example
      /\ interrupts' = interrupts
  BY DEF SetHeader, exampleVars
<1>3. zyre[n] = "new"
  <2>1. at[n] # "none"
    BY DEF SetHeader, Inv, TypeOK, StackType
  <2>2. at[n] \notin {"none", "block"} => n = m
    BY <1>1, TopFacts
  <2>3. at[n] = "block"
    BY <1>1, <2>1, <2>2
  <2>4. QED
    BY <2>3 DEF Inv, NodesInv, Life
<1>4. headers' \in [Nodes -> SUBSET Headers]
  BY <1>2 DEF Inv, TypeOK, ZyreType
<1>5. TypeOK' /\ Distinct'
  BY <1>2, <1>4, KeepStack, InvStack
     DEF Inv, TypeOK, StackInv, ExampleType, ZyreType, HistoryType
<1>6. NodesInv'
  <2> SUFFICES ASSUME NEW k \in Nodes
               PROVE  Life(k)' /\ Accounted(k)' /\ \A j \in Nodes : Known(k, j)'
    BY DEF NodesInv
  <2>1. Life(k) /\ Accounted(k) /\ \A j \in Nodes : Known(k, j)
    BY DEF Inv, NodesInv
  <2>2. Life(k)' /\ Accounted(k)'
    BY <1>2, <2>1 DEF Life, Accounted, Listed
  <2>3. \A j \in Nodes : headers'[j] = IF j = n THEN headers[n] \cup {h} ELSE headers[j]
    BY <1>2 DEF Inv, TypeOK, ZyreType
  <2>4. \A j \in Nodes : Known(k, j)'
    BY <1>2, <1>3, <2>1, <2>3 DEF Known
  <2>5. QED
    BY <2>2, <2>4
<1>7. HubInv'
  BY <1>2, HubStays
<1>8. QED
  BY <1>5, <1>6, <1>7 DEF Inv

\* A step that takes the call of n from one place to the next, or ends it, while
\* libzyre keeps what it knows.
LEMMA CallMoves ==
    ASSUME Inv, NEW n \in Nodes, Top(n), at[n] # "none",
           NEW x \in {"none", "bind", "connect"},
           at' = [at EXCEPT ![n] = x], x = "none" => Pop,
           x # "none" => stack' = stack /\ at[n] = "block",
           zyreVars' = zyreVars, exampleVars' = exampleVars,
           interrupted \subseteq interrupted', interrupted' \subseteq interrupted \cup {n},
           x = "none" => at[n] = "block" \/ n \in interrupted',
           HistoryType'
    PROVE  TypeOK' /\ Distinct' /\ NodesInv'
<1>1. /\ zyre' = zyre /\ headers' = headers /\ hub' = hub /\ entered' = entered
      /\ example' = example /\ startedNodes' = startedNodes /\ stops' = stops
  BY DEF zyreVars, exampleVars
<1>2. StackInv'
  BY StepStack, PopStack, InvStack
<1>3. example = "running"
  BY DEF Top, Inv, TypeOK, ExampleType
<1>4. TypeOK' /\ Distinct'
  BY <1>1, <1>2, <1>3 DEF Inv, TypeOK, StackInv, ExampleType, ZyreType
<1>5. \A m \in Nodes : at'[m] = IF m = n THEN x ELSE at[m]
  BY DEF Inv, TypeOK, StackType
<1>6. NodesInv'
  <2> SUFFICES ASSUME NEW m \in Nodes
               PROVE  Life(m)' /\ Accounted(m)' /\ \A k \in Nodes : Known(m, k)'
    BY DEF NodesInv
  <2>1. Life(m) /\ Accounted(m) /\ \A k \in Nodes : Known(m, k)
    BY DEF Inv, NodesInv
  <2>2. Listed(m)' <=> Listed(m)
    BY <1>1 DEF Listed
  <2>3. Life(m)'
    BY <1>1, <1>5, <2>1, <2>2 DEF Life
  <2>4. Accounted(m)'
    BY <1>1, <1>5, <2>1 DEF Accounted, Life
  <2>5. \A k \in Nodes : Known(m, k)'
    BY <1>1, <2>1 DEF Known
  <2>6. QED
    BY <2>3, <2>4, <2>5
<1>7. QED
  BY <1>4, <1>6

\* The block returns: the call is to bind the hub if there is none.
LEMMA BlockEndsKeeps ==
    ASSUME Inv, NEW n \in Nodes, BlockEnds(n)
    PROVE  Inv'
<1> DEFINE x == IF gossipEndpoint THEN "connect" ELSE "bind"
<1>1. /\ Top(n) /\ at[n] = "block" /\ at' = [at EXCEPT ![n] = x] /\ stack' = stack
      /\ gossipEndpoint' = TRUE /\ binder' = IF gossipEndpoint THEN binder ELSE n
      /\ interrupted' = interrupted /\ interrupts' = interrupts
      /\ zyreVars' = zyreVars /\ exampleVars' = exampleVars
  BY DEF BlockEnds, zyreVars, exampleVars
<1>2. /\ Life(n) /\ HubOf(n) /\ n # None
      /\ \A m \in Nodes : at[m] \notin {"none", "block"} => m = n
  BY <1>1, TopFacts
<1>3. HistoryType'
  BY <1>1 DEF Inv, TypeOK, HistoryType
<1>4. TypeOK' /\ Distinct' /\ NodesInv'
  BY <1>1, <1>3, CallMoves
<1>5. HubInv'
  <2>1. \A m \in Nodes : at'[m] = IF m = n THEN x ELSE at[m]
    BY <1>1 DEF Inv, TypeOK, StackType
  <2>2. /\ hub' = hub /\ \A m \in Nodes \cup {None} : Listed(m)' <=> Listed(m)
    BY <1>1 DEF zyreVars, exampleVars, Listed
  <2>3. binder \in Nodes \cup {None} /\ (gossipEndpoint <=> binder # None)
    BY DEF Inv, TypeOK, HistoryType, HubInv
  <2>4. \A m \in Nodes : HubOf(m)
    BY DEF Inv, HubInv
  <2>5. CASE gossipEndpoint
    <3>1. binder' = binder /\ binder \in Nodes /\ binder # None /\ x = "connect"
      BY <1>1, <2>3, <2>5
    <3>2. ASSUME NEW m \in Nodes PROVE HubOf(m)'
      <4>1. HubOf(m) /\ HubOf(n)
        BY <2>4
      <4>2. at'[binder] = IF binder = n THEN "connect" ELSE at[binder]
        BY <2>1, <3>1
      <4>3. QED
        BY <1>1, <2>1, <2>2, <3>1, <4>1, <4>2 DEF HubOf
    <3>3. binder # n \/ binder \in interrupted
      BY <1>1, <1>2, <2>3, <2>5, <3>1 DEF Inv, HubInv, HubOf
    <3>4. QED
      BY <1>1, <2>1, <2>2, <2>3, <3>1, <3>2, <3>3 DEF Inv, HubInv
  <2>6. CASE ~gossipEndpoint
    <3>1. binder = None /\ binder' = n /\ x = "bind"
      BY <1>1, <2>3, <2>6
    <3>2. \A m \in Nodes : hub[m] = "none"
      BY <2>4, <3>1 DEF HubOf
    <3>3. \A m \in Nodes : HubOf(m)'
      BY <1>2, <2>1, <2>2, <2>4, <3>1, <3>2 DEF HubOf
    <3>4. QED
      BY <1>1, <1>2, <2>1, <3>1, <3>3 DEF HubInv
  <2>7. QED
    BY <2>5, <2>6
<1>6. QED
  BY <1>4, <1>5 DEF Inv

\* The block raises: its node is in no call any more, and was chosen for nothing.
LEMMA BlockRaisesKeeps ==
    ASSUME Inv, NEW n \in Nodes, BlockRaises(n)
    PROVE  Inv'
<1>1. /\ Top(n) /\ at[n] = "block" /\ at' = [at EXCEPT ![n] = "none"] /\ Pop
      /\ gossipEndpoint' = gossipEndpoint /\ binder' = binder
      /\ interrupted' = interrupted /\ interrupts' = interrupts
      /\ zyreVars' = zyreVars /\ exampleVars' = exampleVars
  BY DEF BlockRaises, zyreVars, exampleVars
<1>2. HistoryType'
  BY <1>1 DEF Inv, TypeOK, HistoryType
<1>3. TypeOK' /\ Distinct' /\ NodesInv'
  BY <1>1, <1>2, CallMoves
<1>4. HubInv'
  <2>1. \A m \in Nodes : at'[m] = IF m = n THEN "none" ELSE at[m]
    BY <1>1 DEF Inv, TypeOK, StackType
  <2>2. /\ hub' = hub /\ \A m \in Nodes \cup {None} : Listed(m)' <=> Listed(m)
    BY <1>1 DEF zyreVars, exampleVars, Listed
  <2>3. binder \in Nodes \cup {None}
    BY DEF Inv, TypeOK, HistoryType
  <2>4. \A m \in Nodes : HubOf(m)'
    BY <1>1, <2>1, <2>2, <2>3 DEF Inv, HubInv, HubOf
  <2>5. QED
    BY <1>1, <2>1, <2>2, <2>3, <2>4 DEF Inv, HubInv
<1>5. QED
  BY <1>3, <1>4 DEF Inv

\* An exception ends a call behind its block.
LEMMA InterruptKeeps ==
    ASSUME Inv, NEW n \in Nodes, Interrupt(n)
    PROVE  Inv'
<1>1. /\ Top(n) /\ at[n] # "block" /\ at' = [at EXCEPT ![n] = "none"] /\ Pop
      /\ gossipEndpoint' = gossipEndpoint /\ binder' = binder
      /\ interrupted' = interrupted \cup {n} /\ interrupts' = interrupts + 1
      /\ zyreVars' = zyreVars /\ exampleVars' = exampleVars
  BY DEF Interrupt, zyreVars, exampleVars
<1>2. HistoryType'
  BY <1>1 DEF Inv, TypeOK, HistoryType
<1>3. at[n] # "none"
  BY <1>1, StackFacts DEF Inv, TypeOK, StackType, Top, InCall
<1>4. TypeOK' /\ Distinct' /\ NodesInv'
  BY <1>1, <1>2, <1>3, CallMoves
<1>5. HubInv'
  <2>1. \A m \in Nodes : at'[m] = IF m = n THEN "none" ELSE at[m]
    BY <1>1 DEF Inv, TypeOK, StackType
  <2>2. /\ hub' = hub /\ \A m \in Nodes \cup {None} : Listed(m)' <=> Listed(m)
    BY <1>1 DEF zyreVars, exampleVars, Listed
  <2>3. binder \in Nodes \cup {None}
    BY DEF Inv, TypeOK, HistoryType
  <2>4. \A m \in Nodes : HubOf(m)'
    BY <1>1, <2>1, <2>2, <2>3 DEF Inv, HubInv, HubOf
  <2>5. QED
    BY <1>1, <2>1, <2>2, <2>3, <2>4 DEF Inv, HubInv
<1>6. QED
  BY <1>4, <1>5 DEF Inv

\* The node connects to the hub, or binds it.
LEMMA GossipKeeps ==
    ASSUME Inv, NEW n \in Nodes, GossipConnect(n) \/ GossipBind(n)
    PROVE  Inv'
<1>1. /\ Top(n) /\ at[n] \in {"connect", "bind"} /\ at' = [at EXCEPT ![n] = "start"]
      /\ stack' = stack /\ zyre' = zyre /\ headers' = headers /\ entered' = entered
      /\ binder' = binder /\ interrupted' = interrupted /\ startedNodes' = startedNodes
      /\ stops' = stops /\ gossipEndpoint' = gossipEndpoint /\ example' = example
      /\ interrupts' = interrupts
  BY DEF GossipConnect, GossipBind, exampleVars
<1>2. /\ Life(n) /\ HubOf(n) /\ n # None
      /\ \A m \in Nodes : at[m] \notin {"none", "block"} => m = n
  BY <1>1, TopFacts
<1>3. ~\E m \in Nodes : Serves(m) /\ at[n] = "bind"
  BY <1>1, <1>2 DEF Serves, Inv, HubInv, HubOf
<1>4. hub' = [hub EXCEPT ![n] = IF at[n] = "bind" THEN "bound" ELSE "connected"]
  BY <1>3 DEF GossipConnect, GossipBind
<1>5. StackInv'
  BY <1>1, StepStack, InvStack
<1>6. hub' \in [Nodes -> {"none", "bound", "connected"}]
  BY <1>4 DEF Inv, TypeOK, ZyreType
<1>7. example = "running"
  BY <1>1 DEF Top, Inv, TypeOK, ExampleType
<1>8. TypeOK' /\ Distinct'
  BY <1>1, <1>5, <1>6, <1>7 DEF Inv, TypeOK, StackInv, ExampleType, ZyreType, HistoryType
<1>9. \A m \in Nodes : /\ at'[m] = IF m = n THEN "start" ELSE at[m]
                       /\ hub'[m] = IF m # n THEN hub[m]
                                    ELSE IF at[n] = "bind" THEN "bound" ELSE "connected"
  BY <1>1, <1>4 DEF Inv, TypeOK, StackType, ZyreType
<1>10. \A m \in Nodes \cup {None} : Listed(m)' <=> Listed(m)
  BY <1>1 DEF Listed
<1>11. NodesInv'
  <2> SUFFICES ASSUME NEW m \in Nodes
               PROVE  Life(m)' /\ Accounted(m)' /\ \A k \in Nodes : Known(m, k)'
    BY DEF NodesInv
  <2>1. Life(m) /\ Accounted(m) /\ \A k \in Nodes : Known(m, k)
    BY DEF Inv, NodesInv
  <2>2. Life(m)'
    BY <1>1, <1>9, <1>10, <2>1 DEF Life
  <2>3. Accounted(m)'
    BY <1>1, <1>9, <2>1 DEF Accounted
  <2>4. \A k \in Nodes : Known(m, k)'
    BY <1>1, <2>1 DEF Known
  <2>5. QED
    BY <2>2, <2>3, <2>4
<1>12. HubInv'
  <2>1. binder \in Nodes \cup {None} /\ (gossipEndpoint <=> binder # None)
    BY DEF Inv, TypeOK, HistoryType, HubInv
  <2>2. \A m \in Nodes : HubOf(m)
    BY DEF Inv, HubInv
  <2>3. binder # None
    <3>1. CASE at[n] = "bind"
      BY <1>2, <3>1 DEF HubOf
    <3>2. CASE at[n] = "connect"
      BY <1>2, <3>2 DEF HubOf
    <3>3. QED
      BY <1>1, <3>1, <3>2
  <2>4. \A m \in Nodes : HubOf(m)'
    <3> SUFFICES ASSUME NEW m \in Nodes PROVE HubOf(m)'
      OBVIOUS
    <3>1. HubOf(m)
      BY <2>2
    <3>2. at'[binder] # "bind"
      BY <1>2, <1>9, <2>1, <2>3
    <3>3. QED
      BY <1>1, <1>2, <1>9, <1>10, <2>1, <2>3, <3>1, <3>2 DEF HubOf
  <2>5. QED
    BY <1>1, <1>2, <1>9, <1>10, <2>1, <2>3, <2>4 DEF Inv, HubInv, HubOf
<1>13. QED
  BY <1>8, <1>11, <1>12 DEF Inv

\* The node is started.
LEMMA StartKeeps ==
    ASSUME Inv, NEW n \in Nodes, Start(n)
    PROVE  Inv'
<1>1. /\ Top(n) /\ at[n] = "start" /\ at' = [at EXCEPT ![n] = "append"]
      /\ zyre' = [zyre EXCEPT ![n] = "started"]
      /\ stack' = stack /\ hub' = hub /\ headers' = headers /\ entered' = entered
      /\ binder' = binder /\ interrupted' = interrupted /\ startedNodes' = startedNodes
      /\ stops' = stops /\ gossipEndpoint' = gossipEndpoint /\ example' = example
      /\ interrupts' = interrupts
  BY DEF Start, exampleVars
<1>2. /\ Life(n) /\ HubOf(n) /\ n # None
      /\ \A m \in Nodes : at[m] \notin {"none", "block"} => m = n
  BY <1>1, TopFacts
<1>3. StackInv'
  BY <1>1, StepStack, InvStack
<1>4. zyre' \in [Nodes -> {"unmade", "new", "started", "stopped", "destroyed"}]
  BY <1>1 DEF Inv, TypeOK, ZyreType
<1>5. example = "running"
  BY <1>1 DEF Top, Inv, TypeOK, ExampleType
<1>6. TypeOK' /\ Distinct'
  BY <1>1, <1>3, <1>4, <1>5
     DEF Inv, TypeOK, StackInv, ExampleType, ZyreType, HistoryType
<1>7. \A m \in Nodes : /\ at'[m] = IF m = n THEN "append" ELSE at[m]
                       /\ zyre'[m] = IF m = n THEN "started" ELSE zyre[m]
  BY <1>1 DEF Inv, TypeOK, StackType, ZyreType
<1>8. \A m \in Nodes \cup {None} : Listed(m)' <=> Listed(m)
  BY <1>1 DEF Listed
<1>9. NodesInv'
  <2> SUFFICES ASSUME NEW m \in Nodes
               PROVE  Life(m)' /\ Accounted(m)' /\ \A k \in Nodes : Known(m, k)'
    BY DEF NodesInv
  <2>1. Life(m) /\ Accounted(m) /\ \A k \in Nodes : Known(m, k)
    BY DEF Inv, NodesInv
  <2>2. Life(m)'
    BY <1>1, <1>7, <1>8, <2>1 DEF Life
  <2>3. Accounted(m)'
    BY <1>1, <1>7, <2>1 DEF Accounted
  <2>4. \A k \in Nodes : Known(m, k)'
    BY <1>1, <1>7, <2>1 DEF Known
  <2>5. QED
    BY <2>2, <2>3, <2>4
<1>10. HubInv'
  <2>1. binder \in Nodes \cup {None} /\ (gossipEndpoint <=> binder # None)
    BY DEF Inv, TypeOK, HistoryType, HubInv
  <2>2. binder # None => at'[binder] = IF binder = n THEN "append" ELSE at[binder]
    BY <1>7, <2>1
  <2>3. ASSUME NEW m \in Nodes PROVE HubOf(m)'
    <3>1. HubOf(m) /\ HubOf(n)
      BY DEF Inv, HubInv
    <3>2. QED
      BY <1>1, <1>7, <1>8, <2>1, <2>2, <3>1 DEF HubOf
  <2>4. QED
    BY <1>1, <1>8, <2>1, <2>2, <2>3 DEF Inv, HubInv
<1>11. QED
  BY <1>6, <1>9, <1>10 DEF Inv

\* The node is listed, and the call ends.
LEMMA ReturnKeeps ==
    ASSUME Inv, NEW n \in Nodes, Return(n)
    PROVE  Inv'
<1>1. /\ Top(n) /\ at[n] = "append" /\ at' = [at EXCEPT ![n] = "none"] /\ Pop
      /\ startedNodes' = Append(startedNodes, n)
      /\ zyre' = zyre /\ hub' = hub /\ headers' = headers /\ entered' = entered
      /\ binder' = binder /\ interrupted' = interrupted
      /\ stops' = stops /\ gossipEndpoint' = gossipEndpoint /\ example' = example
      /\ interrupts' = interrupts
  BY DEF Return, zyreVars
<1>2. /\ Life(n) /\ HubOf(n) /\ n # None
      /\ \A m \in Nodes : at[m] \notin {"none", "block"} => m = n
  BY <1>1, TopFacts
<1>3. StackInv'
  BY <1>1, PopStack, InvStack
<1>4. /\ startedNodes' \in Seq(Nodes) /\ Len(startedNodes') = Len(startedNodes) + 1
      /\ Len(startedNodes) \in Nat /\ stops \in 0..Len(startedNodes)
      /\ DOMAIN startedNodes' = 1..(Len(startedNodes) + 1)
      /\ DOMAIN startedNodes = 1..Len(startedNodes)
      /\ startedNodes'[Len(startedNodes) + 1] = n
      /\ \A k \in 1..Len(startedNodes) : startedNodes'[k] = startedNodes[k]
      /\ \A m \in Nodes : Listed(m)' <=> m = n \/ Listed(m)
  BY <1>1, ListGrows DEF Inv, TypeOK
<1>5. example = "running"
  BY <1>1 DEF Top, Inv, TypeOK, ExampleType
<1>6. ExampleType'
  <2>1. stops' \in 0..Len(startedNodes')
    BY <1>1, <1>4
  <2>2. QED
    BY <1>1, <1>4, <1>5, <2>1 DEF ExampleType
<1>7. TypeOK' /\ Distinct'
  BY <1>1, <1>3, <1>6 DEF Inv, TypeOK, StackInv, ZyreType, HistoryType
<1>8. \A m \in Nodes : at'[m] = IF m = n THEN "none" ELSE at[m]
  BY <1>1 DEF Inv, TypeOK, StackType
<1>9. NodesInv'
  <2> SUFFICES ASSUME NEW m \in Nodes
               PROVE  Life(m)' /\ Accounted(m)' /\ \A k \in Nodes : Known(m, k)'
    BY DEF NodesInv
  <2>1. Life(m) /\ Accounted(m) /\ \A k \in Nodes : Known(m, k)
    BY DEF Inv, NodesInv
  <2>2. Life(m)'
    BY <1>1, <1>2, <1>4, <1>8, <2>1 DEF Life
  <2>3. Accounted(m)'
    <3>1. CASE m = n
      <4>1. Len(startedNodes) + 1 \in DOMAIN startedNodes'
            /\ Len(startedNodes) + 1 > stops'
        BY <1>1, <1>4
      <4>2. QED
        BY <1>4, <3>1, <4>1 DEF Accounted
    <3>2. CASE m # n
      <4>1. zyre[m] = "started" =>
                \/ at[m] = "append" \/ m \in interrupted
                \/ \E k \in 1..Len(startedNodes) : k > stops /\ startedNodes[k] = m
        BY <1>4, <2>1 DEF Accounted
      <4>2. \A k \in 1..Len(startedNodes) :
                k \in DOMAIN startedNodes' /\ startedNodes'[k] = startedNodes[k]
        BY <1>4
      <4>3. QED
        BY <1>1, <1>8, <3>2, <4>1, <4>2 DEF Accounted
    <3>3. QED
      BY <3>1, <3>2
  <2>4. \A k \in Nodes : Known(m, k)'
    BY <1>1, <2>1 DEF Known
  <2>5. QED
    BY <2>2, <2>3, <2>4
<1>10. HubInv'
  <2>1. binder \in Nodes \cup {None} /\ (gossipEndpoint <=> binder # None)
    BY DEF Inv, TypeOK, HistoryType, HubInv
  <2>2. binder # None => /\ at'[binder] = IF binder = n THEN "none" ELSE at[binder]
                         /\ Listed(binder)' <=> binder = n \/ Listed(binder)
    <3> SUFFICES ASSUME binder # None
                 PROVE  /\ at'[binder] = IF binder = n THEN "none" ELSE at[binder]
                        /\ Listed(binder)' <=> binder = n \/ Listed(binder)
      OBVIOUS
    <3>1. PICK b \in Nodes : b = binder
      BY <2>1
    <3>2. Listed(b)' <=> b = n \/ Listed(b)
      BY <1>4
    <3>3. Listed(binder)' <=> Listed(b)'
      BY <1>1, <3>1 DEF Listed
    <3>4. QED
      BY <1>8, <3>1, <3>2, <3>3
  <2>3. ASSUME NEW m \in Nodes PROVE HubOf(m)'
    <3>1. HubOf(m) /\ HubOf(n)
      BY DEF Inv, HubInv
    <3>2. QED
      BY <1>1, <1>2, <1>4, <1>8, <2>1, <2>2, <3>1 DEF HubOf
  <2>4. QED
    BY <1>1, <1>2, <2>1, <2>2, <2>3 DEF Inv, HubInv
<1>11. QED
  BY <1>7, <1>9, <1>10 DEF Inv

\* The hook stops the next node of the list.
LEMMA StopKeeps ==
    ASSUME Inv, Stop
    PROVE  Inv'
<1> DEFINE n == startedNodes[stops + 1]
<1>1. /\ stops \in 0..Len(startedNodes) /\ Len(startedNodes) \in Nat
      /\ DOMAIN startedNodes = 1..Len(startedNodes) /\ stops < Len(startedNodes)
  BY LenProperties DEF Inv, TypeOK, ExampleType, Stop
<1>2. stops + 1 \in DOMAIN startedNodes /\ n \in Nodes /\ Listed(n)
  BY <1>1, ElementOfSeq DEF Inv, TypeOK, ExampleType, Listed
<1>3. /\ zyre' = [zyre EXCEPT ![n] = "stopped"] /\ stops' = stops + 1
      /\ stack' = stack /\ at' = at /\ hub' = hub /\ headers' = headers
      /\ entered' = entered /\ binder' = binder /\ interrupted' = interrupted
      /\ startedNodes' = startedNodes /\ gossipEndpoint' = gossipEndpoint
      /\ example' = example /\ interrupts' = interrupts /\ example = "after"
  BY DEF Stop
<1> HIDE DEF n
<1>4. zyre' \in [Nodes -> {"unmade", "new", "started", "stopped", "destroyed"}]
      /\ \A m \in Nodes : zyre'[m] = IF m = n THEN "stopped" ELSE zyre[m]
  BY <1>2, <1>3 DEF Inv, TypeOK, ZyreType
<1>5. stops' \in 0..Len(startedNodes')
  BY <1>1, <1>3
<1>6. TypeOK' /\ Distinct'
  BY <1>3, <1>4, <1>5, KeepStack, InvStack
     DEF Inv, TypeOK, StackInv, ExampleType, ZyreType, HistoryType
<1>7. at[n] = "none"
  <2>1. stack = <<>>
    BY <1>3 DEF Inv, TypeOK, ExampleType
  <2>2. ~InCall(n)
    BY <2>1, EmptySeq DEF InCall
  <2>3. QED
    BY <1>2, <2>2 DEF Inv, TypeOK, StackType
<1>8. NodesInv'
  <2> SUFFICES ASSUME NEW m \in Nodes
               PROVE  Life(m)' /\ Accounted(m)' /\ \A k \in Nodes : Known(m, k)'
    BY DEF NodesInv
  <2>1. Life(m) /\ Accounted(m) /\ \A k \in Nodes : Known(m, k)
    BY DEF Inv, NodesInv
  <2>2. Listed(m)' <=> Listed(m)
    BY <1>3 DEF Listed
  <2>3. Life(m)'
    BY <1>3, <1>4, <1>7, <2>1, <2>2 DEF Life
  <2>4. Accounted(m)'
    <3>1. CASE m = n
      BY <1>4, <3>1 DEF Accounted
    <3>2. CASE m # n
      <4>1. \A k \in DOMAIN startedNodes :
                k > stops /\ startedNodes[k] = m => k > stops + 1
        BY <1>1, <3>2 DEF n
      <4>2. QED
        BY <1>3, <1>4, <2>1, <3>2, <4>1 DEF Accounted
    <3>3. QED
      BY <3>1, <3>2
  <2>5. \A k \in Nodes : Known(m, k)'
    BY <1>3, <1>4, <2>1 DEF Known
  <2>6. QED
    BY <2>3, <2>4, <2>5
<1>9. HubInv'
  BY <1>3, HubStays
<1>10. QED
  BY <1>6, <1>8, <1>9 DEF Inv

LEMMA HooksKeep ==
    ASSUME Inv, ExampleEnds \/ HookEnds
    PROVE  Inv'
<1>1. /\ stack' = stack /\ at' = at /\ zyre' = zyre /\ hub' = hub /\ headers' = headers
      /\ entered' = entered /\ binder' = binder /\ interrupted' = interrupted
      /\ startedNodes' = startedNodes /\ stops' = stops /\ gossipEndpoint' = gossipEndpoint
      /\ example' \in {"after", "over"} /\ stack = <<>>
      /\ interrupts' \in {interrupts, interrupts + 1}
  BY DEF ExampleEnds, HookEnds, zyreVars, Inv, TypeOK, ExampleType
<1>2. TypeOK' /\ Distinct'
  BY <1>1, KeepStack, InvStack
     DEF Inv, TypeOK, StackInv, ExampleType, ZyreType, HistoryType
<1>3. NodesInv'
  BY <1>1 DEF Inv, NodesInv, Life, Accounted, Known, Listed
<1>4. HubInv'
  BY <1>1, HubStays
<1>5. QED
  BY <1>2, <1>3, <1>4 DEF Inv

\* The collector frees only what is in no call and not listed.
LEMMA CollectKeeps ==
    ASSUME Inv, NEW n \in Nodes, Collect(n)
    PROVE  Inv'
<1>1. /\ zyre' = [zyre EXCEPT ![n] = "destroyed"] /\ Exists(n) /\ ~Listed(n) /\ ~InCall(n)
      /\ stack' = stack /\ at' = at /\ hub' = hub /\ headers' = headers
      /\ entered' = entered /\ binder' = binder /\ interrupted' = interrupted
      /\ startedNodes' = startedNodes /\ stops' = stops /\ gossipEndpoint' = gossipEndpoint
      /\ example' = example /\ interrupts' = interrupts
  BY DEF Collect, exampleVars
<1>2. at[n] = "none"
  BY <1>1 DEF Inv, TypeOK, StackType
<1>3. zyre' \in [Nodes -> {"unmade", "new", "started", "stopped", "destroyed"}]
      /\ \A m \in Nodes : zyre'[m] = IF m = n THEN "destroyed" ELSE zyre[m]
  BY <1>1 DEF Inv, TypeOK, ZyreType
<1>4. TypeOK' /\ Distinct'
  BY <1>1, <1>3, KeepStack, InvStack
     DEF Inv, TypeOK, StackInv, ExampleType, ZyreType, HistoryType
<1>5. NodesInv'
  <2> SUFFICES ASSUME NEW m \in Nodes
               PROVE  Life(m)' /\ Accounted(m)' /\ \A k \in Nodes : Known(m, k)'
    BY DEF NodesInv
  <2>1. Life(m) /\ Accounted(m) /\ \A k \in Nodes : Known(m, k)
    BY DEF Inv, NodesInv
  <2>2. Listed(m)' <=> Listed(m)
    BY <1>1 DEF Listed
  <2>3. Life(m)'
    BY <1>1, <1>2, <1>3, <2>1, <2>2 DEF Life
  <2>4. Accounted(m)'
    BY <1>1, <1>3, <2>1 DEF Accounted
  <2>5. \A k \in Nodes : Known(m, k)'
    BY <1>1, <1>3, <2>1 DEF Known
  <2>6. QED
    BY <2>3, <2>4, <2>5
<1>6. HubInv'
  BY <1>1, HubStays
<1>7. QED
  BY <1>4, <1>5, <1>6 DEF Inv

LEMMA DiscoverKeeps ==
    ASSUME Inv, NEW n \in Nodes, NEW m \in Nodes, Discover(n, m)
    PROVE  Inv'
<1>1. /\ entered' = [entered EXCEPT ![n][m] = {headers[m]}] /\ zyre[m] = "started"
      /\ stack' = stack /\ at' = at /\ zyre' = zyre /\ hub' = hub /\ headers' = headers
      /\ binder' = binder /\ interrupted' = interrupted
      /\ startedNodes' = startedNodes /\ stops' = stops /\ gossipEndpoint' = gossipEndpoint
      /\ example' = example /\ interrupts' = interrupts
  BY DEF Discover, CanMeet, exampleVars
<1>2. headers[m] \in SUBSET Headers /\ entered \in [Nodes -> [Nodes -> SUBSET SUBSET Headers]]
  BY DEF Inv, TypeOK, ZyreType
<1>3. /\ entered' \in [Nodes -> [Nodes -> SUBSET SUBSET Headers]]
      /\ \A j, k \in Nodes : entered'[j][k] = IF j = n /\ k = m THEN {headers[m]}
                                              ELSE entered[j][k]
  BY <1>1, <1>2
<1>4. TypeOK' /\ Distinct'
  BY <1>1, <1>3, KeepStack, InvStack
     DEF Inv, TypeOK, StackInv, ExampleType, ZyreType, HistoryType
<1>5. NodesInv'
  <2> SUFFICES ASSUME NEW j \in Nodes
               PROVE  Life(j)' /\ Accounted(j)' /\ \A k \in Nodes : Known(j, k)'
    BY DEF NodesInv
  <2>1. Life(j) /\ Accounted(j) /\ \A k \in Nodes : Known(j, k)
    BY DEF Inv, NodesInv
  <2>2. Life(j)' /\ Accounted(j)'
    BY <1>1, <2>1 DEF Life, Accounted, Listed
  <2>3. \A k \in Nodes : Known(j, k)'
    BY <1>1, <1>3, <2>1 DEF Known
  <2>4. QED
    BY <2>2, <2>3
<1>6. HubInv'
  BY <1>1, HubStays
<1>7. QED
  BY <1>4, <1>5, <1>6 DEF Inv

LEMMA InitInv == Init => Inv
<1> SUFFICES ASSUME Init PROVE Inv
  OBVIOUS
<1>1. <<>> \in Seq(Nodes) /\ Len(<<>>) = 0 /\ DOMAIN <<>> = {}
  BY EmptySeq
<1>2. TypeOK /\ Distinct
  <2>1. StackType /\ Distinct
    <3>1. stack \in Seq(Nodes) /\ DOMAIN stack = {}
      BY <1>1 DEF Init
    <3>2. at = [n \in Nodes |-> "none"]
      BY DEF Init
    <3>3. QED
      BY <3>1, <3>2 DEF StackType, Distinct, InCall
  <2>2. ExampleType
    <3>1. startedNodes \in Seq(Nodes) /\ Len(startedNodes) = 0 /\ stops = 0
      BY <1>1 DEF Init
    <3>2. QED
      BY <3>1 DEF Init, ExampleType
  <2>3. ZyreType
    BY DEF Init, ZyreType
  <2>4. HistoryType
    BY DEF Init, HistoryType
  <2>5. QED
    BY <2>1, <2>2, <2>3, <2>4 DEF TypeOK
<1>3. NodesInv
  <2> SUFFICES ASSUME NEW n \in Nodes
               PROVE  Life(n) /\ Accounted(n) /\ \A m \in Nodes : Known(n, m)
    BY DEF NodesInv
  <2>1. /\ zyre[n] = "unmade" /\ at[n] = "none" /\ hub[n] = "none" /\ interrupted = {}
        /\ DOMAIN startedNodes = {}
    BY <1>1 DEF Init
  <2>2. \A m \in Nodes : entered[n][m] = {}
    BY DEF Init
  <2>3. Life(n) /\ Accounted(n)
    BY <2>1 DEF Life, Accounted, Listed
  <2>4. \A m \in Nodes : Known(n, m)
    BY <2>2 DEF Known
  <2>5. QED
    BY <2>3, <2>4
<1>4. HubInv
  BY <1>1 DEF Init, HubInv, HubOf, Listed
<1>5. QED
  BY <1>2, <1>3, <1>4 DEF Inv

LEMMA StepInv == Inv /\ [Next]_vars => Inv'
<1> SUFFICES ASSUME Inv, [Next]_vars PROVE Inv'
  OBVIOUS
<1>1. ASSUME NEW n \in Nodes, Call(n) PROVE Inv'
  BY <1>1, CallKeeps
<1>2. ASSUME NEW n \in Nodes, BlockEnds(n) PROVE Inv'
  BY <1>2, BlockEndsKeeps
<1>3. ASSUME NEW n \in Nodes, GossipConnect(n) \/ GossipBind(n) PROVE Inv'
  BY <1>3, GossipKeeps
<1>4. ASSUME NEW n \in Nodes, Start(n) PROVE Inv'
  BY <1>4, StartKeeps
<1>5. ASSUME NEW n \in Nodes, Return(n) PROVE Inv'
  BY <1>5, ReturnKeeps
<1>6. ASSUME NEW n \in Nodes, BlockRaises(n) PROVE Inv'
  BY <1>6, BlockRaisesKeeps
<1>7. ASSUME NEW n \in Nodes, Interrupt(n) PROVE Inv'
  BY <1>7, InterruptKeeps
<1>8. ASSUME NEW n \in Nodes, Collect(n) PROVE Inv'
  BY <1>8, CollectKeeps
<1>9. ASSUME NEW n \in Nodes, NEW h \in Headers, SetHeader(n, h) PROVE Inv'
  BY <1>9, SetHeaderKeeps
<1>10. ASSUME NEW n \in Nodes, NEW m \in Nodes, Discover(n, m) PROVE Inv'
  BY <1>10, DiscoverKeeps
<1>11. CASE ExampleEnds \/ HookEnds
  BY <1>11, HooksKeep
<1>12. CASE Stop
  BY <1>12, StopKeeps
<1>13. CASE UNCHANGED vars
  <2>1. /\ stack' = stack /\ at' = at /\ zyre' = zyre /\ hub' = hub /\ headers' = headers
        /\ entered' = entered /\ binder' = binder /\ interrupted' = interrupted
        /\ startedNodes' = startedNodes /\ stops' = stops /\ example' = example
        /\ gossipEndpoint' = gossipEndpoint /\ interrupts' = interrupts
    BY <1>13 DEF vars
  <2>2. TypeOK' /\ Distinct'
    BY <2>1, KeepStack, InvStack
       DEF Inv, TypeOK, StackInv, ExampleType, ZyreType, HistoryType
  <2>3. NodesInv'
    BY <2>1 DEF Inv, NodesInv, Life, Accounted, Known, Listed
  <2>4. HubInv'
    BY <2>1, HubStays
  <2>5. QED
    BY <2>2, <2>3, <2>4 DEF Inv
<1>14. QED
  BY <1>1, <1>2, <1>3, <1>4, <1>5, <1>6, <1>7, <1>8, <1>9, <1>10, <1>11, <1>12, <1>13
     DEF Next

LEMMA Invariance == Spec => []Inv
  BY InitInv, StepInv, PTL DEF Spec

(***************************************************************************)
(* The theorems.                                                           *)
(***************************************************************************)

\* The state keeps its shape: the calls around the innermost stay in their blocks,
\* and no call is open when the hook runs (testing.rb:247-280).
THEOREM TypeCorrect == Spec => []TypeOK
<1>1. Inv => TypeOK
  BY DEF Inv
<1>2. QED
  BY Invariance, <1>1, PTL

\* Every peer that meets a node knows all headers the blocks set on it, however deep
\* the calls nest (testing.rb:263, 276).
THEOREM HeadersArrive == Spec => []EntersWithHeaders
<1>1. Inv => EntersWithHeaders
  BY DEF Inv, NodesInv, Known, EntersWithHeaders
<1>2. QED
  BY Invariance, <1>1, PTL

\* One hub serves all nodes that are listed, whatever calls nest and whichever blocks
\* raise, unless an exception came into the call that was to bind it (testing.rb:263-277).
THEOREM HubIsThere == Spec => []HubServes
<1>1. Inv => HubServes
  <2> SUFFICES ASSUME Inv, binder \notin interrupted, NEW n \in Nodes, Listed(n)
               PROVE  hub[n] # "none" /\ \E m \in Nodes : Serves(m)
    BY DEF HubServes
  <2>1. hub[n] # "none" /\ binder # None /\ at[binder] # "bind"
    BY DEF Inv, HubInv, HubOf
  <2>2. binder \in Nodes /\ hub[binder] = "bound"
        /\ (at[binder] \in {"start", "append"} \/ Listed(binder))
    BY <2>1 DEF Inv, TypeOK, HistoryType, HubInv
  <2>3. Exists(binder)
    BY <2>2 DEF Inv, NodesInv, Life, Exists
  <2>4. QED
    BY <2>1, <2>2, <2>3 DEF Serves
<1>2. QED
  BY Invariance, <1>1, PTL

\* When the hook has gone through its list no node runs but one whose call an
\* exception ended, for any number of nodes and raising blocks (testing.rb:247-249).
THEOREM NoNodeRunsOn == Spec => []NoneLeftRunning
<1>1. Inv => NoneLeftRunning
  <2> SUFFICES ASSUME Inv, example = "over", stops = Len(startedNodes),
                      NEW n \in Nodes, zyre[n] = "started"
               PROVE  n \in interrupted
    BY DEF NoneLeftRunning
  <2>1. Accounted(n)
    BY DEF Inv, NodesInv
  <2>2. at[n] = "none"
    <3>1. stack = <<>>
      BY DEF Inv, TypeOK, ExampleType
    <3>2. ~InCall(n)
      BY <3>1, EmptySeq DEF InCall
    <3>3. QED
      BY <3>2 DEF Inv, TypeOK, StackType
  <2>3. \A k \in DOMAIN startedNodes : ~(k > stops)
    BY LenProperties DEF Inv, TypeOK, ExampleType
  <2>4. QED
    BY <2>1, <2>2, <2>3 DEF Accounted
<1>2. QED
  BY Invariance, <1>1, PTL


(***************************************************************************)
(* The hook.                                                               *)
(***************************************************************************)

\* A node is listed once, when its call ends, and the hook begins with the first.
Once ==
    /\ \A n \in Nodes : at[n] # "none" => ~Listed(n)
    /\ \A j, k \in DOMAIN startedNodes : startedNodes[j] = startedNodes[k] => j = k
    /\ example = "running" => stops = 0
    /\ StopsEachOnce

LEMMA ListFacts ==
    ASSUME Inv
    PROVE  /\ Len(startedNodes) \in Nat /\ DOMAIN startedNodes = 1..Len(startedNodes)
           /\ stops \in 0..Len(startedNodes)
           /\ \A k \in 1..Len(startedNodes) : startedNodes[k] \in Nodes
  BY LenProperties, ElementOfSeq DEF Inv, TypeOK, ExampleType

\* The steps that neither list nor stop a node.
LEMMA OthersKeepOnce ==
    ASSUME Inv, Once, startedNodes' = startedNodes, stops' = stops,
           example' = "running" => example = "running",
           \A n \in Nodes : at'[n] # "none" => at[n] # "none" \/ ~Listed(n),
           \A n \in Nodes : Listed(n) => zyre'[n] = zyre[n]
    PROVE  Once'
<1>1. \A n \in Nodes : at'[n] # "none" => ~Listed(n)'
  BY DEF Once, Listed
<1>2. StopsEachOnce'
  <2> SUFFICES ASSUME NEW k \in DOMAIN startedNodes
               PROVE  zyre'[startedNodes[k]] = IF k <= stops THEN "stopped" ELSE "started"
    BY DEF StopsEachOnce
  <2>1. startedNodes[k] \in Nodes /\ Listed(startedNodes[k])
    BY ListFacts DEF Listed
  <2>2. QED
    BY <2>1 DEF Once, StopsEachOnce
<1>3. QED
  BY <1>1, <1>2 DEF Once

LEMMA ReturnKeepsOnce ==
    ASSUME Inv, Once, NEW n \in Nodes, Return(n)
    PROVE  Once'
<1>1. /\ Top(n) /\ at[n] = "append" /\ at' = [at EXCEPT ![n] = "none"]
      /\ startedNodes' = Append(startedNodes, n)
      /\ zyre' = zyre /\ stops' = stops /\ example' = example
  BY DEF Return, zyreVars
<1>2. /\ Len(startedNodes) \in Nat /\ stops \in 0..Len(startedNodes)
      /\ DOMAIN startedNodes' = 1..(Len(startedNodes) + 1)
      /\ DOMAIN startedNodes = 1..Len(startedNodes)
      /\ startedNodes'[Len(startedNodes) + 1] = n
      /\ \A k \in 1..Len(startedNodes) : startedNodes'[k] = startedNodes[k]
      /\ \A m \in Nodes : Listed(m)' <=> m = n \/ Listed(m)
  BY <1>1, ListGrows DEF Inv, TypeOK
<1>3. \A k \in 1..Len(startedNodes) : startedNodes[k] # n
  BY <1>1, <1>2 DEF Once, Listed
<1>4. zyre[n] = "started"
  BY <1>1 DEF Inv, NodesInv, Life
<1>5. \A m \in Nodes : at'[m] # "none" => ~Listed(m)'
  BY <1>1, <1>2 DEF Once, Inv, TypeOK, StackType
<1>6. \A j, k \in DOMAIN startedNodes' : startedNodes'[j] = startedNodes'[k] => j = k
  BY <1>2, <1>3 DEF Once
<1>7. StopsEachOnce'
  <2> SUFFICES ASSUME NEW k \in DOMAIN startedNodes'
               PROVE  zyre[startedNodes'[k]] = IF k <= stops THEN "stopped" ELSE "started"
    BY <1>1 DEF StopsEachOnce
  <2>1. CASE k = Len(startedNodes) + 1
    BY <1>2, <1>4, <2>1
  <2>2. CASE k # Len(startedNodes) + 1
    BY <1>2, <2>2 DEF Once, StopsEachOnce
  <2>3. QED
    BY <2>1, <2>2
<1>8. QED
  BY <1>1, <1>5, <1>6, <1>7 DEF Once

LEMMA StopKeepsOnce ==
    ASSUME Inv, Once, Stop
    PROVE  Once'
<1> DEFINE n == startedNodes[stops + 1]
<1>1. /\ stops \in 0..Len(startedNodes) /\ Len(startedNodes) \in Nat
      /\ DOMAIN startedNodes = 1..Len(startedNodes) /\ stops < Len(startedNodes)
      /\ n \in Nodes
  BY ListFacts DEF Stop
<1>2. /\ zyre' = [zyre EXCEPT ![n] = "stopped"] /\ stops' = stops + 1 /\ at' = at
      /\ startedNodes' = startedNodes /\ example' = example /\ example # "running"
  BY DEF Stop
<1>3. \A k \in 1..Len(startedNodes) :
          zyre'[startedNodes[k]] = IF k = stops + 1 THEN "stopped" ELSE zyre[startedNodes[k]]
  <2>1. \A k \in 1..Len(startedNodes) : startedNodes[k] = n => k = stops + 1
    BY <1>1 DEF Once
  <2>2. \A k \in 1..Len(startedNodes) : startedNodes[k] \in Nodes
    BY ListFacts
  <2> HIDE DEF n
  <2>3. \A m \in Nodes : zyre'[m] = IF m = n THEN "stopped" ELSE zyre[m]
    BY <1>1, <1>2 DEF Inv, TypeOK, ZyreType
  <2>4. n = startedNodes[stops + 1]
    BY DEF n
  <2>5. QED
    BY <2>1, <2>2, <2>3, <2>4
<1>4. StopsEachOnce'
  BY <1>1, <1>2, <1>3 DEF Once, StopsEachOnce
<1>5. QED
  BY <1>2, <1>4 DEF Once, Listed

LEMMA OnceStep == Inv /\ Once /\ [Next]_vars => Once'
<1> SUFFICES ASSUME Inv, Once, [Next]_vars PROVE Once'
  OBVIOUS
<1> USE DEF zyreVars, exampleVars
<1>1. /\ at \in [Nodes -> {"none", "block", "bind", "connect", "start", "append"}]
      /\ zyre \in [Nodes -> {"unmade", "new", "started", "stopped", "destroyed"}]
      /\ \A n \in Nodes : Life(n)
  BY DEF Inv, TypeOK, StackType, ZyreType, NodesInv
<1>2. ASSUME NEW n \in Nodes,
             \/ BlockEnds(n) \/ GossipConnect(n) \/ GossipBind(n) \/ Interrupt(n)
             \/ BlockRaises(n) \/ Collect(n) \/ \E h \in Headers : SetHeader(n, h)
             \/ \E m \in Nodes : Discover(n, m)
      PROVE  Once'
  <2>1. startedNodes' = startedNodes /\ stops' = stops /\ example' = example
    BY <1>2 DEF BlockEnds, GossipConnect, GossipBind, Interrupt, BlockRaises, Collect,
       SetHeader, Discover
  <2>2. \A m \in Nodes : at'[m] # "none" => at[m] # "none"
    <3>1. Top(n) => at[n] # "none"
      BY StackFacts DEF Top, Inv, TypeOK, StackType, InCall
    <3>2. QED
      BY <1>1, <1>2, <3>1 DEF BlockEnds, GossipConnect, GossipBind, Interrupt, BlockRaises,
         Collect, SetHeader, Discover
  <2>3. \A m \in Nodes : Listed(m) => zyre'[m] = zyre[m]
    BY <1>1, <1>2 DEF BlockEnds, GossipConnect, GossipBind, Interrupt, BlockRaises, Collect,
       SetHeader, Discover
  <2>4. QED
    BY <2>1, <2>2, <2>3, OthersKeepOnce
<1>3. ASSUME NEW n \in Nodes, Call(n) PROVE Once'
  <2>1. ~Listed(n) /\ startedNodes' = startedNodes /\ stops' = stops /\ example' = example
    BY <1>1, <1>3 DEF Call, Life
  <2>2. \A m \in Nodes : m # n => at'[m] = at[m] /\ zyre'[m] = zyre[m]
    BY <1>1, <1>3 DEF Call
  <2>3. \A m \in Nodes : at'[m] # "none" => at[m] # "none" \/ ~Listed(m)
    BY <2>1, <2>2
  <2>4. \A m \in Nodes : Listed(m) => zyre'[m] = zyre[m]
    BY <2>1, <2>2
  <2>5. QED
    BY <2>1, <2>3, <2>4, OthersKeepOnce
<1>4. ASSUME NEW n \in Nodes, Start(n) PROVE Once'
  <2>1. at[n] = "start" /\ ~Listed(n)
    BY <1>4 DEF Start, Once
  <2>2. /\ startedNodes' = startedNodes /\ stops' = stops /\ example' = example
        /\ \A m \in Nodes : m # n => at'[m] = at[m] /\ zyre'[m] = zyre[m]
    BY <1>1, <1>4 DEF Start
  <2>3. \A m \in Nodes : at'[m] # "none" => at[m] # "none" \/ ~Listed(m)
    BY <2>1, <2>2
  <2>4. \A m \in Nodes : Listed(m) => zyre'[m] = zyre[m]
    BY <2>1, <2>2
  <2>5. QED
    BY <2>2, <2>3, <2>4, OthersKeepOnce
<1>5. ASSUME NEW n \in Nodes, Return(n) PROVE Once'
  BY <1>5, ReturnKeepsOnce
<1>6. CASE Stop
  BY <1>6, StopKeepsOnce
<1>7. CASE ExampleEnds \/ HookEnds \/ UNCHANGED vars
  BY <1>7, OthersKeepOnce DEF ExampleEnds, HookEnds, vars
<1>8. QED
  BY <1>2, <1>3, <1>4, <1>5, <1>6, <1>7 DEF Next

LEMMA OnceInvariance == Spec => []Once
<1>1. Init => Once
  <2> SUFFICES ASSUME Init PROVE Once
    OBVIOUS
  <2>1. DOMAIN startedNodes = {}
    BY EmptySeq DEF Init
  <2>2. QED
    BY <2>1 DEF Init, Once, StopsEachOnce
<1>2. QED
  BY <1>1, OnceStep, Invariance, PTL DEF Spec

\* The hook stops each node that started_node returned once, and each of them runs
\* until its turn, for any number of nodes and nested calls (testing.rb:247-249, 277).
THEOREM HookStopsEachOnce == Spec => []StopsEachOnce
<1>1. Once => StopsEachOnce
  BY DEF Once
<1>2. QED
  BY OnceInvariance, <1>1, PTL

\* While the example runs, any two nodes that started_node returned have met or can
\* meet: what NodesMeet asks of libzyre is never ruled out by what the calls have done,
\* unless an exception ended the call that was to bind the hub (testing.rb:263-280).
THEOREM ListedCanMeet ==
    Spec => [](example = "running" /\ binder \notin interrupted =>
                   \A n, m \in Nodes : Listed(n) /\ Listed(m) => CanMeet(n, m))
<1> DEFINE Meets == example = "running" /\ binder \notin interrupted =>
                        \A n, m \in Nodes : Listed(n) /\ Listed(m) => CanMeet(n, m)
<1>1. Inv /\ Once /\ HubServes => Meets
  <2> SUFFICES ASSUME Inv, Once, HubServes, example = "running", binder \notin interrupted,
                      NEW n \in Nodes, NEW m \in Nodes, Listed(n), Listed(m)
               PROVE  CanMeet(n, m)
    OBVIOUS
  <2>1. ASSUME NEW k \in Nodes, Listed(k) PROVE zyre[k] = "started"
    <3>1. PICK i \in DOMAIN startedNodes : startedNodes[i] = k
      BY <2>1 DEF Listed
    <3>2. ~(i <= stops)
      BY ListFacts DEF Once
    <3>3. QED
      BY <3>1, <3>2 DEF Once, StopsEachOnce
  <2>2. QED
    BY <2>1 DEF HubServes, CanMeet
<1> HIDE DEF Meets
<1>2. Spec => []Meets
  BY <1>1, Invariance, OnceInvariance, HubIsThere, PTL
<1>3. QED
  BY <1>2 DEF Meets

=============================================================================
