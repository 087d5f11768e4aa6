-------------------------- MODULE ZmsgBuildProofs --------------------------
(***************************************************************************)
(* What holds of ZmsgBuild for all workers, parts and messages: what the   *)
(* static variable cannot break, and what it breaks only when two calls    *)
(* overlap.                                                                *)
(***************************************************************************)
EXTENDS ZmsgBuild, SequenceTheorems, TLAPS

(***************************************************************************)
(* Types.                                                                  *)
(***************************************************************************)

\* Changing one zmsg of a list of them.
LEMMA ChangeZmsg ==
    ASSUME NEW S, NEW s \in Seq(S), NEW m, NEW x, m \in 1..Len(s) => x \in S
    PROVE  [s EXCEPT ![m] = x] \in Seq(S)
<1>1. CASE m \in 1..Len(s)
  BY <1>1, ExceptSeq
<1>2. CASE m \notin 1..Len(s)
  BY <1>2, LenProperties
<1>3. QED
  BY <1>1, <1>2

LEMMA ZmsgType ==
    ASSUME TypeOK, NEW m \in 1..Len(msgs)
    PROVE  msgs[m] \in Zmsgs
  BY ElementOfSeq DEF TypeOK

LEMMA StateChangeType ==
    ASSUME TypeOK, NEW m, NEW st \in States, msgs' = [msgs EXCEPT ![m].state = st]
    PROVE  msgs' \in Seq(Zmsgs)
<1> DEFINE x == [msgs[m] EXCEPT !.state = st]
<1>1. m \in 1..Len(msgs) => x \in Zmsgs
  BY ZmsgType DEF Zmsgs
<1>2. msgs' = [msgs EXCEPT ![m] = x] /\ msgs \in Seq(Zmsgs)
  BY DEF TypeOK
<1> HIDE DEF x
<1>3. [msgs EXCEPT ![m] = x] \in Seq(Zmsgs)
  BY <1>1, <1>2, ChangeZmsg
<1>4. QED
  BY <1>2, <1>3

LEMMA FrameType ==
    ASSUME TypeOK, NEW m, NEW p \in Parts,
           msgs' = [msgs EXCEPT ![m].frames = Append(@, p)]
    PROVE  msgs' \in Seq(Zmsgs)
<1> DEFINE x == [msgs[m] EXCEPT !.frames = Append(@, p)]
<1>1. ASSUME m \in 1..Len(msgs) PROVE x \in Zmsgs
  <2>1. msgs[m] \in Zmsgs /\ Append(msgs[m].frames, p) \in Seq(Parts)
    BY <1>1, ZmsgType, AppendProperties DEF Zmsgs
  <2>2. QED
    BY <2>1 DEF Zmsgs
<1>2. msgs' = [msgs EXCEPT ![m] = x] /\ msgs \in Seq(Zmsgs)
  BY DEF TypeOK
<1> HIDE DEF x
<1>3. [msgs EXCEPT ![m] = x] \in Seq(Zmsgs)
  BY <1>1, <1>2, ChangeZmsg
<1>4. QED
  BY <1>2, <1>3

LEMMA TypeStep == TypeOK /\ [Next]_vars => TypeOK'
<1> SUFFICES ASSUME TypeOK, [Next]_vars PROVE TypeOK'
  OBVIOUS
<1> USE PartsAssumption
<1>1. ASSUME NEW w \in Workers, NEW parts \in Messages,
             NEW d \in {"sent", "kept"}, Start(w, parts, d)
      PROVE TypeOK'
  <2>1. [frames |-> <<>>, state |-> "building", asked |-> parts] \in Zmsgs
    BY EmptySeq DEF Zmsgs, States
  <2>2. msgs' \in Seq(Zmsgs)
    BY <1>1, <2>1, AppendProperties DEF Start, TypeOK
  <2>3. Len(msgs) + 1 \in Nat
    BY LenProperties DEF TypeOK
  <2>4. static' \in [msg : Nat, parts : Seq(Parts)]
    BY <1>1, <2>3 DEF Start
  <2>5. overlapped' \subseteq Nat
    BY <1>1, <2>3 DEF Start, Running, TypeOK
  <2>6. /\ gvl' = w /\ pc' = [pc EXCEPT ![w] = "loop"]
        /\ own' = [own EXCEPT ![w] = Len(msgs) + 1]
        /\ dest' = [dest EXCEPT ![w] = d] /\ i' = [i EXCEPT ![w] = 1]
        /\ part' = part /\ target' = target /\ stray' = stray
    BY <1>1 DEF Start, Goto
  <2>7. QED
    BY <2>2, <2>3, <2>4, <2>5, <2>6 DEF TypeOK, Points
<1>2. ASSUME NEW w \in Workers, Fetch(w) PROVE TypeOK'
  <2>1. static.parts \in Seq(Parts) /\ static.msg \in Nat /\ i[w] \in Nat \ {0}
    BY DEF TypeOK
  <2>2. static.parts[i[w]] \in Parts
    BY <1>2, <2>1, LenProperties, ElementOfSeq DEF Fetch
  <2>3. target' \in [Workers -> Nat]
    BY <1>2, <2>1 DEF Fetch, TypeOK, Later
  <2>4. QED
    BY <1>2, <2>2, <2>3 DEF Fetch, Goto, TypeOK, Points
<1>3. ASSUME NEW w \in Workers, Finish(w) PROVE TypeOK'
  <2>1. msgs' \in Seq(Zmsgs)
    <3>1. dest[w] \in States
      BY DEF TypeOK, States
    <3>2. QED
      BY <1>3, <3>1, StateChangeType DEF Finish
  <2>2. QED
    BY <1>3, <2>1 DEF Finish, Goto, TypeOK, Points
<1>4. ASSUME NEW w \in Workers, Release(w) PROVE TypeOK'
  BY <1>4 DEF Release, Goto, TypeOK, Points
<1>5. ASSUME NEW w \in Workers, Resume(w) PROVE TypeOK'
  BY <1>5 DEF Resume, Goto, TypeOK, Points
<1>6. ASSUME NEW w \in Workers, Raise(w) PROVE TypeOK'
  <2>1. msgs' \in Seq(Zmsgs)
    BY <1>6, StateChangeType DEF Raise, States
  <2>2. QED
    BY <1>6, <2>1 DEF Raise, Goto, TypeOK, Points
<1>7. ASSUME NEW w \in Workers, AddFrame(w) PROVE TypeOK'
  <2>1. part[w] \in Parts
    BY DEF TypeOK
  <2>2. msgs' \in Seq(Zmsgs)
    <3>1. CASE Exists(Target(w))
      BY <1>7, <2>1, <3>1, FrameType DEF AddFrame
    <3>2. CASE ~Exists(Target(w))
      BY <1>7, <3>2 DEF AddFrame, TypeOK
    <3>3. QED
      BY <3>1, <3>2
  <2>3. i' \in [Workers -> Nat \ {0}]
    BY <1>7 DEF AddFrame, TypeOK
  <2>4. stray' \subseteq Nat
    BY <1>7 DEF AddFrame, TypeOK
  <2>5. QED
    BY <1>7, <2>2, <2>3, <2>4 DEF AddFrame, Goto, TypeOK, Points
<1>8. CASE UNCHANGED vars
  BY <1>8 DEF vars, TypeOK
<1>9. QED
  BY <1>1, <1>2, <1>3, <1>4, <1>5, <1>6, <1>7, <1>8 DEF Next

\* The invariant of the runs: every variable keeps its type (zyre_ext.c:75-124).
THEOREM TypeCorrect == Spec => []TypeOK
<1>1. Init => TypeOK
  <2>1. AnyPart \in Parts
    BY PartsAssumption DEF AnyPart
  <2>2. <<>> \in Seq(Parts) /\ <<>> \in Seq(Zmsgs)
    BY EmptySeq
  <2>3. ASSUME Init
        PROVE  /\ gvl \in Workers \cup {Nobody}
               /\ static \in [msg : Nat, parts : Seq(Parts)]
               /\ msgs \in Seq(Zmsgs)
               /\ overlapped \subseteq Nat /\ stray \subseteq Nat
    BY <2>2, <2>3 DEF Init, Later
  <2>4. ASSUME Init
        PROVE  /\ pc \in [Workers -> Points]
               /\ own \in [Workers -> Nat]
               /\ dest \in [Workers -> {"sent", "kept"}]
               /\ i \in [Workers -> Nat \ {0}]
               /\ part \in [Workers -> Parts]
               /\ target \in [Workers -> Nat]
    BY <2>1, <2>4 DEF Init, Points, Later
  <2>5. QED
    BY <2>3, <2>4 DEF TypeOK
<1>2. QED
  BY <1>1, TypeStep, PTL DEF Spec

(***************************************************************************)
(* The zmsg of a call that an exception ends.                              *)
(***************************************************************************)

\* Each running worker has an unfinished zmsg of its own, and every unfinished
\* zmsg has its worker.
Owned ==
    /\ \A w \in Workers : pc[w] # "idle" =>
           own[w] \in 1..Len(msgs) /\ msgs[own[w]].state = "building"
    /\ \A v, w \in Workers :
           pc[v] # "idle" /\ pc[w] # "idle" /\ own[v] = own[w] => v = w
    /\ \A m \in 1..Len(msgs) : msgs[m].state = "building" =>
           \E w \in Workers : pc[w] # "idle" /\ own[w] = m

\* A worker finishes its own zmsg, one way or the other.
LEMMA EndKeepsOwned ==
    ASSUME TypeOK, Owned, NEW w \in Workers, pc[w] # "idle",
           NEW st \in States \ {"building"},
           msgs' = [msgs EXCEPT ![own[w]].state = st],
           pc' = [pc EXCEPT ![w] = "idle"], own' = own
    PROVE  Owned'
<1> DEFINE o == own[w]
           x == [msgs[o] EXCEPT !.state = st]
<1>1. o \in 1..Len(msgs) /\ msgs[o] \in Zmsgs /\ msgs \in Seq(Zmsgs)
  BY ZmsgType DEF Owned, TypeOK
<1>2. x \in Zmsgs /\ x.state = st
  BY <1>1 DEF Zmsgs
<1>3. msgs' = [msgs EXCEPT ![o] = x]
  OBVIOUS
<1> HIDE DEF x
<1>4. Len(msgs') = Len(msgs) /\ \A m \in 1..Len(msgs) :
          msgs'[m] = IF m = o THEN x ELSE msgs[m]
  BY <1>1, <1>2, <1>3, ExceptSeq
<1>5. msgs'[o].state = st /\ \A m \in 1..Len(msgs) : m # o => msgs'[m] = msgs[m]
  BY <1>1, <1>2, <1>4
<1>6. \A v \in Workers : /\ pc'[v] # "idle" => pc[v] # "idle" /\ v # w
                         /\ v # w => pc'[v] = pc[v]
  BY DEF TypeOK
<1>7. QED
  BY <1>1, <1>4, <1>5, <1>6 DEF Owned

\* No zmsg is begun or finished, and no worker begins or ends.
LEMMA SameStatesKeepOwned ==
    ASSUME TypeOK, Owned, own' = own, Len(msgs') = Len(msgs),
           \A m \in 1..Len(msgs) : msgs'[m].state = msgs[m].state,
           \A v \in Workers : pc'[v] = "idle" <=> pc[v] = "idle"
    PROVE  Owned'
  BY DEF Owned

LEMMA OwnedStep == TypeOK /\ Owned /\ [Next]_vars => Owned'
<1> SUFFICES ASSUME TypeOK, Owned, [Next]_vars PROVE Owned'
  OBVIOUS
<1>1. ASSUME NEW w \in Workers, NEW parts \in Messages,
             NEW d \in {"sent", "kept"}, Start(w, parts, d)
      PROVE Owned'
  <2> DEFINE x == [frames |-> <<>>, state |-> "building", asked |-> parts]
  <2>1. x \in Zmsgs /\ msgs \in Seq(Zmsgs) /\ Len(msgs) \in Nat
    BY EmptySeq, LenProperties DEF Zmsgs, States, TypeOK
  <2>2. msgs' = Append(msgs, x) /\ x.state = "building"
    BY <1>1 DEF Start
  <2> HIDE DEF x
  <2>3. Len(msgs') = Len(msgs) + 1 /\ msgs'[Len(msgs) + 1].state = "building"
        /\ \A m \in 1..Len(msgs) : msgs'[m] = msgs[m]
    BY <2>1, <2>2, AppendProperties
  <2>4. /\ pc[w] = "idle" /\ pc'[w] # "idle" /\ own'[w] = Len(msgs) + 1
        /\ \A v \in Workers \ {w} : pc'[v] = pc[v] /\ own'[v] = own[v]
    BY <1>1 DEF Start, Goto, TypeOK
  <2>5. \A v \in Workers : pc'[v] # "idle" =>
            own'[v] \in 1..Len(msgs') /\ msgs'[own'[v]].state = "building"
    BY <2>1, <2>3, <2>4 DEF Owned
  <2>6. \A u, v \in Workers :
            pc'[u] # "idle" /\ pc'[v] # "idle" /\ own'[u] = own'[v] => u = v
    BY <2>1, <2>4 DEF Owned
  <2>7. \A m \in 1..Len(msgs') : msgs'[m].state = "building" =>
            \E v \in Workers : pc'[v] # "idle" /\ own'[v] = m
    BY <2>1, <2>3, <2>4 DEF Owned
  <2>8. QED
    BY <2>5, <2>6, <2>7 DEF Owned
<1>2. ASSUME NEW w \in Workers, Fetch(w) \/ Release(w) \/ Resume(w) PROVE Owned'
  <2>1. msgs' = msgs /\ own' = own
        /\ \A v \in Workers : pc'[v] = "idle" <=> pc[v] = "idle"
    BY <1>2 DEF Fetch, Release, Resume, Goto, TypeOK
  <2>2. QED
    BY <2>1, SameStatesKeepOwned
<1>3. ASSUME NEW w \in Workers, Finish(w) PROVE Owned'
  <2>1. dest[w] \in States \ {"building"}
    BY DEF TypeOK, States
  <2>2. QED
    BY <1>3, <2>1, EndKeepsOwned DEF Finish, Goto
<1>4. ASSUME NEW w \in Workers, Raise(w) PROVE Owned'
  <2>1. pc[w] # "idle" /\ pc' = [pc EXCEPT ![w] = "idle"] /\ own' = own
        /\ msgs' = [msgs EXCEPT ![own[w]].state = "freed"]
    BY <1>4 DEF Raise, Converted, Goto
  <2>2. "freed" \in States \ {"building"}
    BY DEF States
  <2>3. QED
    BY <2>1, <2>2, EndKeepsOwned
<1>5. ASSUME NEW w \in Workers, AddFrame(w) PROVE Owned'
  <2>1. own' = own /\ \A v \in Workers : pc'[v] = "idle" <=> pc[v] = "idle"
    BY <1>5 DEF AddFrame, Converted, Goto, TypeOK
  <2>2. Len(msgs') = Len(msgs)
        /\ \A m \in 1..Len(msgs) : msgs'[m].state = msgs[m].state
    <3>1. CASE Exists(Target(w))
      <4> DEFINE t == Target(w)
                 x == [msgs[t] EXCEPT !.frames = Append(@, part[w])]
      <4>1. CASE t \in 1..Len(msgs)
        <5>1. msgs[t] \in Zmsgs /\ msgs \in Seq(Zmsgs) /\ part[w] \in Parts
          BY <4>1, ZmsgType DEF TypeOK
        <5>2. x \in Zmsgs /\ x.state = msgs[t].state
          BY <5>1, AppendProperties DEF Zmsgs
        <5>3. msgs' = [msgs EXCEPT ![t] = x]
          BY <1>5, <3>1 DEF AddFrame
        <5> HIDE DEF x, t
        <5>4. QED
          BY <4>1, <5>1, <5>2, <5>3, ExceptSeq
      <4>2. CASE t \notin 1..Len(msgs)
        <5>1. msgs' = msgs
          BY <1>5, <3>1, <4>2, LenProperties DEF AddFrame, TypeOK
        <5>2. QED
          BY <5>1
      <4>3. QED
        BY <4>1, <4>2
    <3>2. CASE ~Exists(Target(w))
      BY <1>5, <3>2 DEF AddFrame
    <3>3. QED
      BY <3>1, <3>2
  <2>3. QED
    BY <2>1, <2>2, SameStatesKeepOwned
<1>6. CASE UNCHANGED vars
  BY <1>6 DEF vars, Owned
<1>7. QED
  BY <1>1, <1>2, <1>3, <1>4, <1>5, <1>6 DEF Next

\* The invariant of the runs, however calls overlap: whatever the static
\* variable holds, the zmsg of a call that a conversion ends is the one it
\* destroys (zyre_ext.c:116-121).
THEOREM ExceptionsLeaveNoZmsg == Spec => []NoOrphan
<1>1. Init => Owned
  BY DEF Init, Owned
<1>2. TypeOK /\ Owned => NoOrphan
  <2> SUFFICES ASSUME TypeOK, Owned, NEW m \in DOMAIN msgs,
                      msgs[m].state = "building"
               PROVE  \E w \in Workers :
                          /\ pc[w] # "idle" /\ own[w] = m
                          /\ \A v \in Workers \ {w} : pc[v] = "idle" \/ own[v] # m
    BY DEF NoOrphan
  <2>1. m \in 1..Len(msgs)
    BY LenProperties DEF TypeOK
  <2>2. PICK w \in Workers : pc[w] # "idle" /\ own[w] = m
    BY <2>1 DEF Owned
  <2>3. \A v \in Workers \ {w} : pc[v] = "idle" \/ own[v] # m
    BY <2>2 DEF Owned
  <2>4. QED
    BY <2>2, <2>3
<1>3. QED
  BY <1>1, <1>2, OwnedStep, TypeCorrect, PTL DEF Spec

(***************************************************************************)
(* The frames of a zmsg that no other call came in between.                *)
(***************************************************************************)

\* How far the worker w has come, when no other has run since it began.
Filled(w) ==
    LET m == msgs[own[w]]
    IN  /\ static.msg = own[w] /\ m.asked = static.parts
        /\ Len(m.frames) = i[w] - 1
        /\ i[w] - 1 <= Len(static.parts)
        /\ \A j \in 1..(i[w] - 1) : m.frames[j] = static.parts[j]
        /\ pc[w] # "loop" => /\ i[w] <= Len(static.parts)
                             /\ part[w] = static.parts[i[w]]
                             /\ target[w] \in {Later, own[w]}

\* A worker that overlaps another puts its frames into zmsgs that overlap.
Mixed(w) ==
    /\ static.msg \in overlapped
    /\ pc[w] # "loop" => target[w] \in overlapped \cup {Later}

Alone(w) == \A v \in Workers : pc[v] # "idle" => v = w

Sound(w) ==
    IF own[w] \in overlapped THEN Mixed(w) ELSE Filled(w) /\ Alone(w)

Complete ==
    /\ \A m \in 1..Len(msgs) :
           m \notin overlapped /\ msgs[m].state \in {"sent", "kept"}
               => msgs[m].frames = msgs[m].asked
    /\ stray \subseteq overlapped
    /\ overlapped \subseteq 1..Len(msgs)

GoodInv ==
    /\ \A w \in Workers : pc[w] # "idle" => Sound(w)
    /\ Complete

\* The end of the worker w leaves its frames as they are.
LEMMA EndEffect ==
    ASSUME TypeOK, Owned, NEW w \in Workers, pc[w] # "idle", NEW st \in States,
           msgs' = [msgs EXCEPT ![own[w]].state = st]
    PROVE  /\ Len(msgs') = Len(msgs) /\ own[w] \in 1..Len(msgs)
           /\ msgs'[own[w]].state = st
           /\ msgs'[own[w]].frames = msgs[own[w]].frames
           /\ msgs'[own[w]].asked = msgs[own[w]].asked
           /\ \A m \in 1..Len(msgs) : m # own[w] => msgs'[m] = msgs[m]
<1> DEFINE o == own[w]
           x == [msgs[o] EXCEPT !.state = st]
<1>1. o \in 1..Len(msgs) /\ msgs[o] \in Zmsgs /\ msgs \in Seq(Zmsgs)
  BY ZmsgType DEF Owned, TypeOK
<1>2. x \in Zmsgs /\ x.state = st /\ x.frames = msgs[o].frames
      /\ x.asked = msgs[o].asked
  BY <1>1 DEF Zmsgs
<1>3. msgs' = [msgs EXCEPT ![o] = x]
  OBVIOUS
<1> HIDE DEF x
<1>4. Len(msgs') = Len(msgs) /\ \A m \in 1..Len(msgs) :
          msgs'[m] = IF m = o THEN x ELSE msgs[m]
  BY <1>1, <1>2, <1>3, ExceptSeq
<1>5. msgs'[o] = x /\ \A m \in 1..Len(msgs) : m # o => msgs'[m] = msgs[m]
  BY <1>1, <1>4
<1>6. QED
  BY <1>1, <1>2, <1>4, <1>5

\* A frame added to the worker's own zmsg.
LEMMA FrameEffect ==
    ASSUME TypeOK, Owned, NEW w \in Workers, pc[w] # "idle", NEW p \in Parts,
           msgs' = [msgs EXCEPT ![own[w]].frames = Append(@, p)]
    PROVE  /\ Len(msgs') = Len(msgs) /\ own[w] \in 1..Len(msgs)
           /\ msgs'[own[w]].state = msgs[own[w]].state
           /\ msgs'[own[w]].frames = Append(msgs[own[w]].frames, p)
           /\ msgs'[own[w]].asked = msgs[own[w]].asked
           /\ \A m \in 1..Len(msgs) : m # own[w] => msgs'[m] = msgs[m]
<1> DEFINE o == own[w]
           x == [msgs[o] EXCEPT !.frames = Append(@, p)]
<1>1. o \in 1..Len(msgs) /\ msgs[o] \in Zmsgs /\ msgs \in Seq(Zmsgs)
  BY ZmsgType DEF Owned, TypeOK
<1>2. Append(msgs[o].frames, p) \in Seq(Parts)
  BY <1>1, AppendProperties DEF Zmsgs
<1>3. x \in Zmsgs /\ x.state = msgs[o].state /\ x.asked = msgs[o].asked
      /\ x.frames = Append(msgs[o].frames, p)
  BY <1>1, <1>2 DEF Zmsgs
<1>4. msgs' = [msgs EXCEPT ![o] = x]
  OBVIOUS
<1> HIDE DEF x
<1>5. Len(msgs') = Len(msgs) /\ \A m \in 1..Len(msgs) :
          msgs'[m] = IF m = o THEN x ELSE msgs[m]
  BY <1>1, <1>3, <1>4, ExceptSeq
<1>6. msgs'[o] = x /\ \A m \in 1..Len(msgs) : m # o => msgs'[m] = msgs[m]
  BY <1>1, <1>5
<1>7. QED
  BY <1>1, <1>3, <1>5, <1>6

LEMMA GoodStart ==
    ASSUME TypeOK, Owned, GoodInv, NEW w \in Workers,
           NEW parts \in Messages, NEW d \in {"sent", "kept"}, Start(w, parts, d)
    PROVE  GoodInv'
<1> DEFINE n == Len(msgs) + 1
           x == [frames |-> <<>>, state |-> "building", asked |-> parts]
<1>1. x \in Zmsgs /\ msgs \in Seq(Zmsgs) /\ Len(msgs) \in Nat
      /\ parts \in Seq(Parts) /\ Len(parts) \in Nat
  BY EmptySeq, LenProperties, PartsAssumption DEF Zmsgs, States, TypeOK
<1>2. msgs' = Append(msgs, x)
  BY DEF Start
<1>3. x.frames = <<>> /\ x.state = "building" /\ x.asked = parts /\ Len(x.frames) = 0
  OBVIOUS
<1> HIDE DEF x
<1>4. Len(msgs') = n /\ msgs'[n] = x /\ \A m \in 1..Len(msgs) : msgs'[m] = msgs[m]
  BY <1>1, <1>2, AppendProperties
<1>5. /\ static'.msg = n /\ static'.parts = parts /\ own'[w] = n /\ i'[w] = 1
      /\ pc[w] = "idle" /\ pc'[w] = "loop" /\ stray' = stray /\ target' = target
      /\ \A v \in Workers : v # w => pc'[v] = pc[v] /\ own'[v] = own[v]
  BY DEF Start, Goto, TypeOK
<1>6. overlapped \subseteq 1..Len(msgs) /\ overlapped \subseteq overlapped'
      /\ overlapped' \subseteq 1..n
  <2>1. overlapped \subseteq 1..Len(msgs)
    BY DEF GoodInv, Complete
  <2>2. \A v \in Running : own[v] \in 1..Len(msgs)
    BY DEF Running, Owned
  <2>3. overlapped' = IF Running = {} THEN overlapped
                     ELSE overlapped \cup {own[v] : v \in Running} \cup {n}
    BY DEF Start
  <2>4. 1..Len(msgs) \subseteq 1..n /\ n \in 1..n
    BY <1>1
  <2>5. CASE Running = {}
    BY <2>1, <2>3, <2>4, <2>5
  <2>6. CASE Running # {}
    <3>1. overlapped' = overlapped \cup {own[v] : v \in Running} \cup {n}
      BY <2>3, <2>6
    <3>2. {own[v] : v \in Running} \subseteq 1..n
      BY <2>2, <2>4
    <3> HIDE DEF n
    <3>3. QED
      BY <2>1, <2>4, <3>1, <3>2
  <2>7. QED
    BY <2>5, <2>6
<1>7. Complete'
  <2>1. ASSUME NEW m \in 1..n, m \notin overlapped', msgs'[m].state \in {"sent", "kept"}
        PROVE  msgs'[m].frames = msgs'[m].asked
    <3>1. m # n
      BY <1>3, <1>4, <2>1
    <3>2. m \in 1..Len(msgs)
      BY <1>1, <3>1
    <3>3. msgs'[m] = msgs[m] /\ m \notin overlapped
      BY <1>4, <1>6, <2>1, <3>2
    <3>4. QED
      BY <2>1, <3>2, <3>3 DEF GoodInv, Complete
  <2>2. stray' \subseteq overlapped'
    BY <1>5, <1>6 DEF GoodInv, Complete
  <2>3. 1..Len(msgs') = 1..n /\ overlapped' \subseteq 1..n
    BY <1>4, <1>6
  <2> HIDE DEF n
  <2>4. QED
    BY <2>1, <2>2, <2>3 DEF Complete
<1>8. CASE Running = {}
  <2>1. \A v \in Workers : pc'[v] # "idle" => v = w
    BY <1>5, <1>8 DEF Running
  <2>2. own'[w] \notin overlapped'
    BY <1>1, <1>5, <1>6, <1>8 DEF Start
  <2>3. Filled(w)'
    BY <1>1, <1>3, <1>4, <1>5 DEF Filled
  <2>4. Sound(w)'
    BY <2>1, <2>2, <2>3 DEF Sound, Alone
  <2>5. QED
    BY <1>7, <2>1, <2>4 DEF GoodInv
<1>9. CASE Running # {}
  <2>1. n \in overlapped' /\ \A v \in Running : own[v] \in overlapped'
    BY <1>9 DEF Start
  <2>2. ASSUME NEW v \in Workers, pc'[v] # "idle" PROVE Sound(v)'
    <3>1. CASE v = w
      BY <1>5, <2>1, <3>1 DEF Sound, Mixed
    <3>2. CASE v # w
      <4>1. v \in Running /\ own'[v] \in overlapped' /\ own[v] = own'[v]
        BY <1>5, <2>1, <2>2, <3>2 DEF Running
      <4>2. Sound(v)
        BY <4>1 DEF GoodInv, Running
      <4>3. pc[v] # "loop" => target[v] \in overlapped' \cup {Later}
        BY <1>6, <4>1, <4>2, <2>1 DEF Sound, Mixed, Filled
      <4>4. QED
        BY <1>5, <2>1, <3>2, <4>1, <4>3 DEF Sound, Mixed
    <3>3. QED
      BY <3>1, <3>2
  <2>3. QED
    BY <1>7, <2>2 DEF GoodInv
<1>10. QED
  BY <1>8, <1>9

\* What the steps of a running worker leave alone: the others that run overlap it.
LEMMA Others ==
    ASSUME TypeOK, Owned, GoodInv, NEW w \in Workers, pc[w] # "idle",
           static' = static, own' = own, overlapped' = overlapped,
           NEW p, pc' = [pc EXCEPT ![w] = p],
           \A v \in Workers \ {w} : target'[v] = target[v]
    PROVE  /\ \A v \in Workers : v # w /\ pc'[v] # "idle" => Sound(v)'
           /\ Alone(w) => Alone(w)'
           /\ pc'[w] = p
<1>1. pc'[w] = p /\ \A v \in Workers : v # w => pc'[v] = pc[v]
  BY DEF TypeOK
<1>2. ASSUME NEW v \in Workers, v # w, pc'[v] # "idle" PROVE Sound(v)'
  <2>1. Sound(v) /\ ~Alone(v)
    BY <1>1, <1>2 DEF GoodInv, Alone
  <2>2. own[v] \in overlapped /\ Mixed(v)
    BY <2>1 DEF Sound
  <2>3. QED
    BY <1>1, <1>2, <2>2 DEF Sound, Mixed
<1>3. QED
  BY <1>1, <1>2 DEF Alone

\* What is known of a running worker.
LEMMA Progress ==
    ASSUME TypeOK, Owned, GoodInv, NEW w \in Workers, pc[w] # "idle"
    PROVE  /\ Sound(w) /\ i[w] \in Nat \ {0}
           /\ own[w] \in 1..Len(msgs) /\ msgs[own[w]] \in Zmsgs
           /\ msgs[own[w]].state = "building"
           /\ static.parts \in Seq(Parts) /\ Len(static.parts) \in Nat
  BY ZmsgType, LenProperties DEF Owned, GoodInv, TypeOK

LEMMA GoodFetch ==
    ASSUME TypeOK, Owned, GoodInv, NEW w \in Workers, Fetch(w)
    PROVE  GoodInv'
<1>1. /\ pc[w] = "loop" /\ pc' = [pc EXCEPT ![w] = "convert"]
      /\ i[w] <= Len(static.parts) /\ part'[w] = static.parts[i[w]]
      /\ target'[w] \in {static.msg, Later}
      /\ \A v \in Workers \ {w} : target'[v] = target[v]
      /\ static' = static /\ msgs' = msgs /\ own' = own /\ i' = i /\ stray' = stray
      /\ overlapped' = overlapped
  BY DEF Fetch, Goto, TypeOK
<1>2. /\ \A v \in Workers : v # w /\ pc'[v] # "idle" => Sound(v)'
      /\ Alone(w) => Alone(w)'
      /\ pc'[w] = "convert"
  BY <1>1, Others
<1>3. Sound(w)
  BY <1>1 DEF GoodInv
<1>4. Filled(w) => Filled(w)'
  BY <1>1, <1>2 DEF Filled
<1>5. Mixed(w) => Mixed(w)'
  BY <1>1 DEF Mixed
<1>6. Sound(w)'
  BY <1>1, <1>2, <1>3, <1>4, <1>5 DEF Sound
<1>7. QED
  BY <1>1, <1>2, <1>6 DEF GoodInv, Complete

LEMMA GoodWait ==
    ASSUME TypeOK, Owned, GoodInv, NEW w \in Workers, Release(w) \/ Resume(w)
    PROVE  GoodInv'
<1>1. PICK p \in {"converting", "converted"} :
         /\ pc[w] \notin {"idle", "loop"} /\ pc' = [pc EXCEPT ![w] = p]
         /\ static' = static /\ msgs' = msgs /\ own' = own /\ i' = i /\ stray' = stray
         /\ part' = part /\ target' = target /\ overlapped' = overlapped
  BY DEF Release, Resume, Goto
<1>2. /\ \A v \in Workers : v # w /\ pc'[v] # "idle" => Sound(v)'
      /\ Alone(w) => Alone(w)'
      /\ pc'[w] = p
  BY <1>1, Others
<1>3. Sound(w)
  BY <1>1 DEF GoodInv
<1>4. Filled(w) => Filled(w)'
  BY <1>1, <1>2 DEF Filled
<1>5. Mixed(w) => Mixed(w)'
  BY <1>1 DEF Mixed
<1>6. Sound(w)'
  BY <1>1, <1>2, <1>3, <1>4, <1>5 DEF Sound
<1>7. QED
  BY <1>1, <1>2, <1>6 DEF GoodInv, Complete

\* At the end of the loop the frames are the parts that were asked for.
LEMMA GoodFinish ==
    ASSUME TypeOK, Owned, GoodInv, NEW w \in Workers, Finish(w)
    PROVE  GoodInv'
<1> DEFINE m == msgs[own[w]]
<1>1. /\ pc[w] = "loop" /\ pc' = [pc EXCEPT ![w] = "idle"]
      /\ i[w] > Len(static.parts) /\ stray' = stray /\ target' = target
      /\ static' = static /\ own' = own /\ overlapped' = overlapped
      /\ msgs' = [msgs EXCEPT ![own[w]].state = dest[w]] /\ dest[w] \in States
  BY DEF Finish, Goto, TypeOK, States
<1>2. \A v \in Workers : pc'[v] # "idle" => Sound(v)'
  BY <1>1, Others
<1>3. ASSUME own[w] \notin overlapped PROVE m.frames = m.asked
  <2>1. Filled(w)
    BY <1>1, <1>3, Progress DEF Sound
  <2>2. m.frames \in Seq(Parts) /\ m.asked \in Seq(Parts)
    BY <1>1, Progress, PartsAssumption DEF Zmsgs
  <2>3. Len(m.frames) = Len(m.asked)
        /\ \A j \in 1..Len(m.frames) : m.frames[j] = m.asked[j]
    BY <1>1, <2>1, Progress DEF Filled
  <2>4. QED
    BY <2>2, <2>3, SeqEqual
<1>4. /\ Len(msgs') = Len(msgs) /\ own[w] \in 1..Len(msgs)
      /\ msgs'[own[w]].frames = m.frames /\ msgs'[own[w]].asked = m.asked
      /\ \A k \in 1..Len(msgs) : k # own[w] => msgs'[k] = msgs[k]
  BY <1>1, EndEffect
<1>5. QED
  BY <1>1, <1>2, <1>3, <1>4 DEF GoodInv, Complete

LEMMA GoodRaise ==
    ASSUME TypeOK, Owned, GoodInv, NEW w \in Workers, Raise(w)
    PROVE  GoodInv'
<1>1. /\ pc[w] # "idle" /\ pc' = [pc EXCEPT ![w] = "idle"] /\ stray' = stray
      /\ static' = static /\ own' = own /\ overlapped' = overlapped
      /\ target' = target
      /\ msgs' = [msgs EXCEPT ![own[w]].state = "freed"] /\ "freed" \in States
  BY DEF Raise, Converted, Goto, States
<1>2. \A v \in Workers : pc'[v] # "idle" => Sound(v)'
  BY <1>1, Others
<1>3. /\ Len(msgs') = Len(msgs) /\ msgs'[own[w]].state = "freed"
      /\ \A k \in 1..Len(msgs) : k # own[w] => msgs'[k] = msgs[k]
  BY <1>1, EndEffect
<1>4. QED
  BY <1>1, <1>2, <1>3 DEF GoodInv, Complete

\* A worker that overlaps another adds its frame to a zmsg that overlaps, or to
\* none.
LEMMA GoodMixedFrame ==
    ASSUME TypeOK, Owned, GoodInv, NEW w \in Workers, AddFrame(w),
           own[w] \in overlapped
    PROVE  GoodInv'
<1> DEFINE t == Target(w)
<1>1. /\ pc[w] \notin {"idle", "loop"} /\ pc' = [pc EXCEPT ![w] = "loop"]
      /\ static' = static /\ own' = own /\ overlapped' = overlapped
      /\ target' = target /\ part[w] \in Parts
      /\ stray' = stray \/ stray' = stray \cup {own[w]}
  BY DEF AddFrame, Converted, Goto, TypeOK
<1>2. Mixed(w)
  BY <1>1 DEF GoodInv, Sound
<1>3. t \in overlapped /\ t \in 1..Len(msgs)
  BY <1>1, <1>2 DEF Mixed, Target, GoodInv, Complete
<1>4. \A v \in Workers : v # w /\ pc'[v] # "idle" => Sound(v)'
  BY <1>1, Others
<1>5. Sound(w)'
  <2>1. pc'[w] = "loop"
    BY <1>1 DEF TypeOK
  <2>2. QED
    BY <1>1, <1>2, <2>1 DEF Sound, Mixed
<1>6. Len(msgs') = Len(msgs) /\ \A k \in 1..Len(msgs) : k # t => msgs'[k] = msgs[k]
  <2>1. CASE ~Exists(t)
    BY <2>1 DEF AddFrame
  <2>2. CASE Exists(t)
    <3> DEFINE x == [msgs[t] EXCEPT !.frames = Append(@, part[w])]
    <3>1. msgs[t] \in Zmsgs /\ msgs \in Seq(Zmsgs)
      BY <1>3, ZmsgType DEF TypeOK
    <3>2. x \in Zmsgs
      BY <1>1, <3>1, AppendProperties DEF Zmsgs
    <3>3. msgs' = [msgs EXCEPT ![t] = x]
      BY <2>2 DEF AddFrame
    <3> HIDE DEF x, t
    <3>4. QED
      BY <1>3, <3>1, <3>2, <3>3, ExceptSeq
  <2>3. QED
    BY <2>1, <2>2
<1>7. Complete'
  BY <1>1, <1>3, <1>6 DEF GoodInv, Complete
<1>8. QED
  BY <1>4, <1>5, <1>7 DEF GoodInv

\* For one that is alone the static variable still holds its own zmsg, which is
\* unfinished.
LEMMA GoodAloneFrame ==
    ASSUME TypeOK, Owned, GoodInv, NEW w \in Workers, AddFrame(w),
           own[w] \notin overlapped
    PROVE  GoodInv'
<1>1. pc[w] \notin {"idle", "loop"}
  BY DEF AddFrame, Converted
<1>2. Filled(w) /\ Alone(w)
  BY <1>1, Progress DEF Sound
<1>3. Target(w) = own[w] /\ Exists(Target(w))
  BY <1>1, <1>2, Progress DEF Filled, Target, Later, Exists
<1>4. /\ msgs' = [msgs EXCEPT ![own[w]].frames = Append(@, part[w])]
      /\ pc' = [pc EXCEPT ![w] = "loop"] /\ i'[w] = i[w] + 1
      /\ static' = static /\ own' = own /\ stray' = stray /\ part[w] \in Parts
      /\ overlapped' = overlapped /\ target' = target
  BY <1>3 DEF AddFrame, Goto, TypeOK
<1>5. /\ \A v \in Workers : v # w /\ pc'[v] # "idle" => Sound(v)'
      /\ Alone(w)'
      /\ pc'[w] = "loop"
  BY <1>1, <1>2, <1>4, Others
<1>6. /\ Len(msgs') = Len(msgs)
      /\ msgs'[own[w]].state = "building"
      /\ msgs'[own[w]].frames = Append(msgs[own[w]].frames, part[w])
      /\ msgs'[own[w]].asked = msgs[own[w]].asked
      /\ \A k \in 1..Len(msgs) : k # own[w] => msgs'[k] = msgs[k]
  BY <1>1, <1>4, FrameEffect, Progress
<1> DEFINE f == msgs[own[w]].frames
           g == Append(f, part[w])
<1>7. Filled(w)'
  <2>1. f \in Seq(Parts) /\ Len(f) = i[w] - 1 /\ i[w] \in Nat \ {0}
        /\ \A j \in 1..(i[w] - 1) : f[j] = static.parts[j]
    BY <1>1, <1>2, Progress DEF Filled, Zmsgs
  <2>2. Len(g) = i[w] /\ g[i[w]] = part[w]
        /\ \A j \in 1..(i[w] - 1) : g[j] = f[j]
    <3>1. part[w] \in Parts
      BY <1>4
    <3>2. QED
      BY <2>1, <3>1, AppendProperties
  <2>3. i[w] <= Len(static.parts) /\ part[w] = static.parts[i[w]]
        /\ Len(static.parts) \in Nat
    BY <1>1, <1>2, Progress DEF Filled
  <2>4. \A j \in 1..i[w] : g[j] = static.parts[j]
    BY <2>1, <2>2, <2>3
  <2>5. /\ msgs'[own'[w]].frames = g
        /\ static'.msg = own'[w] /\ msgs'[own'[w]].asked = static'.parts
        /\ i'[w] - 1 = i[w] /\ static' = static
    <3>1. static.msg = own[w] /\ msgs[own[w]].asked = static.parts
      BY <1>2 DEF Filled
    <3>2. i'[w] - 1 = i[w]
      BY <1>4, <2>1
    <3>3. QED
      BY <1>4, <1>6, <3>1, <3>2
  <2> HIDE DEF g
  <2>6. QED
    BY <1>5, <2>2, <2>3, <2>4, <2>5 DEF Filled
<1>8. Sound(w)'
  BY <1>4, <1>5, <1>7 DEF Sound
<1>9. QED
  BY <1>4, <1>5, <1>6, <1>8 DEF GoodInv, Complete

LEMMA GoodStep ==
    TypeOK /\ Owned /\ GoodInv /\ [Next]_vars => GoodInv'
<1> SUFFICES ASSUME TypeOK, Owned, GoodInv, [Next]_vars PROVE GoodInv'
  OBVIOUS
<1>1. CASE UNCHANGED vars
  BY <1>1 DEF vars, GoodInv, Sound, Mixed, Alone, Filled, Complete
<1>2. QED
  BY <1>1, GoodStart, GoodFetch, GoodWait, GoodFinish, GoodRaise, GoodMixedFrame,
     GoodAloneFrame
  DEF Next

LEMMA GoodAlways == Spec => [](TypeOK /\ GoodInv)
<1>1. Init => Owned /\ GoodInv
  BY DEF Init, Owned, GoodInv, Complete
<1>2. QED
  BY <1>1, OwnedStep, GoodStep, TypeCorrect, PTL DEF Spec

\* A zmsg that no other call came in between has the frames that were asked for
\* (zyre_ext.c:102), for any number of calls.
THEOREM AloneIsRight == Spec => []AloneFramesMatch
<1>1. TypeOK /\ GoodInv => AloneFramesMatch
  BY LenProperties DEF TypeOK, GoodInv, Complete, AloneFramesMatch
<1>2. QED
  BY <1>1, GoodAlways, PTL

\* A frame goes to a zmsg that has been destroyed only in a call that another one
\* came in between, for any number of calls (zyre_ext.c:94, 119; node.c:548, 575).
THEOREM StraysOverlap == Spec => []StrayMeansOverlap
<1>1. GoodInv => StrayMeansOverlap
  BY DEF GoodInv, Complete, StrayMeansOverlap
<1>2. QED
  BY <1>1, GoodAlways, PTL

(***************************************************************************)
(* When calls cannot overlap.                                              *)
(***************************************************************************)

\* No conversion runs Ruby code, or there is a single worker: the conditions
\* under which the static variable has one user at a time.
OneAtATime == Converting = {} \/ \A v, w \in Workers : v = w

Solo ==
    /\ \A v, w \in Workers : pc[v] # "idle" /\ pc[w] # "idle" => v = w
    /\ \A w \in Workers : pc[w] \in {"loop", "convert", "converted"} => gvl = w
    /\ \A w \in Workers : pc[w] = "converting" => Converting # {}
    /\ overlapped = {}

LEMMA SoloStep ==
    ASSUME OneAtATime, TypeOK, Solo, [Next]_vars
    PROVE  Solo'
<1>1. ASSUME NEW w \in Workers, NEW parts \in Messages,
             NEW d \in {"sent", "kept"}, Start(w, parts, d)
      PROVE Solo'
  <2>1. \A v \in Workers : pc[v] = "idle"
    BY <1>1, WorkersAssumption DEF Start, Solo, OneAtATime, TypeOK, Points
  <2>2. overlapped' = {}
    BY <1>1, <2>1 DEF Start, Running, Solo
  <2>3. gvl' = w /\ pc' = [pc EXCEPT ![w] = "loop"]
    BY <1>1 DEF Start, Goto
  <2>4. QED
    BY <2>1, <2>2, <2>3 DEF Solo, TypeOK
<1>2. ASSUME NEW w \in Workers,
             Fetch(w) \/ Finish(w) \/ Release(w) \/ Resume(w) \/ Raise(w) \/ AddFrame(w)
      PROVE Solo'
  BY <1>2 DEF Fetch, Finish, Release, Resume, Raise, AddFrame, Converted, Holding,
     Goto, Solo, TypeOK
<1>3. CASE UNCHANGED vars
  BY <1>3 DEF vars, Solo
<1>4. QED
  BY <1>1, <1>2, <1>3 DEF Next

\* When the parts are Strings, or one thread builds messages one after the other,
\* the comment at zyre_ext.c:102 is right: the frames are the parts, and none goes
\* astray.
THEOREM FramesAreTheParts ==
    OneAtATime => (Spec => [](FramesMatchParts /\ stray = {}))
<1> SUFFICES ASSUME OneAtATime PROVE Spec => [](FramesMatchParts /\ stray = {})
  OBVIOUS
<1>1. Init => Solo
  BY DEF Init, Solo
<1>2. Solo /\ AloneFramesMatch /\ StrayMeansOverlap => FramesMatchParts /\ stray = {}
  BY DEF Solo, AloneFramesMatch, StrayMeansOverlap, FramesMatchParts
<1>3. TypeOK /\ Solo /\ [Next]_vars => Solo'
  BY SoloStep
<1>4. QED
  BY <1>1, <1>2, <1>3, AloneIsRight, StraysOverlap, TypeCorrect, PTL DEF Spec

=============================================================================
