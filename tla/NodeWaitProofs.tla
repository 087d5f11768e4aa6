--------------------------- MODULE NodeWaitProofs ---------------------------
(***************************************************************************)
(* What holds of NodeWait for all callers, events, timeouts and bounds.    *)
(***************************************************************************)
EXTENDS NodeWait, SequenceTheorems, TLAPS

(***************************************************************************)
(* The log.                                                                *)
(***************************************************************************)
Entries == [by : Callers, to : Fates]

\* What Settle does to the log: the event in the hand of c gets its fate, and
\* nothing else changes.
LEMMA SettleEffect ==
    ASSUME TypeOK, NEW c \in Callers, NEW fate \in Fates, Settle(c, fate)
    PROVE  /\ log' \in Seq(Entries)
           /\ Len(log') = Len(log)
           /\ \A i \in 1..Len(log) :
                  log'[i] = IF Holds(c) /\ i = cur[c]
                            THEN [by |-> log[i].by, to |-> fate] ELSE log[i]
<1>1. CASE ~Holds(c)
  BY <1>1 DEF Settle, TypeOK, Entries
<1>2. CASE Holds(c)
  <2> DEFINE i == cur[c]
             x == [log[i] EXCEPT !.to = fate]
  <2>1. i \in Nat /\ log \in Seq(Entries)
    BY DEF TypeOK, Entries
  <2>2. log' = [log EXCEPT ![i] = x]
    BY <1>2 DEF Settle
  <2>3. CASE i \in 1..Len(log)
    <3>1. log[i] \in Entries
      BY <2>1, <2>3, ElementOfSeq
    <3>2. x = [by |-> log[i].by, to |-> fate] /\ x \in Entries
      BY <3>1 DEF Entries
    <3> HIDE DEF x
    <3>3. QED
      BY <1>2, <2>1, <2>2, <2>3, <3>2, ExceptSeq
  <2>4. CASE i \notin 1..Len(log)
    <3>1. log' = log
      BY <2>1, <2>2, <2>4, LenProperties
    <3>2. QED
      BY <2>1, <2>4, <3>1
  <2>5. QED
    BY <2>3, <2>4
<1>3. QED
  BY <1>1, <1>2

\* The same, field by field.
LEMMA SettleFields ==
    ASSUME TypeOK, NEW c \in Callers, NEW fate \in Fates, Settle(c, fate)
    PROVE  /\ Len(log') = Len(log) /\ Len(log) \in Nat
           /\ \A i \in 1..Len(log) :
                  /\ log'[i].by = log[i].by
                  /\ Holds(c) /\ i = cur[c] => log'[i].to = fate
                  /\ ~(Holds(c) /\ i = cur[c]) => log'[i] = log[i]
<1>1. /\ Len(log') = Len(log) /\ Len(log) \in Nat
      /\ \A i \in 1..Len(log) :
             log'[i] = IF Holds(c) /\ i = cur[c]
                       THEN [by |-> log[i].by, to |-> fate] ELSE log[i]
  BY SettleEffect, LenProperties DEF TypeOK
<1>2. ASSUME NEW i \in 1..Len(log)
      PROVE  /\ log'[i].by = log[i].by
             /\ Holds(c) /\ i = cur[c] => log'[i].to = fate
             /\ ~(Holds(c) /\ i = cur[c]) => log'[i] = log[i]
  <2>1. CASE Holds(c) /\ i = cur[c]
    <3>1. log'[i] = [by |-> log[i].by, to |-> fate]
      BY <1>1, <2>1
    <3>2. QED
      BY <2>1, <3>1
  <2>2. CASE ~(Holds(c) /\ i = cur[c])
    BY <1>1, <2>2
  <2>3. QED
    BY <2>1, <2>2
<1>3. QED
  BY <1>1, <1>2

\* What a read does to the log.
LEMMA ReadEffect ==
    ASSUME TypeOK, NEW c \in Callers, ReadEvent(c)
    PROVE  /\ log' \in Seq(Entries)
           /\ Len(log') = Len(log) + 1
           /\ \A i \in 1..Len(log) : log'[i] = log[i]
           /\ log'[Len(log) + 1] = [by |-> c, to |-> "hand"]
<1> DEFINE x == [by |-> c, to |-> "hand"]
<1>1. x \in Entries /\ log \in Seq(Entries)
  BY DEF Entries, Fates, TypeOK
<1>2. log' = Append(log, x)
  BY DEF ReadEvent
<1> HIDE DEF x
<1>3. log' \in Seq(Entries) /\ Len(log') = Len(log) + 1 /\ log'[Len(log) + 1] = x
      /\ \A i \in 1..Len(log) : log'[i] = log[i]
  BY <1>1, <1>2
<1>4. QED
  BY <1>3 DEF x

(***************************************************************************)
(* Types.                                                                  *)
(***************************************************************************)

\* The end of a call leaves the variables it sets in their types.
LEMMA ForgetType ==
    ASSUME TypeOK, NEW S, Forget(S)
    PROVE  /\ timeout' \in [Callers -> Nat]
           /\ until' \in [Callers -> Nat \cup {Forever}]
           /\ cur' \in [Callers -> Nat]
  BY DEF Forget, TypeOK

LEMMA UnwindType ==
    ASSUME TypeOK, NEW c \in Callers, Unwind(c)
    PROVE  /\ log' \in Seq(Entries)
           /\ pc' \in [Callers -> Points]
           /\ out' \in [Callers -> Outcomes]
           /\ timeout' \in [Callers -> Nat]
           /\ until' \in [Callers -> Nat \cup {Forever}]
           /\ cur' \in [Callers -> Nat]
<1>1. log' \in Seq(Entries)
  BY SettleEffect DEF Unwind, Fates
<1>2. QED
  BY <1>1 DEF Unwind, Forget, TypeOK, Points, Outcomes

LEMMA FinishType ==
    ASSUME TypeOK, NEW c \in Callers, NEW outcome \in Outcomes, NEW fate \in Fates,
           Finish(c, outcome, fate)
    PROVE  /\ log' \in Seq(Entries)
           /\ pc' \in [Callers -> Points]
           /\ out' \in [Callers -> Outcomes]
           /\ timeout' \in [Callers -> Nat]
           /\ until' \in [Callers -> Nat \cup {Forever}]
           /\ cur' \in [Callers -> Nat]
           /\ pending' \in [Callers -> Kinds \cup {"none"}]
<1>1. pending' \in [Callers -> Kinds \cup {"none"}]
  BY DEF Finish, TypeOK
<1>2. CASE pending[Thread(c)] = "raise"
  BY <1>1, <1>2, UnwindType DEF Finish
<1>3. CASE pending[Thread(c)] # "raise"
  <2>1. log' \in Seq(Entries)
    BY <1>3, SettleEffect DEF Finish
  <2>2. pc' \in [Callers -> Points] /\ out' \in [Callers -> Outcomes]
    BY <1>3 DEF Finish, Goto, TypeOK, Points
  <2>3. /\ timeout' \in [Callers -> Nat]
        /\ until' \in [Callers -> Nat \cup {Forever}]
        /\ cur' \in [Callers -> Nat]
    BY <1>3, ForgetType DEF Finish
  <2>4. QED
    BY <1>1, <2>1, <2>2, <2>3
<1>4. QED
  BY <1>2, <1>3

\* The invariant of the runs: every variable keeps its type (node.rb:82-135).
THEOREM TypeCorrect == Spec => []TypeOK
<1>1. Init => TypeOK
  <2> SUFFICES ASSUME Init PROVE TypeOK
    OBVIOUS
  <2>1. NoCall \in Calls
    BY WantsAssumption DEF NoCall, Calls, Methods
  <2>2. QED
    BY <2>1, EmptySeq DEF Init, TypeOK, Points, Outcomes
<1>2. TypeOK /\ [Next]_vars => TypeOK'
  <2> SUFFICES ASSUME TypeOK, [Next]_vars PROVE TypeOK'
    OBVIOUS
  <2> USE NumbersAssumption
  <2>1. ASSUME NEW e \in Events, Arrive(e) PROVE TypeOK'
    <3>1. [what |-> e, at |-> now] \in [what : Events, at : Nat]
      BY DEF TypeOK
    <3>2. arrived' \in Seq([what : Events, at : Nat])
      BY <2>1, <3>1, AppendProperties DEF Arrive, TypeOK
    <3>3. QED
      BY <2>1, <3>2 DEF Arrive, TypeOK
  <2>2. CASE Tick
    BY <2>2 DEF Tick, TypeOK
  <2>3. ASSUME NEW t \in Callers, NEW k \in Kinds, Interrupt(t, k) PROVE TypeOK'
    <3>1. call' \in [Callers -> Calls]
      <4>1. \A c \in Callers : [call[c] EXCEPT !.disturbed = TRUE] \in Calls
        BY DEF TypeOK, Calls
      <4>2. QED
        BY <2>3, <4>1 DEF Interrupt, TypeOK
    <3>2. QED
      BY <2>3, <3>1 DEF Interrupt, TypeOK
  <2>4. ASSUME NEW c \in Callers, NEW m \in Methods, NEW w \in Wants,
               NEW d \in Durations \cup {0}, NEW b \in BOOLEAN,
               Begin(c, m, w, d, b)
        PROVE TypeOK'
    <3>1. Call(c, m, w, d, b) \in Calls
      <4>1. now + d \in Nat /\ Len(log) \in Nat
        BY LenProperties DEF TypeOK
      <4>2. QED
        BY <4>1 DEF Call, Calls, Interrupted
    <3>2. LoopTop(m) \in Points
      BY DEF LoopTop, Points
    <3>3. QED
      BY <2>4, <3>1, <3>2 DEF Begin, Goto, TypeOK, Outcomes
  <2>5. ASSUME NEW c \in Callers, KeepWaiting(c) PROVE TypeOK'
    <3>1. TimeLeft(c) \in Nat
      BY <2>5 DEF KeepWaiting, TimeLeft, TypeOK, Calls
    <3>2. QED
      BY <2>5, <3>1 DEF KeepWaiting, Goto, TypeOK, Points
  <2>6. ASSUME NEW c \in Callers, TimeIsUp(c) PROVE TypeOK'
    BY <2>6, FinishType DEF TimeIsUp, TypeOK, Outcomes, Fates, Entries
  <2>7. ASSUME NEW c \in Callers, PollCall(c) PROVE TypeOK'
    <3>1. ASSUME NEW ms \in PollTimeouts(c)
          PROVE (IF ms < 0 THEN Forever ELSE now + ms * Ms) \in Nat \cup {Forever}
      <4>1. ms \in Int
        BY DEF PollTimeouts, TypeOK
      <4>2. CASE ms < 0
        BY <4>2
      <4>3. CASE ~(ms < 0)
        <5>1. ms \in Nat /\ Ms \in Nat /\ now \in Nat
          BY <4>1, <4>3 DEF TypeOK
        <5>2. ms * Ms \in Nat
          BY <5>1
        <5>3. QED
          BY <4>3, <5>1, <5>2
      <4>4. QED
        BY <4>2, <4>3
    <3>2. until' \in [Callers -> Nat \cup {Forever}]
      BY <2>7, <3>1 DEF PollCall, TypeOK
    <3>3. QED
      BY <2>7, <3>2 DEF PollCall, Goto, TypeOK, Points
  <2>8. ASSUME NEW c \in Callers, PollReady(c) PROVE TypeOK'
    BY <2>8 DEF PollReady, Goto, TypeOK, Points
  <2>9. ASSUME NEW c \in Callers, PollNil(c) PROVE TypeOK'
    BY <2>9, FinishType DEF PollNil, TypeOK, Outcomes, Fates, Entries
  <2>10. ASSUME NEW c \in Callers, RecvCall(c) PROVE TypeOK'
    BY <2>10 DEF RecvCall, Goto, TypeOK, Points
  <2>11. ASSUME NEW c \in Callers, RecvSkipped(c) PROVE TypeOK'
    BY <2>11 DEF RecvSkipped, Goto, TypeOK, Points
  <2>12. ASSUME NEW c \in Callers, ReadEvent(c) PROVE TypeOK'
    <3>1. log' \in Seq(Entries)
      BY <2>12, ReadEffect
    <3>2. Read + 1 \in Nat
      BY LenProperties DEF TypeOK, Read
    <3>3. QED
      BY <2>12, <3>1, <3>2 DEF ReadEvent, Goto, TypeOK, Points, Entries
  <2>13. ASSUME NEW c \in Callers, ReadInterrupted(c) PROVE TypeOK'
    BY <2>13 DEF ReadInterrupted, TypeOK
  <2>14. ASSUME NEW c \in Callers, Return(c) PROVE TypeOK'
    <3>1. (IF HasEvent(c) THEN "event" ELSE "nil") \in Outcomes /\ "result" \in Fates
      BY DEF Outcomes, Fates
    <3>2. QED
      BY <2>14, <3>1, FinishType DEF Return, TypeOK, Entries
  <2>15. ASSUME NEW c \in Callers, EachEnds(c) PROVE TypeOK'
    BY <2>15, FinishType DEF EachEnds, TypeOK, Outcomes, Fates, Entries
  <2>16. ASSUME NEW c \in Callers, PassOn(c) PROVE TypeOK'
    <3>1. log' \in Seq(Entries)
      <4>1. (IF call[c].block THEN "block" ELSE "nowhere") \in Fates
        BY DEF Fates
      <4>2. QED
        BY <2>16, <4>1, SettleEffect DEF PassOn
    <3>2. (IF call[c].block THEN "block" ELSE LoopTop(call[c].mode)) \in Points
      BY DEF LoopTop, Points
    <3>3. QED
      BY <2>16, <3>1, <3>2 DEF PassOn, Goto, TypeOK, Entries
  <2>17. ASSUME NEW c \in Callers, CheckInterrupts(c) PROVE TypeOK'
    <3>1. pending' \in [Callers -> Kinds \cup {"none"}]
      BY <2>17 DEF CheckInterrupts, TypeOK
    <3>2. CASE pending[Thread(c)] = "raise"
      BY <2>17, <3>1, <3>2, UnwindType DEF CheckInterrupts, TypeOK, Entries
    <3>3. CASE pending[Thread(c)] # "raise"
      BY <2>17, <3>1, <3>3 DEF CheckInterrupts, TypeOK
    <3>4. QED
      BY <3>2, <3>3
  <2>18. ASSUME NEW c \in Callers, BlockReturn(c) PROVE TypeOK'
    <3>1. LoopTop(call[c].mode) \in Points
      BY DEF LoopTop, Points
    <3>2. QED
      BY <2>18, <3>1 DEF BlockReturn, Goto, TypeOK
  <2>19. ASSUME NEW c \in Callers, BlockBreak(c) PROVE TypeOK'
    BY <2>19 DEF BlockBreak, Forget, Goto, TypeOK, Points, Outcomes
  <2>20. CASE UNCHANGED vars
    BY <2>20 DEF vars, TypeOK
  <2>21. QED
    BY <2>1, <2>2, <2>3, <2>4, <2>5, <2>6, <2>7, <2>8, <2>9, <2>10, <2>11,
       <2>12, <2>13, <2>14, <2>15, <2>16, <2>17, <2>18, <2>19, <2>20
       DEF Next, Step, BlockEnds
<1>3. QED
  BY <1>1, <1>2, PTL DEF Spec

(***************************************************************************)
(* Custody of the events.                                                  *)
(***************************************************************************)

\* The other callers of a thread lie above c or below it.
LEMMA StackSplit ==
    ASSUME NEW c \in Callers
    PROVE  /\ c \in Stack(c) /\ c \notin Outer(c) /\ c \notin Inner(c)
           /\ \A d \in Callers : /\ d \in Outer(c) <=> c \in Inner(d)
                                /\ d \in Inner(c) <=> c \in Outer(d)
           /\ \A d \in Stack(c) : d = c \/ d \in Outer(c) \/ d \in Inner(c)
<1>1. Level \in [Callers -> Nat]
  BY LevelAssumption
<1>2. ASSUME NEW d \in Stack(c), Level[d] = Level[c] PROVE d = c
  BY <1>2, LevelAssumption DEF Stack, Thread
<1>3. QED
  BY <1>1, <1>2 DEF Stack, Outer, Inner, Thread

\* The calls below a running one are all in their blocks.
Stacks == \A c, d \in Callers : d \in Outer(c) /\ ~Idle(c) => pc[d] = "block"

\* What the calls of the thread do while c, on top of it, runs.
LEMMA OthersOfStack ==
    ASSUME Stacks, NEW c \in Callers, OnTop(c), ~Idle(c),
           NEW d \in Stack(c), d # c
    PROVE  Idle(d) \/ pc[d] = "block"
  BY StackSplit DEF Stacks, OnTop, Stack

\* A step that takes one running caller from where it is to anywhere keeps the
\* stacks.
LEMMA OneMoveKeepsStacks ==
    ASSUME TypeOK, Stacks, NEW c \in Callers, OnTop(c), ~Idle(c),
           NEW p \in Points, pc' = [pc EXCEPT ![c] = p]
    PROVE  Stacks'
<1>1. ASSUME NEW d \in Callers, NEW e \in Callers, e \in Outer(d), ~Idle(d)'
      PROVE  pc'[e] = "block"
  <2>1. ~Idle(d) /\ pc[e] = "block"
    BY <1>1 DEF TypeOK, Stacks, Idle
  <2>2. e # c
    BY <1>1, <2>1, StackSplit DEF OnTop
  <2>3. QED
    BY <2>1, <2>2 DEF TypeOK
<1>2. QED
  BY <1>1 DEF Stacks, Outer, Stack, Thread

\* So does an exception that ends every call of a stack.
LEMMA UnwindKeepsStacks ==
    ASSUME TypeOK, Stacks, NEW c \in Callers, OnTop(c), ~Idle(c), Unwind(c)
    PROVE  Stacks'
<1>1. ASSUME NEW d \in Callers, NEW e \in Callers, e \in Outer(d), ~Idle(d)'
      PROVE  pc'[e] = "block"
  <2>1. d \notin Stack(c) /\ e \notin Stack(c)
    BY <1>1 DEF Unwind, Stack, Outer, Idle
  <2>2. QED
    BY <1>1, <2>1 DEF Unwind, Stacks, Idle
<1>2. QED
  BY <1>1 DEF Stacks, Outer, Stack, Thread

LEMMA FinishKeepsStacks ==
    ASSUME TypeOK, Stacks, NEW c \in Callers, OnTop(c), ~Idle(c),
           NEW outcome, NEW fate, Finish(c, outcome, fate)
    PROVE  Stacks'
<1>1. CASE pending[Thread(c)] = "raise"
  BY <1>1, UnwindKeepsStacks DEF Finish
<1>2. CASE pending[Thread(c)] # "raise"
  BY <1>2, OneMoveKeepsStacks DEF Finish, Goto, Points
<1>3. QED
  BY <1>1, <1>2

LEMMA StacksStep == TypeOK /\ Stacks /\ [Next]_vars => Stacks'
<1> SUFFICES ASSUME TypeOK, Stacks, [Next]_vars PROVE Stacks'
  OBVIOUS
<1>1. CASE UNCHANGED pc
  BY <1>1 DEF Stacks, Idle
<1>2. ASSUME NEW c \in Callers, NEW m \in Methods, NEW w \in Wants,
             NEW n \in Durations \cup {0}, NEW b \in BOOLEAN,
             Begin(c, m, w, n, b)
      PROVE Stacks'
  <2>1. pc' = [pc EXCEPT ![c] = LoopTop(m)] /\ LoopTop(m) # "idle"
    BY <1>2 DEF Begin, Goto, LoopTop
  <2>2. Idle(c) /\ OnTop(c) /\ \A o \in Outer(c) : pc[o] = "block"
    BY <1>2 DEF Begin, Runs
  <2>3. ASSUME NEW d \in Callers, NEW e \in Callers, e \in Outer(d), ~Idle(d)'
        PROVE  pc'[e] = "block"
    <3>1. e # c
      <4>1. CASE d = c
        BY <4>1, <2>3, StackSplit
      <4>2. CASE d # c
        BY <4>2, <2>1, <2>2, <2>3, StackSplit DEF TypeOK, OnTop, Idle
      <4>3. QED
        BY <4>1, <4>2
    <3>2. pc[e] = "block"
      BY <2>1, <2>2, <2>3 DEF TypeOK, Stacks, Idle
    <3>3. QED
      BY <2>1, <3>1, <3>2 DEF TypeOK
  <2>4. QED
    BY <2>3 DEF Stacks, Outer, Stack, Thread
<1>3. ASSUME NEW c \in Callers, Runs(c), ~Idle(c),
             NEW p \in Points, pc' = [pc EXCEPT ![c] = p]
      PROVE Stacks'
  BY <1>3, OneMoveKeepsStacks DEF Runs
<1>4. ASSUME NEW c \in Callers, Runs(c), ~Idle(c), NEW outcome, NEW fate,
             Finish(c, outcome, fate)
      PROVE Stacks'
  BY <1>4, FinishKeepsStacks DEF Runs
<1>5. ASSUME NEW c \in Callers, Step(c) \/ BlockEnds(c)
      PROVE Stacks'
  <2>1. Runs(c) /\ ~Idle(c)
    BY <1>5 DEF Step, BlockEnds, KeepWaiting, TimeIsUp, PollCall, PollReady,
       PollNil, RecvCall, RecvSkipped, ReadEvent, ReadInterrupted, Return,
       EachEnds, PassOn, CheckInterrupts, BlockReturn, BlockBreak, Idle,
       RubyPoints
  <2>2. CASE KeepWaiting(c) \/ PollCall(c) \/ PollReady(c) \/ RecvCall(c)
             \/ RecvSkipped(c) \/ ReadEvent(c) \/ BlockBreak(c)
    <3>1. \E p \in Points : pc' = [pc EXCEPT ![c] = p]
      BY <2>2 DEF KeepWaiting, PollCall, PollReady, RecvCall, RecvSkipped,
         ReadEvent, BlockBreak, Goto, Points
    <3>2. QED
      BY <3>1, <2>1, <1>3
  <2>3. CASE PassOn(c) \/ BlockReturn(c)
    <3>1. LoopTop(call[c].mode) \in Points
      BY DEF LoopTop, Points
    <3>2. \E p \in Points : pc' = [pc EXCEPT ![c] = p]
      BY <2>3, <3>1 DEF PassOn, BlockReturn, Goto, Points
    <3>3. QED
      BY <3>2, <2>1, <1>3
  <2>4. CASE TimeIsUp(c) \/ PollNil(c) \/ Return(c) \/ EachEnds(c)
    BY <2>4, <2>1, <1>4 DEF TimeIsUp, PollNil, Return, EachEnds
  <2>5. CASE ReadInterrupted(c)
    BY <2>5, <1>1 DEF ReadInterrupted
  <2>6. CASE CheckInterrupts(c)
    BY <2>6, <2>1, <1>1, UnwindKeepsStacks DEF CheckInterrupts, Runs
  <2>7. QED
    BY <1>5, <2>2, <2>3, <2>4, <2>5, <2>6 DEF Step, BlockEnds
<1>6. QED
  BY <1>1, <1>2, <1>5 DEF Next, Arrive, Tick, Interrupt, vars

\* Nobody takes or lets go of an event.
LEMMA SameHandsKeepCustody ==
    ASSUME TypeOK, Custody, log' = log,
           Len(arrived') \in Nat, Len(arrived) <= Len(arrived'),
           \A d \in Callers : /\ Holds(d)' <=> Holds(d)
                              /\ Holds(d) => cur'[d] = cur[d]
    PROVE  Custody'
<1>1. ASSUME NEW i \in 1..Len(log) PROVE log[i].by \in Callers
  <2>1. log[i] \in [by : Callers, to : Fates]
    BY ElementOfSeq DEF TypeOK
  <2>2. QED
    BY <2>1
<1>2. DOMAIN log = 1..Len(log)
  BY LenProperties DEF TypeOK
<1>3. QED
  BY <1>1, <1>2 DEF Custody, Holds, Read, TypeOK

\* c lets go of its event, if it holds one, and no other caller does.
LEMMA SettleKeepsCustody ==
    ASSUME TypeOK, Custody, NEW c \in Callers, NEW fate \in Fates \ {"hand"},
           Settle(c, fate), arrived' = arrived, ~Holds(c)',
           \A d \in Callers \ {c} : /\ Holds(d)' <=> Holds(d)
                                    /\ Holds(d) => cur'[d] = cur[d]
    PROVE  Custody'
<1>1. /\ log' \in Seq(Entries)
      /\ Len(log') = Len(log)
      /\ \A i \in 1..Len(log) :
             log'[i] = IF Holds(c) /\ i = cur[c]
                       THEN [by |-> log[i].by, to |-> fate] ELSE log[i]
  BY SettleEffect
<1>2. log \in Seq(Entries) /\ Len(log) \in Nat /\ DOMAIN log = 1..Len(log)
      /\ DOMAIN log' = 1..Len(log)
  BY <1>1, LenProperties DEF TypeOK, Entries
<1>3. Read' <= Len(arrived')
  BY <1>1 DEF Custody, Read
<1>4. ASSUME NEW d \in Callers, Holds(d)'
      PROVE  cur'[d] \in DOMAIN log' /\ log'[cur'[d]] = [by |-> d, to |-> "hand"]
  <2>1. d # c /\ Holds(d) /\ cur'[d] = cur[d]
    BY <1>4
  <2>2. cur[d] \in 1..Len(log) /\ log[cur[d]] = [by |-> d, to |-> "hand"]
    BY <2>1, <1>2 DEF Custody
  <2>3. Holds(c) => cur[d] # cur[c]
    <3>1. Holds(c) => log[cur[c]] = [by |-> c, to |-> "hand"]
      BY DEF Custody
    <3>2. [by |-> c, to |-> "hand"] # [by |-> d, to |-> "hand"]
      BY <2>1
    <3>3. QED
      BY <2>2, <3>1, <3>2
  <2>4. QED
    BY <2>1, <2>2, <2>3, <1>1, <1>2
<1>5. ASSUME NEW i \in DOMAIN log', log'[i].to = "hand"
      PROVE  (Holds(log[i].by) /\ cur[log[i].by] = i)'
  <2>1. i \in 1..Len(log) /\ log[i] \in Entries
    BY <1>2, ElementOfSeq
  <2>2. ~(Holds(c) /\ i = cur[c]) /\ log'[i] = log[i]
    <3>1. CASE Holds(c) /\ i = cur[c]
      <4>1. log'[i] = [by |-> log[i].by, to |-> fate]
        BY <1>1, <2>1, <3>1
      <4>2. fate = "hand"
        BY <1>5, <4>1
      <4>3. QED
        BY <4>2
    <3>2. QED
      BY <1>1, <2>1, <3>1
  <2>3. Holds(log[i].by) /\ cur[log[i].by] = i
    BY <1>2, <1>5, <2>1, <2>2 DEF Custody
  <2>4. log[i].by \in Callers \ {c}
    BY <2>1, <2>2, <2>3 DEF Entries
  <2>5. QED
    BY <2>2, <2>3, <2>4 DEF Holds
<1>6. QED
  BY <1>3, <1>4, <1>5 DEF Custody

\* An exception ends a stack whose top call alone may hold an event.
LEMMA UnwindKeepsCustody ==
    ASSUME TypeOK, Stacks, Custody, NEW c \in Callers, OnTop(c), ~Idle(c),
           Unwind(c), arrived' = arrived
    PROVE  Custody'
<1>1. ~Holds(c)'
  BY DEF Unwind, Stack, Holds
<1>2. ASSUME NEW d \in Callers \ {c}
      PROVE  (Holds(d)' <=> Holds(d)) /\ (Holds(d) => cur'[d] = cur[d])
  <2>1. CASE d \in Stack(c)
    <3>1. Idle(d) \/ pc[d] = "block"
      BY <2>1, OthersOfStack
    <3>2. pc'[d] = "idle"
      BY <2>1 DEF Unwind, Stack
    <3>3. QED
      BY <3>1, <3>2 DEF Holds, Idle
  <2>2. CASE d \notin Stack(c)
    BY <2>2 DEF Unwind, Forget, Holds
  <2>3. QED
    BY <2>1, <2>2
<1>3. Settle(c, "lost")
  BY DEF Unwind
<1>4. QED
  BY <1>1, <1>2, <1>3, SettleKeepsCustody DEF Fates

LEMMA FinishKeepsCustody ==
    ASSUME TypeOK, Stacks, Custody, NEW c \in Callers, OnTop(c), ~Idle(c),
           NEW outcome, NEW fate \in Fates \ {"hand"}, Finish(c, outcome, fate),
           arrived' = arrived
    PROVE  Custody'
<1>1. CASE pending[Thread(c)] = "raise"
  BY <1>1, UnwindKeepsCustody DEF Finish
<1>2. CASE pending[Thread(c)] # "raise"
  <2>1. pc' = [pc EXCEPT ![c] = "idle"] /\ Settle(c, fate) /\ Forget({c})
    BY <1>2 DEF Finish, Goto
  <2>2. ~Holds(c)'
    BY <2>1 DEF Holds, TypeOK
  <2>3. \A d \in Callers \ {c} : /\ Holds(d)' <=> Holds(d)
                                 /\ Holds(d) => cur'[d] = cur[d]
    BY <2>1 DEF Holds, Forget, TypeOK
  <2>4. QED
    BY <2>1, <2>2, <2>3, SettleKeepsCustody
<1>3. QED
  BY <1>1, <1>2

\* c, which holds no event, goes somewhere else and still holds none.
LEMMA EmptyHandKeepsCustody ==
    ASSUME TypeOK, Custody, log' = log, arrived' = arrived,
           NEW c \in Callers, ~Holds(c), ~Holds(c)',
           \A d \in Callers \ {c} : pc'[d] = pc[d] /\ cur'[d] = cur[d]
    PROVE  Custody'
<1>1. \A d \in Callers : /\ Holds(d)' <=> Holds(d)
                         /\ Holds(d) => cur'[d] = cur[d]
  BY DEF Holds
<1>2. Len(arrived) \in Nat
  BY LenProperties DEF TypeOK
<1>3. QED
  BY <1>1, <1>2, SameHandsKeepCustody

LEMMA CustodyStep == TypeOK /\ Stacks /\ Custody /\ [Next]_vars => Custody'
<1> SUFFICES ASSUME TypeOK, Stacks, Custody, [Next]_vars PROVE Custody'
  OBVIOUS
<1>1. CASE UNCHANGED <<arrived, log, pc, cur>>
  BY <1>1 DEF Custody, Holds, Read
<1>2. ASSUME NEW e \in Events, Arrive(e) PROVE Custody'
  <2>1. Len(arrived') = Len(arrived) + 1 /\ Len(arrived) \in Nat
    BY <1>2, LenProperties DEF Arrive, TypeOK
  <2>2. \A d \in Callers : (Holds(d)' <=> Holds(d)) /\ cur'[d] = cur[d]
    BY <1>2 DEF Arrive, Holds
  <2>3. QED
    BY <1>2, <2>1, <2>2, SameHandsKeepCustody DEF Arrive
<1>3. ASSUME NEW c \in Callers, NEW m \in Methods, NEW w \in Wants,
             NEW d \in Durations \cup {0}, NEW b \in BOOLEAN,
             Begin(c, m, w, d, b)
      PROVE Custody'
  <2>1. ~Holds(c) /\ ~Holds(c)'
    BY <1>3 DEF Begin, Goto, LoopTop, Idle, Holds, TypeOK
  <2>2. QED
    BY <1>3, <2>1, EmptyHandKeepsCustody DEF Begin, Goto, TypeOK
<1>4. ASSUME NEW c \in Callers,
             \/ KeepWaiting(c) \/ PollCall(c) \/ PollReady(c) \/ RecvCall(c)
             \/ RecvSkipped(c) \/ BlockReturn(c) \/ BlockBreak(c)
      PROVE Custody'
  <2>1. ~Holds(c) /\ ~Holds(c)'
    BY <1>4 DEF KeepWaiting, PollCall, PollReady, RecvCall, RecvSkipped,
       BlockReturn, BlockBreak, Forget, Goto, LoopTop, Holds, TypeOK
  <2>2. /\ log' = log /\ arrived' = arrived
        /\ \A d \in Callers \ {c} : pc'[d] = pc[d] /\ cur'[d] = cur[d]
    BY <1>4 DEF KeepWaiting, PollCall, PollReady, RecvCall, RecvSkipped,
       BlockReturn, BlockBreak, Forget, Goto, TypeOK
  <2>3. QED
    BY <2>1, <2>2, EmptyHandKeepsCustody
<1>5. ASSUME NEW c \in Callers,
             TimeIsUp(c) \/ PollNil(c) \/ Return(c) \/ EachEnds(c)
      PROVE Custody'
  <2>1. ~Idle(c) /\ OnTop(c) /\ arrived' = arrived
        /\ \E outcome : \E fate \in Fates \ {"hand"} : Finish(c, outcome, fate)
    BY <1>5 DEF TimeIsUp, PollNil, Return, EachEnds, Runs, Idle, Fates
  <2>2. QED
    BY <2>1, FinishKeepsCustody
<1>6. ASSUME NEW c \in Callers, ReadEvent(c) PROVE Custody'
  <2>1. /\ log' \in Seq(Entries)
        /\ Len(log') = Len(log) + 1
        /\ \A i \in 1..Len(log) : log'[i] = log[i]
        /\ log'[Len(log) + 1] = [by |-> c, to |-> "hand"]
    BY <1>6, ReadEffect
  <2>2. /\ log \in Seq(Entries) /\ Len(log) \in Nat /\ Len(arrived) \in Nat
        /\ DOMAIN log = 1..Len(log) /\ DOMAIN log' = 1..(Len(log) + 1)
    BY <2>1, LenProperties DEF TypeOK, Entries
  <2>3. /\ Len(arrived) > Len(log) /\ arrived' = arrived
        /\ ~Holds(c) /\ Holds(c)' /\ cur'[c] = Len(log) + 1
        /\ \A d \in Callers \ {c} : /\ Holds(d)' <=> Holds(d)
                                    /\ cur'[d] = cur[d]
    BY <1>6, <2>2 DEF ReadEvent, InboxEmpty, Read, Goto, Holds, TypeOK, Custody
  <2>4. Read' <= Len(arrived')
    BY <2>1, <2>2, <2>3 DEF Read
  <2>5. ASSUME NEW d \in Callers, Holds(d)'
        PROVE  cur'[d] \in DOMAIN log' /\ log'[cur'[d]] = [by |-> d, to |-> "hand"]
    <3>1. CASE d = c
      BY <3>1, <2>1, <2>2, <2>3
    <3>2. CASE d # c
      BY <3>2, <2>1, <2>2, <2>3, <2>5 DEF Custody
    <3>3. QED
      BY <3>1, <3>2
  <2>6. ASSUME NEW i \in DOMAIN log', log'[i].to = "hand"
        PROVE  (Holds(log[i].by) /\ cur[log[i].by] = i)'
    <3>1. CASE i = Len(log) + 1
      BY <3>1, <2>1, <2>3 DEF Holds
    <3>2. CASE i # Len(log) + 1
      <4>1. i \in 1..Len(log) /\ log'[i] = log[i] /\ log[i] \in Entries
        BY <3>2, <2>1, <2>2, ElementOfSeq
      <4>2. Holds(log[i].by) /\ cur[log[i].by] = i
        BY <4>1, <2>2, <2>6 DEF Custody
      <4>3. log[i].by \in Callers \ {c}
        BY <4>1, <4>2, <2>3 DEF Entries
      <4>4. QED
        BY <4>1, <4>2, <4>3, <2>3 DEF Holds
    <3>3. QED
      BY <3>1, <3>2
  <2>7. QED
    BY <2>4, <2>5, <2>6 DEF Custody
<1>7. ASSUME NEW c \in Callers, PassOn(c) PROVE Custody'
  <2>1. arrived' = arrived
        /\ \E fate \in Fates \ {"hand"} : Settle(c, fate)
    BY <1>7 DEF PassOn, Fates
  <2>2. ~Holds(c)'
    BY <1>7 DEF PassOn, Goto, LoopTop, Holds, TypeOK
  <2>3. \A d \in Callers \ {c} : (Holds(d)' <=> Holds(d)) /\ cur'[d] = cur[d]
    BY <1>7 DEF PassOn, Goto, Holds, TypeOK
  <2>4. QED
    BY <2>1, <2>2, <2>3, SettleKeepsCustody
<1>8. ASSUME NEW c \in Callers, CheckInterrupts(c) PROVE Custody'
  <2>1. CASE pending[Thread(c)] = "raise"
    BY <1>8, <2>1, UnwindKeepsCustody DEF CheckInterrupts, Runs, RubyPoints, Idle
  <2>2. CASE pending[Thread(c)] # "raise"
    BY <1>8, <2>2, <1>1 DEF CheckInterrupts
  <2>3. QED
    BY <2>1, <2>2
<1>9. QED
  BY <1>1, <1>2, <1>3, <1>4, <1>5, <1>6, <1>7, <1>8
     DEF Next, Step, BlockEnds, Tick, Interrupt, ReadInterrupted, vars

\* The invariant of the runs, for any number of callers and events: no event is
\* read twice, and each one read is in the hand of its reader until its reader
\* decides it (event.c:93-115; node.rb:82-135).
THEOREM EventsInCustody == Spec => []Custody
<1>1. Init => Stacks /\ Custody
  BY EmptySeq DEF Init, Stacks, Custody, Idle, Holds, Read
<1>2. TypeOK /\ Stacks /\ Custody /\ [Next]_vars => (Stacks /\ Custody)'
  BY StacksStep, CustodyStep
<1>3. QED
  BY <1>1, <1>2, TypeCorrect, PTL DEF Spec

(***************************************************************************)
(* wait_for decides each event by its criteria.                            *)
(***************************************************************************)

\* Where a call of wait_for puts an event it does not want.
Aside(c) == IF call[c].block THEN "block" ELSE "nowhere"

\* WaitTakesFirstWanted for one caller and one event that it read.
DecidedRight(c, i) ==
    IF IsWanted(arrived[i].what, call[c].want)
    THEN /\ log[i].to \in {"hand", "result", "lost"}
         /\ \A j \in 1..Len(log) : j > call[c].from /\ log[j].by = c => j <= i
         /\ Idle(c) \/ (pc[c] = "hand" /\ cur[c] = i)
    ELSE log[i].to \in {"hand", "lost", Aside(c)}

FirstWanted(c) ==
    Waits(c) =>
        \A i \in 1..Len(log) :
            i > call[c].from /\ log[i].by = c => DecidedRight(c, i)

LEMMA FirstWantedForAll ==
    ASSUME TypeOK
    PROVE  WaitTakesFirstWanted <=> \A c \in Callers : FirstWanted(c)
<1>1. DOMAIN log = 1..Len(log)
  BY LenProperties DEF TypeOK
<1>2. QED
  BY <1>1, Zenon DEF WaitTakesFirstWanted, FirstWanted, DecidedRight, ReadBy, Aside

\* The arguments of d's call do not change, and the events it read keep theirs.
SameReads(d) ==
    /\ call'[d].mode = call[d].mode /\ call'[d].want = call[d].want
    /\ call'[d].block = call[d].block /\ call'[d].from = call[d].from
    /\ \A i \in 1..Len(log) : arrived'[i] = arrived[i]
    /\ Len(log) <= Len(log') /\ Len(log') \in Nat
    /\ \A i \in 1..Len(log') :
           log'[i].by = d => i <= Len(log) /\ log'[i] = log[i]
    /\ \A i \in 1..Len(log) : log[i].by = d => log'[i] = log[i]

\* A caller that reads and decides nothing keeps what it has; if it holds no
\* event it may go anywhere, for then it has read none that it wants.
LEMMA SameReadsKeepFirstWanted ==
    ASSUME TypeOK, NEW d \in Callers, FirstWanted(d), SameReads(d),
           \/ Idle(d)'
           \/ pc'[d] = pc[d] /\ cur'[d] = cur[d]
           \/ ~Idle(d) /\ ~Holds(d)
    PROVE  FirstWanted(d)'
<1> SUFFICES ASSUME Waits(d)', NEW i \in 1..Len(log'),
                    i > call'[d].from, log'[i].by = d
             PROVE  DecidedRight(d, i)'
  BY DEF FirstWanted
<1>0. Len(log) \in Nat /\ Len(log') \in Nat
  BY LenProperties DEF SameReads, TypeOK
<1>1. /\ i \in 1..Len(log) /\ log'[i] = log[i] /\ log[i].by = d
      /\ i > call[d].from /\ arrived'[i] = arrived[i]
  BY <1>0 DEF SameReads
<1>2. Waits(d)
  BY DEF SameReads, Waits
<1>3. DecidedRight(d, i)
  BY <1>1, <1>2 DEF FirstWanted
<1>4. CASE IsWanted(arrived[i].what, call[d].want)
  <2>1. /\ log[i].to \in {"hand", "result", "lost"}
        /\ \A j \in 1..Len(log) : j > call[d].from /\ log[j].by = d => j <= i
        /\ Idle(d) \/ (pc[d] = "hand" /\ cur[d] = i)
    BY <1>3, <1>4 DEF DecidedRight
  <2>2. \A j \in 1..Len(log') : j > call'[d].from /\ log'[j].by = d => j <= i
    <3> SUFFICES ASSUME NEW j \in 1..Len(log'), j > call'[d].from, log'[j].by = d
                 PROVE  j <= i
      OBVIOUS
    <3>1. j \in 1..Len(log) /\ log'[j] = log[j] /\ j > call[d].from
      BY <1>0 DEF SameReads
    <3>2. QED
      BY <2>1, <3>1
  <2>3. Idle(d)' \/ (pc'[d] = "hand" /\ cur'[d] = i)
    BY <2>1, <1>1 DEF Idle, Holds
  <2>4. QED
    <3>1. IsWanted(arrived'[i].what, call'[d].want) /\ log'[i].to = log[i].to
      BY <1>1, <1>4 DEF SameReads
    <3>2. QED
      BY <2>1, <2>2, <2>3, <3>1 DEF DecidedRight
<1>5. CASE ~IsWanted(arrived[i].what, call[d].want)
  <2>1. log[i].to \in {"hand", "lost", Aside(d)}
    BY <1>3, <1>5 DEF DecidedRight
  <2>2. Aside(d)' = Aside(d)
    BY DEF Aside, SameReads
  <2>3. ~IsWanted(arrived'[i].what, call'[d].want)
    BY <1>1, <1>5 DEF SameReads
  <2>4. QED
    BY <1>1, <2>1, <2>2, <2>3 DEF DecidedRight
<1>6. QED
  BY <1>4, <1>5

\* c decides the event in its hand as it should.
LEMMA SettleKeepsFirstWanted ==
    ASSUME TypeOK, Custody, NEW c \in Callers, FirstWanted(c),
           NEW fate \in Fates, Settle(c, fate), call' = call, arrived' = arrived,
           Holds(c),
           Waits(c) => IF GotWanted(c) THEN fate \in {"result", "lost"} /\ Idle(c)'
                                       ELSE fate \in {"lost", Aside(c)}
    PROVE  FirstWanted(c)'
<1>1. /\ Len(log') = Len(log) /\ Len(log) \in Nat
      /\ \A i \in 1..Len(log) :
             /\ log'[i].by = log[i].by
             /\ i = cur[c] => log'[i].to = fate
             /\ i # cur[c] => log'[i] = log[i]
  BY SettleFields
<1>2. \A i \in 1..Len(log) : log'[i].by = log[i].by
  BY <1>1
<1> SUFFICES ASSUME Waits(c), NEW i \in 1..Len(log),
                    i > call[c].from, log[i].by = c
             PROVE  DecidedRight(c, i)'
  BY <1>1, <1>2 DEF FirstWanted, Waits
<1>3. DecidedRight(c, i)
  BY DEF FirstWanted
<1>4. CASE IsWanted(arrived[i].what, call[c].want)
  <2>1. /\ \A j \in 1..Len(log) : j > call[c].from /\ log[j].by = c => j <= i
        /\ cur[c] = i
    BY <1>3, <1>4 DEF DecidedRight, Holds, Idle
  <2>2. GotWanted(c)
    BY <1>4, <2>1 DEF GotWanted, HasEvent, Event, Holds
  <2>3. fate \in {"result", "lost"} /\ Idle(c)'
    BY <2>2
  <2>4. log'[i].to = fate
    BY <1>1, <2>1
  <2>5. \A j \in 1..Len(log') : j > call'[c].from /\ log'[j].by = c => j <= i
    BY <1>1, <1>2, <2>1
  <2>6. QED
    BY <1>4, <2>3, <2>4, <2>5 DEF DecidedRight
<1>5. CASE ~IsWanted(arrived[i].what, call[c].want)
  <2>1. log[i].to \in {"hand", "lost", Aside(c)}
    BY <1>3, <1>5 DEF DecidedRight
  <2>2. i = cur[c] => fate \in {"lost", Aside(c)}
    BY <1>5 DEF GotWanted, HasEvent, Event
  <2>3. log'[i].to \in {"hand", "lost", Aside(c)}
    <3>1. CASE i = cur[c]
      BY <3>1, <1>1, <2>2
    <3>2. CASE i # cur[c]
      BY <3>2, <1>1, <2>1
    <3>3. QED
      BY <3>1, <3>2
  <2>4. Aside(c)' = Aside(c)
    BY DEF Aside
  <2>5. QED
    BY <1>5, <2>3, <2>4 DEF DecidedRight
<1>6. QED
  BY <1>4, <1>5

\* The other callers when c decides.
LEMMA SettleKeepsOthersReads ==
    ASSUME TypeOK, Custody, NEW c \in Callers, NEW fate \in Fates,
           Settle(c, fate), call' = call, arrived' = arrived,
           NEW d \in Callers \ {c}
    PROVE  SameReads(d)
<1>1. /\ Len(log') = Len(log) /\ Len(log) \in Nat
      /\ \A i \in 1..Len(log) :
             /\ log'[i].by = log[i].by
             /\ ~(Holds(c) /\ i = cur[c]) => log'[i] = log[i]
  BY SettleFields
<1>2. Holds(c) => log[cur[c]] = [by |-> c, to |-> "hand"]
  BY DEF Custody
<1>3. \A i \in 1..Len(log) : log'[i].by = d \/ log[i].by = d => log'[i] = log[i]
  <2> SUFFICES ASSUME NEW i \in 1..Len(log), Holds(c), i = cur[c]
               PROVE  log'[i].by # d /\ log[i].by # d
    BY <1>1
  <2>1. log[i].by = c
    BY <1>2
  <2>2. QED
    BY <1>1, <2>1
<1>4. QED
  BY <1>1, <1>3 DEF SameReads

\* Nothing is read or decided.
LEMMA SameLogSameReads ==
    ASSUME TypeOK, NEW d \in Callers, log' = log,
           \A i \in 1..Len(log) : arrived'[i] = arrived[i],
           call'[d].mode = call[d].mode, call'[d].want = call[d].want,
           call'[d].block = call[d].block, call'[d].from = call[d].from
    PROVE  SameReads(d)
  BY LenProperties DEF TypeOK, SameReads

LEMMA UnwindKeepsFirstWanted ==
    ASSUME TypeOK, Custody, NEW c \in Callers, ~Idle(c), Unwind(c),
           call' = call, arrived' = arrived,
           NEW d \in Callers, FirstWanted(d)
    PROVE  FirstWanted(d)'
<1>1. Settle(c, "lost") /\ "lost" \in Fates
  BY DEF Unwind, Fates
<1>2. CASE d = c /\ Holds(c)
  <2>1. Idle(c)'
    BY DEF Unwind, Stack, Idle
  <2>2. QED
    BY <1>1, <1>2, <2>1, SettleKeepsFirstWanted
<1>3. CASE d = c /\ ~Holds(c)
  <2>1. log' = log
    BY <1>1, <1>3 DEF Settle
  <2>2. QED
    BY <1>3, <2>1, SameLogSameReads, SameReadsKeepFirstWanted
<1>4. CASE d # c
  <2>1. SameReads(d)
    BY <1>1, <1>4, SettleKeepsOthersReads
  <2>2. Idle(d)' \/ (pc'[d] = pc[d] /\ cur'[d] = cur[d])
    BY DEF Unwind, Forget, Stack, Idle
  <2>3. QED
    BY <2>1, <2>2, SameReadsKeepFirstWanted
<1>5. QED
  BY <1>2, <1>3, <1>4

LEMMA FinishKeepsFirstWanted ==
    ASSUME TypeOK, Custody, NEW c \in Callers, ~Idle(c),
           NEW outcome, NEW fate \in Fates, Finish(c, outcome, fate),
           Holds(c) => fate = "result" /\ (Waits(c) => GotWanted(c)),
           call' = call, arrived' = arrived,
           NEW d \in Callers, FirstWanted(d)
    PROVE  FirstWanted(d)'
<1>1. CASE pending[Thread(c)] = "raise"
  BY <1>1, UnwindKeepsFirstWanted DEF Finish
<1>2. CASE pending[Thread(c)] # "raise"
  <2>1. Settle(c, fate) /\ pc' = [pc EXCEPT ![c] = "idle"] /\ Forget({c})
    BY <1>2 DEF Finish, Goto
  <2>2. CASE d = c /\ Holds(c)
    <3>1. Idle(c)'
      BY <2>1 DEF Idle, TypeOK
    <3>2. QED
      BY <2>1, <2>2, <3>1, SettleKeepsFirstWanted
  <2>3. CASE d = c /\ ~Holds(c)
    <3>1. log' = log
      BY <2>1, <2>3 DEF Settle
    <3>2. QED
      BY <2>3, <3>1, SameLogSameReads, SameReadsKeepFirstWanted
  <2>4. CASE d # c
    <3>1. SameReads(d)
      BY <2>1, <2>4, SettleKeepsOthersReads
    <3>2. pc'[d] = pc[d] /\ cur'[d] = cur[d]
      BY <2>1, <2>4 DEF Forget, TypeOK
    <3>3. QED
      BY <3>1, <3>2, SameReadsKeepFirstWanted
  <2>5. QED
    BY <2>2, <2>3, <2>4
<1>3. QED
  BY <1>1, <1>2

LEMMA FirstWantedStep ==
    ASSUME TypeOK, Custody, [Next]_vars, NEW d \in Callers, FirstWanted(d)
    PROVE  FirstWanted(d)'
<1>0. Len(log) \in Nat /\ Len(arrived) \in Nat /\ Len(log) <= Len(arrived)
  BY LenProperties DEF TypeOK, Custody, Read
<1>1. CASE UNCHANGED <<arrived, log, pc, cur, call>>
  BY <1>1, SameLogSameReads, SameReadsKeepFirstWanted
<1>2. ASSUME NEW e \in Events, Arrive(e) PROVE FirstWanted(d)'
  <2>1. \A i \in 1..Len(log) : arrived'[i] = arrived[i]
    BY <1>0, <1>2 DEF Arrive, TypeOK
  <2>2. QED
    BY <1>2, <2>1, SameLogSameReads, SameReadsKeepFirstWanted DEF Arrive
<1>3. ASSUME NEW t \in Callers, NEW k \in Kinds, Interrupt(t, k)
      PROVE FirstWanted(d)'
  <2>1. /\ call'[d].mode = call[d].mode /\ call'[d].want = call[d].want
        /\ call'[d].block = call[d].block /\ call'[d].from = call[d].from
    <3>1. call[d] \in Calls
      BY DEF TypeOK
    <3>2. call'[d] \in {call[d], [call[d] EXCEPT !.disturbed = TRUE]}
      BY <1>3 DEF Interrupt
    <3>3. QED
      BY <3>1, <3>2 DEF Calls
  <2>2. QED
    BY <1>3, <2>1, SameLogSameReads, SameReadsKeepFirstWanted DEF Interrupt
<1>4. ASSUME NEW c \in Callers, NEW m \in Methods, NEW w \in Wants,
             NEW n \in Durations \cup {0}, NEW b \in BOOLEAN,
             Begin(c, m, w, n, b)
      PROVE FirstWanted(d)'
  <2>1. CASE d = c
    <3>1. call'[c].from = Len(log) /\ log' = log
      BY <1>4 DEF Begin, Call, TypeOK
    <3>2. QED
      BY <1>0, <2>1, <3>1 DEF FirstWanted
  <2>2. CASE d # c
    BY <1>4, <2>2, SameLogSameReads, SameReadsKeepFirstWanted
       DEF Begin, Goto, TypeOK
  <2>3. QED
    BY <2>1, <2>2
<1>5. ASSUME NEW c \in Callers,
             \/ KeepWaiting(c) \/ PollCall(c) \/ PollReady(c) \/ RecvCall(c)
             \/ RecvSkipped(c) \/ BlockReturn(c) \/ BlockBreak(c)
      PROVE FirstWanted(d)'
  <2>1. /\ log' = log /\ arrived' = arrived /\ call' = call
        /\ ~Idle(c) /\ ~Holds(c)
        /\ d # c => pc'[d] = pc[d] /\ cur'[d] = cur[d]
    BY <1>5 DEF KeepWaiting, PollCall, PollReady, RecvCall, RecvSkipped,
       BlockReturn, BlockBreak, Forget, Goto, Idle, Holds, TypeOK
  <2>2. QED
    BY <2>1, SameLogSameReads, SameReadsKeepFirstWanted
<1>6. ASSUME NEW c \in Callers,
             TimeIsUp(c) \/ PollNil(c) \/ Return(c) \/ EachEnds(c)
      PROVE FirstWanted(d)'
  <2>1. ~Idle(c) /\ arrived' = arrived /\ call' = call
    BY <1>6 DEF TimeIsUp, PollNil, Return, EachEnds, Idle
  <2>2. \E outcome : \E fate \in Fates :
            /\ Finish(c, outcome, fate)
            /\ Holds(c) => fate = "result" /\ (Waits(c) => GotWanted(c))
    <3>1. CASE Return(c)
      <4>1. Waits(c) => GotWanted(c)
        BY <3>1 DEF Return, Waits
      <4>2. QED
        BY <3>1, <4>1 DEF Return, Fates
    <3>2. CASE TimeIsUp(c) \/ PollNil(c) \/ EachEnds(c)
      BY <3>2 DEF TimeIsUp, PollNil, EachEnds, Holds, HasEvent, Fates
    <3>3. QED
      BY <1>6, <3>1, <3>2
  <2>3. QED
    BY <2>1, <2>2, FinishKeepsFirstWanted
<1>7. ASSUME NEW c \in Callers, ReadEvent(c) PROVE FirstWanted(d)'
  <2>1. /\ Len(log') = Len(log) + 1
        /\ \A i \in 1..Len(log) : log'[i] = log[i]
        /\ log'[Len(log) + 1] = [by |-> c, to |-> "hand"]
    BY <1>7, ReadEffect
  <2>2. /\ arrived' = arrived /\ call' = call
        /\ pc[c] = "reading" /\ pc'[c] = "hand" /\ cur'[c] = Len(log) + 1
        /\ d # c => pc'[d] = pc[d] /\ cur'[d] = cur[d]
    BY <1>7 DEF ReadEvent, Goto, Read, TypeOK
  <2>3. CASE d # c
    <3>1. SameReads(d)
      BY <1>0, <2>1, <2>2, <2>3 DEF SameReads
    <3>2. QED
      BY <2>2, <2>3, <3>1, SameReadsKeepFirstWanted
  <2>4. CASE d = c
    <3> SUFFICES ASSUME Waits(c), NEW i \in 1..Len(log'), i > call[c].from,
                        log'[i].by = c
                 PROVE  DecidedRight(c, i)'
      BY <2>2, <2>4 DEF FirstWanted, Waits
    <3>1. CASE i = Len(log) + 1
      <4>1. log'[i].to = "hand" /\ pc'[c] = "hand" /\ cur'[c] = i
        BY <2>1, <2>2, <3>1
      <4>2. \A j \in 1..Len(log') : j <= i
        BY <1>0, <2>1, <3>1
      <4>3. QED
        BY <4>1, <4>2 DEF DecidedRight
    <3>2. CASE i # Len(log) + 1
      <4>1. i \in 1..Len(log) /\ log'[i] = log[i] /\ log[i].by = c
        BY <1>0, <2>1, <3>2
      <4>2. DecidedRight(c, i)
        BY <2>4, <4>1 DEF FirstWanted
      <4>3. ~IsWanted(arrived[i].what, call[c].want)
            /\ log[i].to \in {"hand", "lost", Aside(c)}
        BY <2>2, <4>2 DEF DecidedRight, Idle
      <4>4. Aside(c)' = Aside(c)
        BY <2>2 DEF Aside
      <4>5. QED
        BY <2>2, <4>1, <4>3, <4>4 DEF DecidedRight
    <3>3. QED
      BY <3>1, <3>2
  <2>5. QED
    BY <2>3, <2>4
<1>8. ASSUME NEW c \in Callers, PassOn(c) PROVE FirstWanted(d)'
  <2>1. /\ arrived' = arrived /\ call' = call /\ ~Idle(c)
        /\ Settle(c, Aside(c)) /\ Aside(c) \in Fates
        /\ Waits(c) => ~GotWanted(c)
        /\ d # c => pc'[d] = pc[d] /\ cur'[d] = cur[d]
    BY <1>8 DEF PassOn, Aside, Fates, Goto, Idle, Waits, TypeOK
  <2>2. CASE d = c /\ Holds(c)
    BY <2>1, <2>2, SettleKeepsFirstWanted
  <2>3. CASE d = c /\ ~Holds(c)
    <3>1. log' = log
      BY <2>1, <2>3 DEF Settle
    <3>2. QED
      BY <2>1, <2>3, <3>1, SameLogSameReads, SameReadsKeepFirstWanted
  <2>4. CASE d # c
    BY <2>1, <2>4, SettleKeepsOthersReads, SameReadsKeepFirstWanted
  <2>5. QED
    BY <2>2, <2>3, <2>4
<1>9. ASSUME NEW c \in Callers, CheckInterrupts(c) PROVE FirstWanted(d)'
  <2>1. CASE pending[Thread(c)] = "raise"
    BY <1>9, <2>1, UnwindKeepsFirstWanted DEF CheckInterrupts, RubyPoints, Idle
  <2>2. CASE pending[Thread(c)] # "raise"
    BY <1>9, <2>2, <1>1 DEF CheckInterrupts
  <2>3. QED
    BY <2>1, <2>2
<1>10. QED
  BY <1>1, <1>2, <1>3, <1>4, <1>5, <1>6, <1>7, <1>8, <1>9
     DEF Next, Step, BlockEnds, Tick, ReadInterrupted, vars

\* The invariant of the runs, for any events, criteria and timeouts, and with
\* calls nested in blocks: wait_for never gives the event it waits for to its
\* block, never drops it while it goes on, and reads nothing after it
\* (node.rb:95-105, 111-133).
THEOREM WaitDecidesByCriteria == Spec => []WaitTakesFirstWanted
<1> DEFINE Inv == \A c \in Callers : FirstWanted(c)
<1>1. Init => Inv
  BY EmptySeq DEF Init, FirstWanted
<1>2. TypeOK /\ Custody /\ Inv /\ [Next]_vars => Inv'
  <2> SUFFICES ASSUME TypeOK, Custody, Inv, [Next]_vars, NEW c \in Callers
               PROVE  FirstWanted(c)'
    OBVIOUS
  <2>1. QED
    BY FirstWantedStep
<1>3. TypeOK /\ Inv => WaitTakesFirstWanted
  BY FirstWantedForAll
<1> HIDE DEF Inv
<1>4. QED
  BY <1>1, <1>2, <1>3, TypeCorrect, EventsInCustody, PTL DEF Spec

(***************************************************************************)
(* Every event a call reads is accounted for.                              *)
(***************************************************************************)

\* The fate f of an event that d has read agrees with d's call and how it ended.
FateFits(d, f) ==
    /\ f = "hand" => out[d] = "none"
    /\ f = "result" => out[d] = "event"
    /\ f = "lost" => out[d] = "raised"
    /\ f = "block" => call[d].mode # "recv" /\ call[d].block
    /\ f = "nowhere" => Waits(d) /\ ~call[d].block

\* d read the event at i in its last call.
HasRead(d, i) == i \in 1..Len(log) /\ i > call[d].from /\ log[i].by = d

Passed == {"block", "nowhere"}

Accounted(d, i) ==
    /\ FateFits(d, log[i].to)
    /\ log[i].to \notin Passed => \A j \in 1..Len(log) : HasRead(d, j) => j <= i

ReadsAccounted(d) == \A i \in 1..Len(log) : HasRead(d, i) => Accounted(d, i)

\* What d's call knows, beside what it has read.
Standing(d) ==
    /\ call[d].from <= Len(log)
    /\ Holds(d) => call[d].from < cur[d]
    /\ ~Idle(d) => out[d] = "none"
    /\ ~Idle(d) /\ call[d].mode = "each" => call[d].block
    /\ ~Idle(d) /\ Interrupted(d) => call[d].disturbed
    /\ out[d] = "raised" => call[d].disturbed

AccountOf(d) ==
    /\ Standing(d)
    /\ ReadsAccounted(d)
    /\ out[d] = "event" => \E i \in 1..Len(log) : HasRead(d, i) /\ log[i].to = "result"

LEMMA AccountForAll ==
    ASSUME TypeOK, \A d \in Callers : AccountOf(d)
    PROVE  NothingDisappears
<1>1. DOMAIN log = 1..Len(log)
  BY LenProperties DEF TypeOK
<1> SUFFICES ASSUME NEW c \in Callers
             PROVE  /\ \A i \in ReadBy(c) :
                           /\ FateFits(c, log[i].to)
                           /\ log[i].to \notin Passed => \A j \in ReadBy(c) : j <= i
                    /\ out[c] = "event" => \E i \in ReadBy(c) : log[i].to = "result"
                    /\ out[c] = "raised" => call[c].disturbed
  BY DEF NothingDisappears, FateFits, Passed
<1>2. \A i : i \in ReadBy(c) <=> HasRead(c, i)
  BY <1>1 DEF ReadBy, HasRead
<1>3. AccountOf(c)
  OBVIOUS
<1>4. ASSUME NEW i \in ReadBy(c)
      PROVE  /\ FateFits(c, log[i].to)
             /\ log[i].to \notin Passed => \A j \in ReadBy(c) : j <= i
  <2>1. HasRead(c, i) /\ i \in 1..Len(log)
    BY <1>2 DEF HasRead
  <2>2. Accounted(c, i)
    BY <1>3, <2>1 DEF AccountOf, ReadsAccounted
  <2>3. QED
    BY <1>2, <2>2 DEF Accounted, HasRead
<1>5. QED
  BY <1>2, <1>3, <1>4 DEF AccountOf, Standing

\* What a running call has read and does not hold, it has passed on.
LEMMA PassedUnlessHeld ==
    ASSUME TypeOK, Custody, NEW d \in Callers, AccountOf(d), ~Idle(d),
           NEW i \in 1..Len(log), HasRead(d, i), ~(Holds(d) /\ cur[d] = i)
    PROVE  log[i].to \in Passed
<1>1. FateFits(d, log[i].to) /\ out[d] = "none" /\ log[i].by = d
  BY DEF AccountOf, Standing, ReadsAccounted, Accounted, HasRead
<1>2. log[i].to # "hand"
  BY <1>1, LenProperties DEF Custody, TypeOK
<1>3. log[i].to \in Fates
  <2>1. log[i] \in [by : Callers, to : Fates]
    BY ElementOfSeq DEF TypeOK
  <2>2. QED
    BY <2>1
<1>4. QED
  BY <1>1, <1>2, <1>3 DEF FateFits, Fates, Passed

\* SameReads, in terms of what d has read.
LEMMA SameReadsHasRead ==
    ASSUME TypeOK, NEW d \in Callers, SameReads(d), NEW i
    PROVE  HasRead(d, i)' <=> HasRead(d, i)
<1>1. Len(log) \in Nat /\ Len(log') \in Nat
  BY LenProperties DEF SameReads, TypeOK
<1>2. HasRead(d, i)' => HasRead(d, i)
  BY <1>1 DEF SameReads, HasRead
<1>3. HasRead(d, i) => HasRead(d, i)'
  BY <1>1 DEF SameReads, HasRead
<1>4. QED
  BY <1>2, <1>3

\* A caller that reads and decides nothing keeps its account while its call goes
\* on, and when it ends without an event.
LEMMA SameReadsKeepAccount ==
    ASSUME TypeOK, Custody, NEW d \in Callers, AccountOf(d), SameReads(d), Standing(d)',
           \/ out'[d] = out[d]
           \/ ~Idle(d) /\ ~Holds(d) /\ out'[d] # "event"
    PROVE  AccountOf(d)'
<1>1. ASSUME NEW i \in 1..Len(log'), HasRead(d, i)'
      PROVE  Accounted(d, i)'
  <2>1. i \in 1..Len(log) /\ HasRead(d, i) /\ log'[i] = log[i]
    BY <1>1, SameReadsHasRead DEF SameReads, HasRead
  <2>2. Accounted(d, i)
    BY <2>1 DEF AccountOf, ReadsAccounted
  <2>3. FateFits(d, log[i].to)'
    <3>1. call'[d].mode = call[d].mode /\ call'[d].block = call[d].block
      BY DEF SameReads
    <3>2. CASE out'[d] = out[d]
      BY <2>1, <2>2, <3>1, <3>2 DEF Accounted, FateFits, Waits
    <3>3. CASE ~Idle(d) /\ ~Holds(d)
      <4>1. log[i].to \in Passed
        BY <2>1, <3>3, PassedUnlessHeld
      <4>2. QED
        BY <2>1, <2>2, <3>1, <4>1 DEF Accounted, FateFits, Waits, Passed
    <3>4. QED
      BY <3>2, <3>3
  <2>4. (log[i].to \notin Passed => \A j \in 1..Len(log) : HasRead(d, j) => j <= i)'
    BY <2>1, <2>2, SameReadsHasRead DEF Accounted, HasRead
  <2>5. QED
    BY <2>3, <2>4 DEF Accounted
<1>2. ASSUME out'[d] = "event"
      PROVE  \E i \in 1..Len(log') : HasRead(d, i)' /\ log'[i].to = "result"
  <2>1. PICK i \in 1..Len(log) : HasRead(d, i) /\ log[i].to = "result"
    BY <1>2 DEF AccountOf
  <2>2. HasRead(d, i)' /\ log'[i] = log[i]
    BY <2>1, SameReadsHasRead DEF SameReads, HasRead
  <2>3. QED
    BY <2>1, <2>2 DEF HasRead
<1>3. QED
  BY <1>1, <1>2 DEF AccountOf, ReadsAccounted

\* c decides the event in its hand, with a fate that fits how its call goes on.
LEMMA SettleKeepsAccount ==
    ASSUME TypeOK, Custody, NEW c \in Callers, AccountOf(c), Standing(c)', Holds(c),
           NEW fate \in Fates, Settle(c, fate), call' = call, FateFits(c, fate)',
           out'[c] = "event" => fate = "result"
    PROVE  AccountOf(c)'
<1>1. /\ Len(log') = Len(log) /\ Len(log) \in Nat
      /\ \A i \in 1..Len(log) : /\ log'[i].by = log[i].by
                                /\ i = cur[c] => log'[i].to = fate
                                /\ i # cur[c] => log'[i] = log[i]
  BY SettleFields
<1>2. \A i : HasRead(c, i)' <=> HasRead(c, i)
  BY <1>1 DEF HasRead
<1>3. cur[c] \in 1..Len(log) /\ log[cur[c]] = [by |-> c, to |-> "hand"]
  BY LenProperties DEF Custody, TypeOK
<1>4. HasRead(c, cur[c])
  BY <1>3 DEF HasRead, AccountOf, Standing
<1>5. ASSUME NEW i \in 1..Len(log'), HasRead(c, i)'
      PROVE  Accounted(c, i)'
  <2>1. i \in 1..Len(log) /\ HasRead(c, i) /\ Accounted(c, i) /\ ~Idle(c)
    BY <1>1, <1>2, <1>5 DEF AccountOf, ReadsAccounted, Holds, Idle
  <2>2. CASE i = cur[c]
    <3>1. log'[i].to = fate /\ log[i].to = "hand"
      BY <1>1, <1>3, <2>1, <2>2
    <3>2. \A j \in 1..Len(log) : HasRead(c, j) => j <= i
      BY <2>1, <3>1 DEF Accounted, Passed
    <3>3. QED
      BY <1>1, <1>2, <3>1, <3>2 DEF Accounted
  <2>3. CASE i # cur[c]
    <3>1. log'[i] = log[i] /\ log[i].to \in Passed
      BY <1>1, <2>1, <2>3, PassedUnlessHeld
    <3>2. FateFits(c, log[i].to)'
      BY <2>1, <3>1 DEF Accounted, FateFits, Waits, Passed
    <3>3. QED
      BY <3>1, <3>2 DEF Accounted
  <2>4. QED
    BY <2>2, <2>3
<1>6. out'[c] = "event" => \E i \in 1..Len(log') : HasRead(c, i)' /\ log'[i].to = "result"
  BY <1>1, <1>2, <1>3, <1>4
<1>7. QED
  BY <1>5, <1>6 DEF AccountOf, ReadsAccounted

\* A caller that has no part in a step.
LEMMA BystanderKeepsAccount ==
    ASSUME TypeOK, Custody, NEW d \in Callers, AccountOf(d), SameReads(d),
           pc'[d] = pc[d], cur'[d] = cur[d], call'[d] = call[d], out'[d] = out[d],
           Interrupted(d)' => Interrupted(d)
    PROVE  AccountOf(d)'
<1>1. call[d].from \in Nat /\ Len(log) \in Nat /\ Len(log') \in Nat /\ Len(log) <= Len(log')
  BY LenProperties DEF TypeOK, Calls, SameReads
<1>2. Standing(d)'
  BY <1>1 DEF AccountOf, Standing, Idle, Holds
<1>3. QED
  BY <1>2, SameReadsKeepAccount

\* A call that has no event in hand goes on, or ends without one.
LEMMA EmptyHandedKeepsAccount ==
    ASSUME TypeOK, Custody, NEW c \in Callers, AccountOf(c), SameReads(c),
           ~Idle(c), ~Holds(c), ~Holds(c)', call'[c] = call[c],
           \/ out'[c] = out[c] /\ pending' = pending
           \/ Idle(c)' /\ out'[c] # "event" /\ (out'[c] = "raised" => call[c].disturbed)
    PROVE  AccountOf(c)'
<1>1. call[c].from \in Nat /\ Len(log) \in Nat /\ Len(log') \in Nat /\ Len(log) <= Len(log')
  BY LenProperties DEF TypeOK, Calls, SameReads
<1>2. Standing(c)'
  BY <1>1 DEF AccountOf, Standing, Idle, Interrupted
<1>3. QED
  BY <1>2, SameReadsKeepAccount

\* An exception ends calls that know of it, and loses only what the top one holds.
LEMMA UnwindKeepsAccount ==
    ASSUME TypeOK, Stacks, Custody, NEW c \in Callers, OnTop(c), ~Idle(c), Unwind(c),
           pending[Thread(c)] = "raise", pending' = [pending EXCEPT ![Thread(c)] = "none"],
           call' = call, arrived' = arrived,
           NEW d \in Callers, AccountOf(d)
    PROVE  AccountOf(d)'
<1>1. Settle(c, "lost") /\ "lost" \in Fates
  BY DEF Unwind, Fates
<1>2. Len(log') = Len(log)
  BY <1>1, SettleFields
<1>3. d \in Stack(c) /\ ~Idle(d) => call[d].disturbed
  BY DEF AccountOf, Standing, Interrupted, Stack
<1>4. CASE d = c
  <2>1. Idle(c)' /\ ~Holds(c)' /\ out'[c] = "raised" /\ call[c].disturbed
    BY <1>3, <1>4 DEF Unwind, Stack, Idle, Holds
  <2>2. CASE Holds(c)
    <3>1. Standing(c)'
      BY <1>2, <1>4, <2>1 DEF AccountOf, Standing
    <3>2. FateFits(c, "lost")'
      BY <2>1 DEF FateFits
    <3>3. QED
      BY <1>1, <1>4, <2>1, <2>2, <3>1, <3>2, SettleKeepsAccount
  <2>3. CASE ~Holds(c)
    <3>1. SameReads(c)
      BY <1>1, <2>3, SameLogSameReads DEF Settle
    <3>2. QED
      BY <1>4, <2>1, <2>3, <3>1, EmptyHandedKeepsAccount
  <2>4. QED
    BY <2>2, <2>3
<1>5. CASE d # c
  <2>1. SameReads(d)
    BY <1>1, <1>5, SettleKeepsOthersReads
  <2>2. CASE d \in Stack(c) /\ ~Idle(d)
    <3>1. Idle(d)' /\ ~Holds(d)' /\ out'[d] = "raised"
      BY <2>2 DEF Unwind, Idle, Holds
    <3>2. ~Holds(d)
      BY <1>5, <2>2, OthersOfStack DEF Holds, Idle
    <3>3. QED
      BY <1>3, <2>1, <2>2, <3>1, <3>2, EmptyHandedKeepsAccount
  <2>3. CASE d \in Stack(c) /\ Idle(d)
    <3>1. Idle(d)' /\ ~Holds(d)' /\ out'[d] = out[d]
      BY <2>3 DEF Unwind, Idle, Holds
    <3>2. Standing(d)'
      BY <1>2, <3>1 DEF AccountOf, Standing
    <3>3. QED
      BY <2>1, <3>1, <3>2, SameReadsKeepAccount
  <2>4. CASE d \notin Stack(c)
    <3>1. pc'[d] = pc[d] /\ cur'[d] = cur[d] /\ out'[d] = out[d]
      BY <2>4 DEF Unwind, Forget
    <3>2. Interrupted(d)' => Interrupted(d)
      BY DEF Interrupted, TypeOK
    <3>3. QED
      BY <2>1, <3>1, <3>2, BystanderKeepsAccount
  <2>5. QED
    BY <2>2, <2>3, <2>4
<1>6. QED
  BY <1>4, <1>5

\* The method returns: what it held is its result.
LEMMA FinishKeepsAccount ==
    ASSUME TypeOK, Stacks, Custody, NEW c \in Callers, OnTop(c), ~Idle(c),
           NEW outcome, NEW fate \in Fates, Finish(c, outcome, fate),
           outcome \notin {"none", "raised"},
           Holds(c) => fate = "result" /\ outcome = "event",
           ~Holds(c) => outcome # "event",
           call' = call, arrived' = arrived,
           NEW d \in Callers, AccountOf(d)
    PROVE  AccountOf(d)'
<1>1. pending' = [pending EXCEPT ![Thread(c)] = "none"]
  BY DEF Finish
<1>2. CASE pending[Thread(c)] = "raise"
  BY <1>1, <1>2, UnwindKeepsAccount DEF Finish
<1>3. CASE pending[Thread(c)] # "raise"
  <2>1. /\ Settle(c, fate) /\ Forget({c}) /\ pc' = [pc EXCEPT ![c] = "idle"]
        /\ out' = [out EXCEPT ![c] = outcome]
    BY <1>3 DEF Finish, Goto
  <2>2. Idle(c)' /\ ~Holds(c)' /\ out'[c] = outcome
    BY <2>1 DEF Idle, Holds, TypeOK
  <2>3. CASE d = c /\ Holds(c)
    <3>1. Len(log') = Len(log)
      BY <2>1, SettleFields
    <3>2. Standing(c)'
      BY <2>2, <2>3, <3>1 DEF AccountOf, Standing
    <3>3. FateFits(c, fate)'
      BY <2>2, <2>3 DEF FateFits
    <3>4. QED
      BY <2>1, <2>3, <3>2, <3>3, SettleKeepsAccount
  <2>4. CASE d = c /\ ~Holds(c)
    <3>1. SameReads(c)
      BY <2>1, <2>4, SameLogSameReads DEF Settle
    <3>2. QED
      BY <2>2, <2>4, <3>1, EmptyHandedKeepsAccount
  <2>5. CASE d # c
    <3>1. SameReads(d)
      BY <2>1, <2>5, SettleKeepsOthersReads
    <3>2. pc'[d] = pc[d] /\ cur'[d] = cur[d] /\ out'[d] = out[d]
      BY <2>1, <2>5 DEF Forget, TypeOK
    <3>3. Interrupted(d)' => Interrupted(d)
      BY <1>1 DEF Interrupted, TypeOK
    <3>4. QED
      BY <3>1, <3>2, <3>3, BystanderKeepsAccount
  <2>6. QED
    BY <2>3, <2>4, <2>5
<1>4. QED
  BY <1>2, <1>3

LEMMA AccountStep ==
    ASSUME TypeOK, Stacks, Custody, [Next]_vars, NEW d \in Callers, AccountOf(d)
    PROVE  AccountOf(d)'
<1>0. Len(log) \in Nat /\ Len(arrived) \in Nat /\ Len(log) <= Len(arrived)
  BY LenProperties DEF TypeOK, Custody, Read
<1>1. CASE UNCHANGED <<arrived, log, pc, cur, call, pending, out>>
  BY <1>1, SameLogSameReads, BystanderKeepsAccount DEF Interrupted
<1>2. ASSUME NEW e \in Events, Arrive(e) PROVE AccountOf(d)'
  <2>1. \A i \in 1..Len(log) : arrived'[i] = arrived[i]
    BY <1>0, <1>2 DEF Arrive, TypeOK
  <2>2. QED
    BY <1>2, <2>1, SameLogSameReads, BystanderKeepsAccount DEF Arrive, Interrupted
<1>3. ASSUME NEW t \in Callers, NEW k \in Kinds, Interrupt(t, k)
      PROVE AccountOf(d)'
  <2>1. /\ call'[d].mode = call[d].mode /\ call'[d].want = call[d].want
        /\ call'[d].block = call[d].block /\ call'[d].from = call[d].from
        /\ call[d].disturbed => call'[d].disturbed
        /\ Thread(d) = t /\ ~Idle(d) => call'[d].disturbed
    <3>1. call[d] \in Calls
      BY DEF TypeOK
    <3>2. call'[d] = IF Thread(d) = t /\ ~Idle(d)
                     THEN [call[d] EXCEPT !.disturbed = TRUE] ELSE call[d]
      BY <1>3 DEF Interrupt
    <3>3. QED
      BY <3>1, <3>2 DEF Calls
  <2>2. UNCHANGED <<arrived, log, pc, cur, out>>
    BY <1>3 DEF Interrupt
  <2>3. SameReads(d)
    BY <2>1, <2>2, SameLogSameReads
  <2>4. Interrupted(d)' => Interrupted(d) \/ Thread(d) = t
    BY <1>3 DEF Interrupt, Interrupted, TypeOK
  <2>5. Standing(d)'
    BY <2>1, <2>2, <2>4 DEF AccountOf, Standing, Idle, Holds
  <2>6. QED
    BY <2>2, <2>3, <2>5, SameReadsKeepAccount
<1>4. ASSUME NEW c \in Callers, NEW m \in Methods, NEW w \in Wants,
             NEW n \in Durations \cup {0}, NEW b \in BOOLEAN,
             Begin(c, m, w, n, b)
      PROVE AccountOf(d)'
  <2>1. CASE d = c
    <3>1. /\ call'[c] = Call(c, m, w, n, b) /\ log' = log /\ out'[c] = "none"
          /\ pc'[c] = LoopTop(m) /\ pending' = pending /\ (m = "each" => b)
      BY <1>4 DEF Begin, Goto, TypeOK
    <3>2. call'[c].from = Len(log) /\ call'[c].disturbed = Interrupted(c)
          /\ call'[c].mode = m /\ call'[c].block = b
      BY <3>1 DEF Call
    <3>3. Standing(c)'
      <4>1. ~Holds(c)'
        BY <3>1 DEF LoopTop, Holds
      <4>2. Interrupted(c)' => call'[c].disturbed
        BY <3>1, <3>2 DEF Interrupted
      <4>3. Len(log') = Len(log)
        BY <3>1
      <4>4. QED
        BY <1>0, <3>1, <3>2, <4>1, <4>2, <4>3 DEF Standing
    <3>4. QED
      BY <1>0, <2>1, <3>1, <3>2, <3>3 DEF AccountOf, ReadsAccounted, HasRead
  <2>2. CASE d # c
    BY <1>4, <2>2, SameLogSameReads, BystanderKeepsAccount
       DEF Begin, Goto, Interrupted, TypeOK
  <2>3. QED
    BY <2>1, <2>2
<1>5. ASSUME NEW c \in Callers,
             \/ KeepWaiting(c) \/ PollCall(c) \/ PollReady(c) \/ RecvCall(c)
             \/ RecvSkipped(c) \/ BlockReturn(c) \/ BlockBreak(c)
      PROVE AccountOf(d)'
  <2>1. /\ log' = log /\ arrived' = arrived /\ call' = call /\ pending' = pending
        /\ ~Idle(c) /\ ~Holds(c) /\ ~Holds(c)'
        /\ d # c => pc'[d] = pc[d] /\ cur'[d] = cur[d] /\ out'[d] = out[d]
    BY <1>5 DEF KeepWaiting, PollCall, PollReady, RecvCall, RecvSkipped,
       BlockReturn, BlockBreak, Forget, Goto, LoopTop, Idle, Holds, TypeOK
  <2>2. out'[c] = out[c] \/ (Idle(c)' /\ out'[c] = "broke")
    BY <1>5 DEF KeepWaiting, PollCall, PollReady, RecvCall, RecvSkipped,
       BlockReturn, BlockBreak, Goto, Idle, TypeOK
  <2>3. SameReads(d)
    BY <2>1, SameLogSameReads
  <2>4. CASE d = c
    BY <2>1, <2>2, <2>3, <2>4, EmptyHandedKeepsAccount
  <2>5. CASE d # c
    BY <2>1, <2>3, <2>5, BystanderKeepsAccount DEF Interrupted
  <2>6. QED
    BY <2>4, <2>5
<1>6. ASSUME NEW c \in Callers,
             TimeIsUp(c) \/ PollNil(c) \/ Return(c) \/ EachEnds(c)
      PROVE AccountOf(d)'
  <2>1. ~Idle(c) /\ OnTop(c) /\ arrived' = arrived /\ call' = call
    BY <1>6 DEF TimeIsUp, PollNil, Return, EachEnds, Runs, Idle
  <2>2. \E outcome : \E fate \in Fates :
            /\ Finish(c, outcome, fate) /\ outcome \notin {"none", "raised"}
            /\ Holds(c) => fate = "result" /\ outcome = "event"
            /\ ~Holds(c) => outcome # "event"
    <3>1. CASE Return(c)
      BY <3>1 DEF Return, Fates, Holds, HasEvent
    <3>2. CASE TimeIsUp(c) \/ PollNil(c) \/ EachEnds(c)
      BY <3>2 DEF TimeIsUp, PollNil, EachEnds, Holds, HasEvent, Fates
    <3>3. QED
      BY <1>6, <3>1, <3>2
  <2>3. QED
    BY <2>1, <2>2, FinishKeepsAccount
<1>7. ASSUME NEW c \in Callers, ReadEvent(c) PROVE AccountOf(d)'
  <2>1. /\ Len(log') = Len(log) + 1
        /\ \A i \in 1..Len(log) : log'[i] = log[i]
        /\ log'[Len(log) + 1] = [by |-> c, to |-> "hand"]
    BY <1>7, ReadEffect
  <2>2. /\ arrived' = arrived /\ call' = call /\ out' = out /\ pending' = pending
        /\ pc[c] = "reading" /\ pc'[c] = "hand" /\ cur'[c] = Len(log) + 1
        /\ d # c => pc'[d] = pc[d] /\ cur'[d] = cur[d]
    BY <1>7 DEF ReadEvent, Goto, Read, TypeOK
  <2>3. CASE d # c
    <3>1. SameReads(d)
      BY <1>0, <2>1, <2>2, <2>3 DEF SameReads
    <3>2. QED
      BY <2>2, <2>3, <3>1, BystanderKeepsAccount DEF Interrupted
  <2>4. CASE d = c
    <3>1. ~Idle(c) /\ ~Holds(c) /\ out[c] = "none" /\ call[c].from \in Nat
      BY <2>2, <2>4 DEF Idle, Holds, AccountOf, Standing, TypeOK, Calls
    <3>2. Standing(c)'
      BY <1>0, <2>1, <2>2, <2>4, <3>1 DEF AccountOf, Standing, Idle, Interrupted
    <3>3. ASSUME NEW i \in 1..Len(log'), HasRead(c, i)'
          PROVE  Accounted(c, i)'
      <4>1. CASE i = Len(log) + 1
        <5>1. FateFits(c, log[i].to)'
          BY <2>1, <2>2, <3>1, <4>1 DEF FateFits
        <5>2. \A j \in 1..Len(log') : j <= i
          BY <1>0, <2>1, <4>1
        <5>3. QED
          BY <5>1, <5>2 DEF Accounted
      <4>2. CASE i # Len(log) + 1
        <5>1. i \in 1..Len(log) /\ log'[i] = log[i] /\ HasRead(c, i)
          BY <1>0, <2>1, <2>2, <3>3, <4>2 DEF HasRead
        <5>2. Accounted(c, i) /\ log[i].to \in Passed
          BY <2>4, <3>1, <5>1, PassedUnlessHeld DEF AccountOf, ReadsAccounted
        <5>3. QED
          BY <2>2, <5>1, <5>2 DEF Accounted, FateFits, Waits, Passed
      <4>3. QED
        BY <4>1, <4>2
    <3>4. QED
      BY <2>2, <2>4, <3>1, <3>2, <3>3 DEF AccountOf, ReadsAccounted
  <2>5. QED
    BY <2>3, <2>4
<1>8. ASSUME NEW c \in Callers, PassOn(c) PROVE AccountOf(d)'
  <2>1. /\ arrived' = arrived /\ call' = call /\ pending' = pending /\ out' = out
        /\ Settle(c, Aside(c)) /\ Aside(c) \in Fates
        /\ ~Idle(c) /\ ~Holds(c)'
        /\ d # c => pc'[d] = pc[d] /\ cur'[d] = cur[d]
    BY <1>8 DEF PassOn, Aside, Fates, Goto, LoopTop, Idle, Holds, TypeOK
  <2>2. CASE d = c /\ Holds(c)
    <3>1. out[c] = "none" /\ (call[c].mode = "each" => call[c].block)
      BY <2>1, <2>2 DEF AccountOf, Standing
    <3>2. Standing(c)'
      <4>1. Len(log') = Len(log)
        BY <2>1, SettleFields
      <4>2. QED
        BY <2>1, <2>2, <3>1, <4>1 DEF AccountOf, Standing, Interrupted
    <3>3. call[c].mode # "recv" /\ (Waits(c) \/ call[c].mode = "each")
      BY <1>8 DEF PassOn, Waits
    <3>4. FateFits(c, Aside(c))'
      BY <2>1, <3>1, <3>3 DEF FateFits, Aside, Waits
    <3>5. QED
      BY <2>1, <2>2, <3>1, <3>2, <3>4, SettleKeepsAccount DEF Aside
  <2>3. CASE d = c /\ ~Holds(c)
    <3>1. SameReads(c)
      BY <2>1, <2>3, SameLogSameReads DEF Settle
    <3>2. QED
      BY <2>1, <2>3, <3>1, EmptyHandedKeepsAccount
  <2>4. CASE d # c
    BY <2>1, <2>4, SettleKeepsOthersReads, BystanderKeepsAccount DEF Interrupted
  <2>5. QED
    BY <2>2, <2>3, <2>4
<1>9. ASSUME NEW c \in Callers, CheckInterrupts(c) PROVE AccountOf(d)'
  <2>1. CASE pending[Thread(c)] = "raise"
    BY <1>9, <2>1, UnwindKeepsAccount DEF CheckInterrupts, Runs, RubyPoints, Idle
  <2>2. CASE pending[Thread(c)] # "raise"
    <3>1. Interrupted(d)' => Interrupted(d)
      BY <1>9 DEF CheckInterrupts, Interrupted, TypeOK
    <3>2. QED
      BY <1>9, <2>2, <3>1, SameLogSameReads, BystanderKeepsAccount DEF CheckInterrupts
  <2>3. QED
    BY <2>1, <2>2
<1>10. QED
  BY <1>1, <1>2, <1>3, <1>4, <1>5, <1>6, <1>7, <1>8, <1>9
     DEF Next, Step, BlockEnds, Tick, ReadInterrupted, vars

\* The invariant of the runs, for any callers, events, timeouts and interrupts:
\* an event once read is returned, given to the block, dropped by a wait_for
\* without one, or lost with an exception, and nowhere else (node.rb:84-88,
\* 99-103, 121-125).
THEOREM EventsAccountedFor == Spec => []NothingDisappears
<1> DEFINE Inv == \A c \in Callers : AccountOf(c)
<1>1. Init => Stacks /\ Inv
  <2> SUFFICES ASSUME Init PROVE Stacks /\ Inv
    OBVIOUS
  <2>1. Stacks
    BY DEF Init, Stacks, Idle
  <2>2. Len(log) = 0 /\ 1..Len(log) = {}
    BY EmptySeq DEF Init
  <2>3. ASSUME NEW c \in Callers PROVE AccountOf(c)
    <3>1. Idle(c) /\ ~Holds(c) /\ out[c] = "none" /\ call[c].from = 0
      BY DEF Init, Idle, Holds, NoCall
    <3>2. QED
      BY <2>2, <3>1 DEF AccountOf, Standing, ReadsAccounted
  <2>4. QED
    BY <2>1, <2>3
<1>2. TypeOK /\ Stacks /\ Custody /\ Inv /\ [Next]_vars => (Stacks /\ Inv)'
  <2> SUFFICES ASSUME TypeOK, Stacks, Custody, Inv, [Next]_vars
               PROVE  Stacks' /\ Inv'
    OBVIOUS
  <2>1. Stacks'
    BY StacksStep
  <2>2. ASSUME NEW c \in Callers PROVE AccountOf(c)'
    BY AccountStep
  <2>3. QED
    BY <2>1, <2>2
<1>3. TypeOK /\ Inv => NothingDisappears
  BY AccountForAll
<1> HIDE DEF Inv
<1>4. QED
  BY <1>1, <1>2, <1>3, TypeCorrect, EventsInCustody, PTL DEF Spec

(***************************************************************************)
(* The read after a poll.                                                  *)
(***************************************************************************)

PolledFinds(c) == Waits(c) /\ pc[c] \in {"recv", "reading"} => Len(log) < Len(arrived)

\* Only a step of wait_for itself takes it to its read, and there it stays with
\* what it found unless another call reads.
LEMMA PolledStep ==
    ASSUME TypeOK, Stacks, Custody, OneThread, [Next]_vars,
           NEW d \in Callers, PolledFinds(d)
    PROVE  PolledFinds(d)'
<1>0. Len(log) \in Nat /\ Len(arrived) \in Nat /\ Len(log) <= Len(arrived)
  BY LenProperties DEF TypeOK, Custody, Read
<1> DEFINE Reads(c) == pc[c] \in {"recv", "reading"}
<1>1. ASSUME Len(log') = Len(log), arrived' = arrived, call'[d] = call[d],
             ~Reads(d)' \/ Reads(d)
      PROVE  PolledFinds(d)'
  BY <1>1 DEF PolledFinds, Waits
<1>2. CASE UNCHANGED <<arrived, log, pc, call>>
  BY <1>1, <1>2
<1>3. ASSUME NEW e \in Events, Arrive(e) PROVE PolledFinds(d)'
  <2>1. Len(arrived') = Len(arrived) + 1 /\ log' = log
    BY <1>3 DEF Arrive, TypeOK
  <2>2. QED
    BY <1>0, <2>1 DEF PolledFinds
<1>4. ASSUME NEW t \in Callers, NEW k \in Kinds, Interrupt(t, k) PROVE PolledFinds(d)'
  <2>1. call'[d].mode = call[d].mode
    BY <1>4 DEF Interrupt, TypeOK, Calls
  <2>2. QED
    BY <1>4, <2>1 DEF Interrupt, PolledFinds, Waits
<1>5. ASSUME NEW c \in Callers, NEW m \in Methods, NEW w \in Wants,
             NEW n \in Durations \cup {0}, NEW b \in BOOLEAN, Begin(c, m, w, n, b)
      PROVE  PolledFinds(d)'
  <2>1. /\ log' = log /\ arrived' = arrived
        /\ pc' = [pc EXCEPT ![c] = LoopTop(m)]
        /\ call' = [call EXCEPT ![c] = Call(c, m, w, n, b)]
    BY <1>5 DEF Begin, Goto
  <2>2. CASE d = c
    <3>1. pc'[c] = LoopTop(m) /\ call'[c].mode = m
      BY <2>1 DEF Call, TypeOK
    <3>2. QED
      BY <2>2, <3>1 DEF PolledFinds, Waits, LoopTop
  <2>3. CASE d # c
    BY <1>1, <2>1, <2>3 DEF TypeOK
  <2>4. QED
    BY <2>2, <2>3
<1>6. ASSUME NEW c \in Callers, Unwind(c), arrived' = arrived, call' = call
      PROVE  PolledFinds(d)'
  <2>1. Len(log') = Len(log)
    BY <1>6, SettleFields DEF Unwind, Fates
  <2>2. ~Reads(d)' \/ Reads(d)
    BY <1>6 DEF Unwind
  <2>3. QED
    BY <1>1, <1>6, <2>1, <2>2
<1>7. ASSUME NEW c \in Callers,
             TimeIsUp(c) \/ PollNil(c) \/ Return(c) \/ EachEnds(c) \/ CheckInterrupts(c)
      PROVE  PolledFinds(d)'
  <2>1. arrived' = arrived /\ call' = call
    BY <1>7 DEF TimeIsUp, PollNil, Return, EachEnds, CheckInterrupts
  <2>2. CASE Unwind(c)
    BY <1>6, <2>1, <2>2
  <2>3. CASE CheckInterrupts(c) /\ ~Unwind(c)
    BY <1>2, <2>1, <2>3 DEF CheckInterrupts
  <2>4. CASE ~CheckInterrupts(c) /\ ~Unwind(c)
    <3>1. \E outcome : \E fate \in Fates : Finish(c, outcome, fate)
      BY <1>7, <2>4 DEF TimeIsUp, PollNil, Return, EachEnds, Fates
    <3>2. pc' = [pc EXCEPT ![c] = "idle"] /\ \E fate \in Fates : Settle(c, fate)
      BY <2>4, <3>1 DEF Finish, Goto
    <3>3. Len(log') = Len(log)
      BY <3>2, SettleFields
    <3>4. ~Reads(d)' \/ Reads(d)
      BY <3>2 DEF TypeOK
    <3>5. QED
      BY <1>1, <2>1, <3>3, <3>4
  <2>5. QED
    BY <2>2, <2>3, <2>4
<1>8. ASSUME NEW c \in Callers,
             KeepWaiting(c) \/ PollCall(c) \/ RecvSkipped(c) \/ BlockBreak(c) \/ RecvCall(c)
      PROVE  PolledFinds(d)'
  <2>1. log' = log /\ arrived' = arrived /\ call' = call
    BY <1>8 DEF KeepWaiting, PollCall, RecvSkipped, BlockBreak, RecvCall
  <2>2. ~Reads(d)' \/ Reads(d)
    BY <1>8 DEF KeepWaiting, PollCall, RecvSkipped, BlockBreak, RecvCall, Goto, TypeOK
  <2>3. QED
    BY <1>1, <2>1, <2>2
<1>9. ASSUME NEW c \in Callers, PollReady(c) PROVE PolledFinds(d)'
  <2>1. log' = log /\ arrived' = arrived /\ Len(log) < Len(arrived)
    BY <1>0, <1>9 DEF PollReady, InboxEmpty, Read
  <2>2. QED
    BY <2>1 DEF PolledFinds
<1>10. ASSUME NEW c \in Callers, PassOn(c) \/ BlockReturn(c) PROVE PolledFinds(d)'
  <2>1. /\ arrived' = arrived /\ call' = call
        /\ log' = log \/ (Settle(c, Aside(c)) /\ Aside(c) \in Fates)
        /\ \/ pc' = [pc EXCEPT ![c] = "block"]
           \/ pc' = [pc EXCEPT ![c] = LoopTop(call[c].mode)]
    BY <1>10 DEF PassOn, BlockReturn, Goto, Aside, Fates
  <2>2. Len(log') = Len(log)
    BY <2>1, SettleFields
  <2>3. CASE ~Reads(d)' \/ Reads(d)
    BY <1>1, <2>1, <2>2, <2>3
  <2>4. CASE Reads(d)' /\ ~Reads(d)
    <3>1. d = c /\ pc'[c] = LoopTop(call[c].mode)
      BY <2>1, <2>4 DEF TypeOK
    <3>2. QED
      BY <2>1, <3>1 DEF PolledFinds, Waits, LoopTop
  <2>5. QED
    BY <2>3, <2>4
<1>11. ASSUME NEW c \in Callers, ReadEvent(c) PROVE PolledFinds(d)'
  <2>1. pc[c] = "reading" /\ pc' = [pc EXCEPT ![c] = "hand"] /\ OnTop(c) /\ ~Idle(c)
    BY <1>11 DEF ReadEvent, Goto, Runs, Idle
  <2>2. d # c => Idle(d) \/ pc[d] = "block"
    BY <2>1, OthersOfStack DEF OneThread, Stack
  <2>3. ~Reads(d)'
    BY <2>1, <2>2 DEF TypeOK, Idle
  <2>4. QED
    BY <2>3 DEF PolledFinds
<1>12. CASE Tick \/ (\E c \in Callers : ReadInterrupted(c)) \/ UNCHANGED vars
  BY <1>2, <1>12 DEF Tick, ReadInterrupted, vars
<1>13. QED
  BY <1>3, <1>4, <1>5, <1>7, <1>8, <1>9, <1>10, <1>11, <1>12 DEF Next, Step, BlockEnds

\* The invariant of the runs, for calls nested to any depth: in a program with one
\* thread the read in wait_for never blocks (node.rb:97-98, 117-119).
THEOREM PolledReadIsNotEmpty == Spec => []PolledReadFindsEvent
<1> DEFINE Inv == OneThread => \A c \in Callers : PolledFinds(c)
<1>1. Init => Stacks /\ Inv
  BY DEF Init, Stacks, Idle, PolledFinds
<1>2. TypeOK /\ Stacks /\ Custody /\ Inv /\ [Next]_vars => (Stacks /\ Inv)'
  <2> SUFFICES ASSUME TypeOK, Stacks, Custody, Inv, [Next]_vars
               PROVE  Stacks' /\ Inv'
    OBVIOUS
  <2>1. Stacks'
    BY StacksStep
  <2>2. OneThread' <=> OneThread
    BY DEF OneThread, Thread
  <2>3. ASSUME OneThread, NEW c \in Callers PROVE PolledFinds(c)'
    BY <2>3, PolledStep
  <2>4. QED
    BY <2>1, <2>2, <2>3
<1>3. Inv => PolledReadFindsEvent
  BY DEF PolledFinds, PolledReadFindsEvent, InboxEmpty, Read
<1> HIDE DEF Inv
<1>4. QED
  BY <1>1, <1>2, <1>3, TypeCorrect, EventsInCustody, PTL DEF Spec

(***************************************************************************)
(* Calls that end without an event.                                        *)
(***************************************************************************)

\* Every timeout is one that the int of poller.wait holds.
Reach == (IntMax + 1) * Ms
ShortTimeouts == \A d \in Durations : d < Reach

\* A poll gives up no sooner than a millisecond before its deadline.
Punctual(c) ==
    /\ pc[c] = "loop" => call[c].mode = "timed"
    /\ pc[c] \in {"poll", "polling"} => Waits(c)
    /\ ~Idle(c) /\ call[c].mode = "timed" => call[c].deadline < now + Reach
    /\ pc[c] = "poll" /\ call[c].mode = "timed" =>
           timeout[c] < Reach /\ now + timeout[c] >= call[c].deadline
    /\ pc[c] = "polling" /\ until[c] # Forever =>
           call[c].mode = "timed" /\ until[c] + Ms > call[c].deadline

\* An interrupt that a call may notice, or has noticed in a read, is one it knows of.
Knows(c) ==
    /\ ~Idle(c) /\ Interrupted(c) => call[c].disturbed
    /\ pc[c] = "hand" /\ cur[c] = 0 => call[c].disturbed

Explained(c) ==
    Idle(c) /\ ~call[c].disturbed /\ out[c] \in {"nil", "ended", "raised"} =>
        call[c].mode = "timed" /\ now + Ms > call[c].deadline

PatienceOf(c) == Punctual(c) /\ Knows(c) /\ Explained(c)
Patience == \A c \in Callers : PatienceOf(c)

\* What \div does to a time.
LEMMA WholeMs ==
    ASSUME NEW a \in Nat, NEW m \in Nat \ {0}
    PROVE  a \div m \in Nat /\ (a \div m) * m <= a /\ a < (a \div m) * m + m
  BY SMT

LEMMA Smaller ==
    ASSUME NEW q \in Nat, NEW k \in Nat, NEW m \in Nat \ {0}, q * m < (k + 1) * m
    PROVE  q <= k
  BY SMT

LEMMA ReachType == Reach \in Nat /\ Ms \in Nat \ {0}
<1>1. IntMax + 1 \in Nat /\ Ms \in Nat
  BY NumbersAssumption
<1>2. (IntMax + 1) * Ms \in Nat
  BY <1>1
<1>3. QED
  BY <1>2, NumbersAssumption DEF Reach

LEMMA CallFacts ==
    ASSUME TypeOK, NEW c \in Callers
    PROVE  /\ now \in Nat /\ call[c].deadline \in Nat /\ call[c].mode \in Methods
           /\ timeout[c] \in Nat /\ until[c] \in Nat \cup {Forever}
  BY DEF TypeOK, Calls

\* A caller that does not move stays so while time goes on and interrupts are
\* noticed.
LEMMA StillPatient ==
    ASSUME TypeOK, NEW c \in Callers, PatienceOf(c),
           now' \in Nat, now' >= now,
           pc'[c] = pc[c], call'[c] = call[c], timeout'[c] = timeout[c],
           until'[c] = until[c], cur'[c] = cur[c], out'[c] = out[c],
           pending'[Thread(c)] \in {pending[Thread(c)], "none"}
    PROVE  PatienceOf(c)'
<1>1. /\ now \in Nat /\ call[c].deadline \in Nat /\ timeout[c] \in Nat
      /\ Reach \in Nat /\ Ms \in Nat
  BY CallFacts, ReachType
<1> HIDE DEF Reach
<1>2. Punctual(c)'
  BY <1>1 DEF PatienceOf, Punctual, Idle, Waits
<1>3. Knows(c)'
  BY DEF PatienceOf, Knows, Idle, Interrupted
<1>4. Explained(c)'
  BY <1>1 DEF PatienceOf, Explained, Idle
<1>5. QED
  BY <1>2, <1>3, <1>4 DEF PatienceOf

\* An exception ends the calls of a stack, which know of it.
LEMMA UnwindKeepsPatience ==
    ASSUME TypeOK, Patience, NEW c \in Callers, Unwind(c),
           pending[Thread(c)] = "raise", pending' = [pending EXCEPT ![Thread(c)] = "none"],
           now' = now, call' = call
    PROVE  Patience'
<1> SUFFICES ASSUME NEW d \in Callers PROVE PatienceOf(d)'
  BY DEF Patience
<1>1. PatienceOf(d)
  BY DEF Patience
<1>2. CASE d \in Stack(c) /\ ~Idle(d)
  <2>1. Thread(d) = Thread(c)
    BY <1>2 DEF Stack
  <2>2. call[d].disturbed
    BY <1>1, <1>2, <2>1 DEF PatienceOf, Knows, Interrupted
  <2>3. pc'[d] = "idle" /\ call'[d].disturbed
    BY <1>2, <2>2 DEF Unwind
  <2>4. QED
    BY <2>3 DEF PatienceOf, Punctual, Knows, Explained, Idle
<1>3. CASE d \in Stack(c) /\ Idle(d)
  <2>1. pc'[d] = "idle" /\ pc[d] = "idle" /\ out'[d] = out[d]
    BY <1>3 DEF Unwind, Idle
  <2>2. QED
    BY <1>1, <2>1 DEF PatienceOf, Punctual, Knows, Explained, Idle
<1>4. CASE d \notin Stack(c)
  <2>1. /\ pc'[d] = pc[d] /\ timeout'[d] = timeout[d] /\ until'[d] = until[d]
        /\ cur'[d] = cur[d] /\ out'[d] = out[d]
    BY <1>4 DEF Unwind, Forget
  <2>2. pending'[Thread(d)] \in {pending[Thread(d)], "none"}
    BY HostAssumption DEF TypeOK, Thread
  <2>3. now \in Nat /\ now >= now
    BY DEF TypeOK
  <2>4. QED
    BY <1>1, <2>1, <2>2, <2>3, StillPatient
<1>5. QED
  BY <1>2, <1>3, <1>4

\* A step of c alone.
LEMMA OneMovesPatience ==
    ASSUME TypeOK, Patience, NEW c \in Callers, PatienceOf(c)', now' = now,
           \A d \in Callers : d # c =>
               /\ pc'[d] = pc[d] /\ call'[d] = call[d] /\ timeout'[d] = timeout[d]
               /\ until'[d] = until[d] /\ cur'[d] = cur[d] /\ out'[d] = out[d],
           \A d \in Callers : pending'[d] \in {pending[d], "none"}
    PROVE  Patience'
<1> SUFFICES ASSUME NEW d \in Callers, d # c PROVE PatienceOf(d)'
  BY DEF Patience
<1>1. pending'[Thread(d)] \in {pending[Thread(d)], "none"}
  BY HostAssumption DEF Thread
<1>2. now \in Nat /\ now >= now
  BY DEF TypeOK
<1>3. QED
  BY <1>1, <1>2, StillPatient DEF Patience

\* A call ends without an exception, or with one it knows of.
LEMMA FinishKeepsPatience ==
    ASSUME TypeOK, Patience, NEW c \in Callers, ~Idle(c),
           NEW outcome, NEW fate, Finish(c, outcome, fate),
           now' = now, call' = call,
           \/ outcome \notin {"nil", "ended", "raised"}
           \/ call[c].disturbed
           \/ call[c].mode = "timed" /\ now + Ms > call[c].deadline
    PROVE  Patience'
<1>1. CASE pending[Thread(c)] = "raise"
  BY <1>1, UnwindKeepsPatience DEF Finish
<1>2. CASE pending[Thread(c)] # "raise"
  <2>1. pc'[c] = "idle" /\ out'[c] = outcome
    BY <1>2 DEF Finish, Goto, TypeOK
  <2>2. PatienceOf(c)'
    BY <2>1 DEF PatienceOf, Punctual, Knows, Explained, Idle
  <2>3. \A d \in Callers : d # c =>
            /\ pc'[d] = pc[d] /\ timeout'[d] = timeout[d]
            /\ until'[d] = until[d] /\ cur'[d] = cur[d] /\ out'[d] = out[d]
    BY <1>2 DEF Finish, Goto, Forget, TypeOK
  <2>4. \A d \in Callers : pending'[d] \in {pending[d], "none"}
    BY DEF Finish, TypeOK
  <2>5. QED
    BY <2>2, <2>3, <2>4, OneMovesPatience
<1>3. QED
  BY <1>1, <1>2

\* A poll that ends without an event ends for a reason.
LEMMA NilAtPoll ==
    ASSUME TypeOK, Patience, NEW c \in Callers, PollNil(c)
    PROVE  call[c].disturbed \/ (call[c].mode = "timed" /\ now + Ms > call[c].deadline)
<1>1. PatienceOf(c) /\ ~Idle(c) /\ call[c].deadline \in Nat /\ now \in Nat /\ Ms \in Nat
  BY CallFacts, NumbersAssumption DEF Patience, PollNil, Idle
<1>2. CASE Interrupted(c)
  BY <1>1, <1>2 DEF PatienceOf, Knows
<1>3. CASE pc[c] = "polling" /\ PollExpired(c)
  <2>1. until[c] \in Nat /\ now >= until[c]
    BY <1>3, CallFacts DEF PollExpired
  <2>2. call[c].mode = "timed" /\ until[c] + Ms > call[c].deadline
    BY <1>1, <1>3 DEF PollExpired, PatienceOf, Punctual
  <2>3. QED
    BY <1>1, <2>1, <2>2
<1>4. QED
  BY <1>2, <1>3 DEF PollNil

LEMMA PatienceInit == Init => Patience
<1> SUFFICES ASSUME Init, NEW c \in Callers PROVE PatienceOf(c)
  BY DEF Patience
<1>1. pc[c] = "idle" /\ out[c] = "none"
  BY DEF Init
<1>2. QED
  BY <1>1 DEF PatienceOf, Punctual, Knows, Explained, Idle

LEMMA PatienceStep ==
    ASSUME ShortTimeouts, TypeOK, Patience, [Next]_vars
    PROVE  Patience'
<1> USE ReachType
<1> HIDE DEF Reach
<1>1. now \in Nat /\ Ms \in Nat /\ Reach \in Nat /\ 0 < Reach
  <2>1. 0 < (IntMax + 1) * Ms
    <3>1. IntMax + 1 \in Nat \ {0} /\ Ms \in Nat \ {0}
      BY NumbersAssumption
    <3>2. QED
      BY <3>1
  <2>2. QED
    BY <2>1 DEF TypeOK, Reach
<1>2. ASSUME NEW e \in Events, Arrive(e) PROVE Patience'
  BY <1>1, <1>2, StillPatient DEF Arrive, Patience
<1>3. CASE Tick
  <2>1. now' \in Nat /\ now' >= now
    BY <1>1, <1>3 DEF Tick
  <2>2. QED
    BY <1>3, <2>1, StillPatient DEF Tick, Patience
<1>4. ASSUME NEW t \in Callers, NEW k \in Kinds, Interrupt(t, k) PROVE Patience'
  <2> SUFFICES ASSUME NEW d \in Callers PROVE PatienceOf(d)'
    BY DEF Patience
  <2>1. PatienceOf(d)
    BY DEF Patience
  <2>2. CASE Thread(d) = t /\ ~Idle(d)
    <3>1. /\ call'[d].mode = call[d].mode /\ call'[d].deadline = call[d].deadline
          /\ call'[d].disturbed
      BY <1>4, <2>2 DEF Interrupt, TypeOK, Calls
    <3>2. QED
      BY <1>4, <2>1, <2>2, <3>1
         DEF Interrupt, PatienceOf, Punctual, Knows, Explained, Idle, Waits
  <2>3. CASE ~(Thread(d) = t /\ ~Idle(d))
    <3>1. call'[d] = call[d]
      BY <1>4, <2>3 DEF Interrupt
    <3>2. Idle(d) \/ pending'[Thread(d)] = pending[Thread(d)]
      BY <1>4, <2>3 DEF Interrupt, TypeOK
    <3>3. QED
      BY <1>4, <2>1, <3>1, <3>2
         DEF Interrupt, PatienceOf, Punctual, Knows, Explained, Idle, Waits, Interrupted
  <2>4. QED
    BY <2>2, <2>3
<1>5. ASSUME NEW c \in Callers, NEW m \in Methods, NEW w \in Wants,
             NEW d \in Durations \cup {0}, NEW b \in BOOLEAN,
             Begin(c, m, w, d, b)
      PROVE Patience'
  <2>1. d \in Nat /\ d < Reach
    BY <1>1, NumbersAssumption DEF ShortTimeouts
  <2>2. call'[c] = Call(c, m, w, d, b) /\ pc'[c] = LoopTop(m) /\ out'[c] = "none"
    BY <1>5 DEF Begin, Goto, TypeOK
  <2>3. /\ call'[c].mode = m /\ call'[c].deadline = now + d
        /\ call'[c].disturbed = Interrupted(c)
    BY <2>2 DEF Call
  <2>4. timeout'[c] = timeout[c] /\ now' = now /\ pending' = pending
    BY <1>5 DEF Begin
  <2>5. LoopTop(m) \in {"loop", "poll", "recv"} /\ (LoopTop(m) = "loop" => m = "timed")
        /\ (LoopTop(m) = "poll" => m = "wait")
    BY DEF LoopTop
  <2>6. Punctual(c)'
    BY <1>1, <2>1, <2>2, <2>3, <2>4, <2>5 DEF Punctual, Waits
  <2>7. Knows(c)'
    BY <2>2, <2>3, <2>4, <2>5 DEF Knows, Interrupted
  <2>8. Explained(c)'
    BY <2>2, <2>5 DEF Explained, Idle
  <2>9. PatienceOf(c)'
    BY <2>6, <2>7, <2>8 DEF PatienceOf
  <2>10. QED
    BY <1>5, <2>9, OneMovesPatience DEF Begin, Goto, TypeOK
<1>6. ASSUME NEW c \in Callers, KeepWaiting(c) PROVE Patience'
  <2>1. PatienceOf(c) /\ pc[c] = "loop"
    BY <1>6 DEF Patience, KeepWaiting
  <2>2. call[c].deadline \in Nat /\ call[c].mode = "timed" /\ call[c].deadline < now + Reach
    BY <2>1, CallFacts DEF PatienceOf, Punctual, Idle
  <2>3. /\ timeout'[c] = call[c].deadline - now /\ pc'[c] = "poll" /\ now' = now
        /\ call' = call /\ pending' = pending
    BY <1>6 DEF KeepWaiting, TimeLeft, Goto, TypeOK
  <2>4. Punctual(c)'
    BY <1>1, <2>2, <2>3 DEF Punctual, Waits
  <2>5. Knows(c)' /\ Explained(c)'
    BY <2>1, <2>3 DEF PatienceOf, Knows, Explained, Idle, Interrupted
  <2>6. PatienceOf(c)'
    BY <2>4, <2>5 DEF PatienceOf
  <2>7. QED
    BY <1>6, <2>6, OneMovesPatience DEF KeepWaiting, Goto, TypeOK
<1>7. ASSUME NEW c \in Callers, TimeIsUp(c) PROVE Patience'
  <2>1. pc[c] = "loop" /\ ~Idle(c)
    BY <1>7 DEF TimeIsUp, Idle
  <2>2. call[c].mode = "timed"
    BY <2>1 DEF Patience, PatienceOf, Punctual
  <2>3. now + Ms > call[c].deadline
    BY <1>1, <1>7, CallFacts, NumbersAssumption DEF TimeIsUp, TimeLeft
  <2>4. QED
    BY <1>7, <2>1, <2>2, <2>3, FinishKeepsPatience DEF TimeIsUp
<1>8. ASSUME NEW c \in Callers, PollCall(c) PROVE Patience'
  <2>1. PatienceOf(c) /\ pc[c] = "poll"
    BY <1>8 DEF Patience, PollCall
  <2>2. /\ pc'[c] = "polling" /\ now' = now /\ call' = call /\ pending' = pending
    BY <1>8 DEF PollCall, Goto, TypeOK
  <2>3. /\ call[c].deadline \in Nat /\ timeout[c] \in Nat /\ Waits(c)
        /\ call[c].mode = "timed" => call[c].deadline < now + Reach
    BY <2>1, CallFacts DEF PatienceOf, Punctual, Idle
  <2>4. until'[c] # Forever =>
            call[c].mode = "timed" /\ until'[c] + Ms > call[c].deadline
    <3>1. CASE call[c].mode = "wait"
      BY <1>8, <3>1 DEF PollCall, TypeOK
    <3>2. CASE call[c].mode = "timed"
      <4> DEFINE ms == timeout[c] \div Ms
      <4>1. timeout[c] < Reach /\ now + timeout[c] >= call[c].deadline
        BY <2>1, <3>2 DEF PatienceOf, Punctual
      <4>2. ms \in Nat /\ ms * Ms <= timeout[c] /\ timeout[c] < ms * Ms + Ms
        BY <2>3, WholeMs
      <4> HIDE DEF ms
      <4>3. IntMax \in Nat /\ ms * Ms \in Nat
        BY <1>1, <4>2, NumbersAssumption
      <4>4. ms * Ms < (IntMax + 1) * Ms
        <5>1. ms * Ms < Reach
          BY <1>1, <2>3, <4>1, <4>2, <4>3
        <5>2. QED
          BY <5>1 DEF Reach
      <4>5. ms <= IntMax
        BY <4>2, <4>3, <4>4, Smaller
      <4>6. PollTimeouts(c) = {ms}
        BY <4>5 DEF PollTimeouts, ms
      <4>7. until'[c] = now + ms * Ms
        <5>1. PICK x \in PollTimeouts(c) :
                  until' = [until EXCEPT ![c] = IF x < 0 THEN Forever ELSE now + x * Ms]
          BY <1>8, <3>2 DEF PollCall
        <5>2. x = ms /\ ~(x < 0)
          BY <4>2, <4>6, <5>1
        <5>3. QED
          BY <5>1, <5>2 DEF TypeOK
      <4>8. QED
        BY <1>1, <2>3, <3>2, <4>1, <4>2, <4>3, <4>7
    <3>3. QED
      BY <2>3, <3>1, <3>2 DEF Waits
  <2>5. Punctual(c)'
    BY <2>2, <2>3, <2>4 DEF Punctual, Waits
  <2>6. Knows(c)' /\ Explained(c)'
    BY <2>1, <2>2 DEF PatienceOf, Knows, Explained, Idle, Interrupted
  <2>7. PatienceOf(c)'
    BY <2>5, <2>6 DEF PatienceOf
  <2>8. QED
    BY <1>8, <2>7, OneMovesPatience DEF PollCall, Goto, TypeOK
<1>9. ASSUME NEW c \in Callers, PollReady(c) \/ RecvCall(c) \/ ReadEvent(c) PROVE Patience'
  <2>1. PatienceOf(c) /\ pc[c] # "idle"
    BY <1>9 DEF Patience, PollReady, RecvCall, ReadEvent
  <2>2. /\ pc'[c] \in {"recv", "reading", "hand"} /\ now' = now /\ call' = call
        /\ pending' = pending /\ out'[c] = out[c]
        /\ pc'[c] = "hand" => cur'[c] # 0
    <3>1. CASE ReadEvent(c)
      <4>1. Read + 1 # 0
        BY LenProperties DEF TypeOK, Read
      <4>2. QED
        BY <3>1, <4>1 DEF ReadEvent, Goto, TypeOK
    <3>2. CASE PollReady(c) \/ RecvCall(c)
      BY <3>2 DEF PollReady, RecvCall, Goto, TypeOK
    <3>3. QED
      BY <1>9, <3>1, <3>2
  <2>3. PatienceOf(c)'
    BY <2>1, <2>2
       DEF PatienceOf, Punctual, Knows, Explained, Idle, Interrupted
  <2>4. QED
    BY <1>9, <2>3, OneMovesPatience DEF PollReady, RecvCall, ReadEvent, Goto, TypeOK
<1>10. ASSUME NEW c \in Callers, PollNil(c) PROVE Patience'
  <2>1. PatienceOf(c) /\ ~Idle(c) /\ call[c].deadline \in Nat
    BY <1>10, CallFacts DEF Patience, PollNil, Idle
  <2>2. call[c].disturbed \/ (call[c].mode = "timed" /\ now + Ms > call[c].deadline)
    BY <1>10, NilAtPoll
  <2>3. QED
    BY <1>10, <2>1, <2>2, FinishKeepsPatience DEF PollNil
<1>11. ASSUME NEW c \in Callers, RecvSkipped(c) PROVE Patience'
  <2>1. PatienceOf(c) /\ pc[c] # "idle" /\ Interrupted(c)
    BY <1>11 DEF Patience, RecvSkipped
  <2>2. call[c].disturbed
    BY <2>1 DEF PatienceOf, Knows, Idle
  <2>3. /\ pc'[c] = "hand" /\ now' = now /\ call' = call /\ pending' = pending
    BY <1>11 DEF RecvSkipped, Goto, TypeOK
  <2>4. PatienceOf(c)'
    BY <2>1, <2>2, <2>3 DEF PatienceOf, Punctual, Knows, Explained, Idle
  <2>5. QED
    BY <1>11, <2>4, OneMovesPatience DEF RecvSkipped, Goto, TypeOK
<1>12. CASE \E c \in Callers : ReadInterrupted(c)
  BY <1>1, <1>12, StillPatient DEF ReadInterrupted, Patience
<1>13. ASSUME NEW c \in Callers, Return(c) \/ EachEnds(c) PROVE Patience'
  <2>1. PatienceOf(c) /\ ~Idle(c) /\ pc[c] = "hand"
    BY <1>13 DEF Patience, Return, EachEnds, Idle
  <2>2. HasEvent(c) \/ call[c].disturbed
    BY <2>1 DEF HasEvent, PatienceOf, Knows
  <2>3. CASE Return(c)
    BY <2>1, <2>2, <2>3, FinishKeepsPatience DEF Return
  <2>4. CASE EachEnds(c)
    BY <2>1, <2>2, <2>4, FinishKeepsPatience DEF EachEnds
  <2>5. QED
    BY <1>13, <2>3, <2>4
<1>14. ASSUME NEW c \in Callers, PassOn(c) \/ BlockReturn(c) PROVE Patience'
  <2>1. PatienceOf(c) /\ pc[c] # "idle"
    BY <1>14 DEF Patience, PassOn, BlockReturn
  <2>2. /\ pc'[c] = "block" \/ pc'[c] = LoopTop(call[c].mode)
        /\ now' = now /\ call' = call /\ pending' = pending
    BY <1>14 DEF PassOn, BlockReturn, Goto, TypeOK
  <2>3. /\ LoopTop(call[c].mode) \in {"loop", "poll", "recv"}
        /\ LoopTop(call[c].mode) = "loop" => call[c].mode = "timed"
        /\ LoopTop(call[c].mode) = "poll" => call[c].mode = "wait"
    BY DEF LoopTop
  <2>4. PatienceOf(c)'
    BY <2>1, <2>2, <2>3
       DEF PatienceOf, Punctual, Knows, Explained, Idle, Interrupted, Waits
  <2>5. QED
    BY <1>14, <2>4, OneMovesPatience DEF PassOn, BlockReturn, Goto, TypeOK
<1>15. ASSUME NEW c \in Callers, BlockBreak(c) PROVE Patience'
  <2>1. pc'[c] = "idle" /\ out'[c] = "broke"
    BY <1>15 DEF BlockBreak, Goto, TypeOK
  <2>2. PatienceOf(c)'
    BY <2>1 DEF PatienceOf, Punctual, Knows, Explained, Idle
  <2>3. QED
    BY <1>15, <2>2, OneMovesPatience DEF BlockBreak, Goto, Forget, TypeOK
<1>16. ASSUME NEW c \in Callers, CheckInterrupts(c) PROVE Patience'
  <2>1. CASE pending[Thread(c)] = "raise"
    BY <1>16, <2>1, UnwindKeepsPatience DEF CheckInterrupts
  <2>2. CASE pending[Thread(c)] # "raise"
    <3>1. \A d \in Callers : pending'[d] \in {pending[d], "none"}
      BY <1>16 DEF CheckInterrupts, TypeOK
    <3>2. \A d \in Callers : pending'[Thread(d)] \in {pending[Thread(d)], "none"}
      BY <3>1, HostAssumption DEF Thread
    <3>3. QED
      BY <1>1, <1>16, <2>2, <3>2, StillPatient DEF CheckInterrupts, Patience
  <2>3. QED
    BY <2>1, <2>2
<1>17. CASE UNCHANGED vars
  BY <1>1, <1>17, StillPatient DEF vars, Patience
<1>18. QED
  BY <1>2, <1>3, <1>4, <1>5, <1>6, <1>7, <1>8, <1>9, <1>10, <1>11, <1>12, <1>13,
     <1>14, <1>15, <1>16, <1>17 DEF Next, Step, BlockEnds

\* Without an interrupt a consuming method ends without an event only where it is a
\* wait_for whose time is up but for a millisecond, for any callers, clock and nesting,
\* as long as the int of poller.wait holds the timeouts (node.rb:82-133, poller.c:218).
THEOREM NilHasReason == ASSUME ShortTimeouts PROVE Spec => []NilIsExplained
<1>1. Init => Patience
  BY PatienceInit
<1>2. TypeOK /\ Patience /\ [Next]_vars => Patience'
  BY PatienceStep
<1>3. Patience => NilIsExplained
  BY DEF Patience, PatienceOf, Explained, NilIsExplained
<1>4. QED
  BY <1>1, <1>2, <1>3, TypeCorrect, PTL DEF Spec

(***************************************************************************)
(* NodeWait implements EventDelivery.                                      *)
(***************************************************************************)

\* Only a call with a block gets into it, and recv has none.
Blocks == \A c \in Callers : pc[c] = "block" => call[c].block

LEMMA BlocksStep == TypeOK /\ Blocks /\ [Next]_vars => Blocks'
<1> SUFFICES ASSUME TypeOK, Blocks, [Next]_vars PROVE Blocks'
  OBVIOUS
<1>1. ASSUME NEW c \in Callers, NEW p, p = "block" => call[c].block,
             pc' = [pc EXCEPT ![c] = p], call' = call
      PROVE  Blocks'
  BY <1>1 DEF Blocks, TypeOK
<1>2. ASSUME NEW c \in Callers, Unwind(c), call' = call PROVE Blocks'
  BY <1>2 DEF Unwind, Blocks
<1>3. ASSUME NEW c \in Callers, NEW outcome, NEW fate, Finish(c, outcome, fate), call' = call
      PROVE  Blocks'
  BY <1>1, <1>2, <1>3 DEF Finish, Goto
<1>4. ASSUME UNCHANGED <<pc, call>> PROVE Blocks'
  BY <1>4 DEF Blocks
<1>5. \A m \in Methods : LoopTop(m) # "block"
  BY DEF LoopTop
<1>6. ASSUME NEW t \in Callers, NEW k \in Kinds, Interrupt(t, k) PROVE Blocks'
  <2>1. \A c \in Callers : call'[c].block = call[c].block
    BY <1>6 DEF Interrupt, TypeOK, Calls
  <2>2. QED
    BY <1>6, <2>1 DEF Interrupt, Blocks
<1>7. ASSUME NEW c \in Callers, NEW m \in Methods, NEW w \in Wants,
             NEW d \in Durations \cup {0}, NEW b \in BOOLEAN, Begin(c, m, w, d, b)
      PROVE  Blocks'
  BY <1>5, <1>7 DEF Begin, Goto, Blocks, TypeOK
<1>8. ASSUME NEW c \in Callers, Step(c) \/ BlockEnds(c) PROVE Blocks'
  <2>1. call' = call
    BY <1>8 DEF Step, BlockEnds, KeepWaiting, TimeIsUp, PollCall, PollReady, PollNil,
       RecvCall, RecvSkipped, ReadEvent, ReadInterrupted, Return, EachEnds, PassOn,
       CheckInterrupts, BlockReturn, BlockBreak
  <2>2. CASE KeepWaiting(c) \/ PollCall(c) \/ PollReady(c) \/ RecvCall(c) \/ RecvSkipped(c)
             \/ ReadEvent(c) \/ BlockBreak(c)
    <3>1. \E p \in Points \ {"block"} : pc' = [pc EXCEPT ![c] = p]
      BY <2>2 DEF KeepWaiting, PollCall, PollReady, RecvCall, RecvSkipped, ReadEvent,
         BlockBreak, Goto, Points
    <3>2. QED
      BY <1>1, <2>1, <3>1
  <2>3. CASE PassOn(c) \/ BlockReturn(c)
    <3>1. LoopTop(call[c].mode) # "block"
      BY <1>5, CallFacts
    <3>2. QED
      BY <1>1, <2>1, <2>3, <3>1 DEF PassOn, BlockReturn, Goto
  <2>4. CASE TimeIsUp(c) \/ PollNil(c) \/ Return(c) \/ EachEnds(c)
    BY <1>3, <2>1, <2>4 DEF TimeIsUp, PollNil, Return, EachEnds
  <2>5. CASE ReadInterrupted(c) \/ CheckInterrupts(c)
    BY <1>2, <1>4, <2>1, <2>5 DEF ReadInterrupted, CheckInterrupts
  <2>6. QED
    BY <1>8, <2>2, <2>3, <2>4, <2>5 DEF Step, BlockEnds
<1>9. QED
  BY <1>4, <1>6, <1>7, <1>8 DEF Next, Arrive, Tick, vars

LEMMA SameWants == \A e, w : Delivery!IsWanted(e, w) <=> IsWanted(e, w)
  BY DEF IsWanted, KindOf, Match, Delivery!IsWanted, Delivery!KindOf, Delivery!Match

LEMMA SameCalls == Delivery!Calls = Calls
  BY DEF Calls, Methods, Delivery!Calls, Delivery!Methods

\* A step that EventDelivery does not see.
LEMMA Unseen ==
    ASSUME UNCHANGED <<arrived, log, now, call, out>>,
           \A d \in Callers : /\ Idle(d)' <=> Idle(d)
                              /\ Holds(d)' <=> Holds(d)
                              /\ Holds(d) => cur'[d] = cur[d]
    PROVE  UNCHANGED Delivery!vars
<1>1. Active' = Active
  BY DEF Active
<1>2. Hand' = Hand
  BY DEF Hand
<1>3. QED
  BY <1>1, <1>2 DEF Delivery!vars

\* How EventDelivery sees a caller that moves alone.
LEMMA SeenMove ==
    ASSUME TypeOK, NEW c \in Callers, NEW p, pc' = [pc EXCEPT ![c] = p],
           \A d \in Callers : d # c => cur'[d] = cur[d]
    PROVE  /\ p = "idle" => Active' = Active \ {c}
           /\ p # "idle" => Active' = Active \cup {c}
           /\ p = "hand" => Hand' = [Hand EXCEPT ![c] = cur'[c]]
           /\ p # "hand" => Hand' = [Hand EXCEPT ![c] = 0]
<1>1. pc'[c] = p /\ \A d \in Callers : d # c => pc'[d] = pc[d]
  BY DEF TypeOK
<1>2. p = "idle" => Active' = Active \ {c}
  BY <1>1 DEF Active, Idle
<1>3. p # "idle" => Active' = Active \cup {c}
  BY <1>1 DEF Active, Idle
<1>4. p = "hand" => Hand' = [Hand EXCEPT ![c] = cur'[c]]
  BY <1>1 DEF Hand, Holds
<1>5. p # "hand" => Hand' = [Hand EXCEPT ![c] = 0]
  BY <1>1 DEF Hand, Holds
<1>6. QED
  BY <1>2, <1>3, <1>4, <1>5

\* An exception is a Raise of the stack.
LEMMA UnwindRaises ==
    ASSUME TypeOK, Stacks, Custody, Patience, NEW c \in Callers, OnTop(c), ~Idle(c),
           pending[Thread(c)] = "raise", Unwind(c),
           UNCHANGED <<arrived, now, call>>
    PROVE  \E S \in SUBSET Active : Delivery!Raise(S)
<1> DEFINE S == {d \in Stack(c) : ~Idle(d)}
<1>1. S \subseteq Active /\ c \in S
  BY DEF Stack, Active
<1>2. \A d \in S : call[d].disturbed
  <2> SUFFICES ASSUME NEW d \in S PROVE call[d].disturbed
    OBVIOUS
  <2>1. d \in Callers /\ Thread(d) = Thread(c)
    BY DEF Stack
  <2>2. QED
    BY <2>1 DEF Patience, PatienceOf, Knows, Interrupted
<1>3. \A d \in S : d # c => ~Holds(d)
  BY OthersOfStack DEF Holds
<1>4. log' = [i \in DOMAIN log |->
                 IF log[i].to = "hand" /\ log[i].by \in S
                 THEN [log[i] EXCEPT !.to = "lost"] ELSE log[i]]
  <2>1. ASSUME NEW i \in DOMAIN log
        PROVE  log[i].to = "hand" /\ log[i].by \in S <=> Holds(c) /\ i = cur[c]
    <3>1. log[i].to = "hand" /\ log[i].by \in S => Holds(c) /\ i = cur[c]
      BY <1>3 DEF Custody
    <3>2. Holds(c) /\ i = cur[c] => log[i] = [by |-> c, to |-> "hand"]
      BY DEF Custody
    <3>3. QED
      BY <1>1, <3>1, <3>2
  <2>2. log = [i \in DOMAIN log |-> log[i]]
    BY DEF TypeOK
  <2>3. CASE Holds(c)
    <3>1. log' = [log EXCEPT ![cur[c]].to = "lost"]
      BY <2>3 DEF Unwind, Settle
    <3>2. log' = [i \in DOMAIN log |->
                     IF i = cur[c] THEN [log[i] EXCEPT !.to = "lost"] ELSE log[i]]
      BY <2>2, <3>1
    <3>3. QED
      BY <2>1, <2>3, <3>2
  <2>4. CASE ~Holds(c)
    <3>1. log' = log
      BY <2>4 DEF Unwind, Settle
    <3>2. QED
      BY <2>1, <2>2, <2>4, <3>1
  <2>5. QED
    BY <2>3, <2>4
<1>5. \A d \in Callers : pc'[d] = IF d \in S THEN "idle" ELSE pc[d]
  BY DEF Unwind, Idle
<1>6. \A d \in Callers : d \notin S /\ ~Idle(d) => cur'[d] = cur[d]
  BY DEF Unwind, Forget
<1>7. Active' = Active \ S
  BY <1>5 DEF Active, Idle
<1>8. Hand' = [d \in Callers |-> IF d \in S THEN 0 ELSE Hand[d]]
  <2>1. ASSUME NEW d \in Callers
        PROVE  (IF Holds(d)' THEN cur'[d] ELSE 0) = IF d \in S THEN 0 ELSE Hand[d]
    BY <1>5, <1>6 DEF Hand, Holds, Idle
  <2>2. QED
    BY <2>1 DEF Hand
<1>9. out' = [d \in Callers |-> IF d \in S THEN "raised" ELSE out[d]]
  BY DEF Unwind
<1>10. Delivery!Raise(S)
  <2> HIDE DEF S
  <2>1. QED
    BY <1>1, <1>2, <1>4, <1>7, <1>8, <1>9 DEF Delivery!Raise
<1>11. QED
  BY <1>1, <1>10

\* What ends without an event, gives up.
LEMMA FinishGivesUp ==
    ASSUME TypeOK, Stacks, Custody, Patience, NEW c \in Callers, OnTop(c), ~Idle(c),
           ~Holds(c), NEW outcome, NEW fate, Finish(c, outcome, fate),
           UNCHANGED <<arrived, now, call>>,
           outcome = IF call[c].mode = "each" THEN "ended" ELSE "nil",
           \/ call[c].disturbed
           \/ call[c].mode = "timed" /\ now + Ms > call[c].deadline
    PROVE  Delivery!Next
<1>1. CASE pending[Thread(c)] = "raise"
  BY <1>1, UnwindRaises DEF Finish, Delivery!Next
<1>2. CASE pending[Thread(c)] # "raise"
  <2>1. /\ pc' = [pc EXCEPT ![c] = "idle"] /\ log' = log
        /\ out' = [out EXCEPT ![c] = outcome]
        /\ \A d \in Callers : d # c => cur'[d] = cur[d]
    BY <1>2 DEF Finish, Goto, Settle, Forget
  <2>2. Active' = Active \ {c} /\ Hand' = [Hand EXCEPT ![c] = 0]
    BY <2>1, SeenMove
  <2>3. c \in Active /\ Hand[c] = 0
    BY DEF Active, Hand
  <2>4. Hand' = Hand
    BY <2>2, <2>3 DEF Hand
  <2>5. Delivery!GiveUp(c)
    BY <2>1, <2>2, <2>3, <2>4 DEF Delivery!GiveUp
  <2>6. QED
    BY <2>5 DEF Delivery!Next
<1>3. QED
  BY <1>1, <1>2

\* A return with an event is an answer.
LEMMA ReturnAnswers ==
    ASSUME TypeOK, Stacks, Custody, Patience, NEW c \in Callers, Return(c), HasEvent(c)
    PROVE  Delivery!Next
<1>1. /\ OnTop(c) /\ ~Idle(c) /\ pc[c] = "hand" /\ Finish(c, "event", "result")
      /\ UNCHANGED <<arrived, now, call>>
  BY DEF Return, Runs, Idle
<1>2. CASE pending[Thread(c)] = "raise"
  BY <1>1, <1>2, UnwindRaises DEF Finish, Delivery!Next
<1>3. CASE pending[Thread(c)] # "raise"
  <2>1. Holds(c) /\ Hand[c] = cur[c] /\ cur[c] # 0 /\ c \in Active
    BY <1>1 DEF Holds, HasEvent, Hand, Active
  <2>2. /\ pc' = [pc EXCEPT ![c] = "idle"]
        /\ log' = [log EXCEPT ![Hand[c]].to = "result"]
        /\ out' = [out EXCEPT ![c] = "event"]
        /\ \A d \in Callers : d # c => cur'[d] = cur[d]
    BY <1>1, <1>3, <2>1 DEF Finish, Goto, Settle, Forget
  <2>3. Active' = Active \ {c} /\ Hand' = [Hand EXCEPT ![c] = 0]
    BY <2>2, SeenMove
  <2>4. call[c].mode # "each" /\ (call[c].mode # "recv" => Delivery!Wanted(c))
    <3>1. call[c].mode # "each" /\ (call[c].mode # "recv" => GotWanted(c))
      BY DEF Return, Waits
    <3>2. QED
      BY <2>1, <3>1, SameWants DEF Event, GotWanted, Delivery!Wanted
  <2>5. Delivery!Answer(c)
    BY <1>1, <2>1, <2>2, <2>3, <2>4 DEF Delivery!Answer, Delivery!Decides, Delivery!Decide
  <2>6. QED
    BY <2>5 DEF Delivery!Next
<1>4. QED
  BY <1>2, <1>3

\* An event that is passed on is passed on in EventDelivery; a nil is not seen.
LEMMA PassIsSeen ==
    ASSUME TypeOK, NEW c \in Callers, PassOn(c)
    PROVE  Delivery!Next \/ UNCHANGED Delivery!vars
<1> DEFINE p == IF call[c].block THEN "block" ELSE LoopTop(call[c].mode)
           fate == IF call[c].block THEN "block" ELSE "nowhere"
<1>1. /\ pc[c] = "hand" /\ Settle(c, fate) /\ pc' = [pc EXCEPT ![c] = p]
      /\ UNCHANGED <<arrived, now, call, out>>
      /\ \A d \in Callers : d # c => cur'[d] = cur[d]
  BY DEF PassOn, Goto
<1>2. p # "hand" /\ p # "idle"
  BY DEF LoopTop
<1> HIDE DEF p
<1>3. Active' = Active /\ Hand' = [Hand EXCEPT ![c] = 0] /\ c \in Active
  <2>1. c \in Active
    BY <1>1 DEF Active, Idle
  <2>2. Active' = Active \cup {c} /\ Hand' = [Hand EXCEPT ![c] = 0]
    BY <1>1, <1>2, SeenMove
  <2>3. QED
    BY <2>1, <2>2
<1>4. CASE HasEvent(c)
  <2>1. Holds(c) /\ Hand[c] = cur[c] /\ cur[c] # 0
    BY <1>1, <1>4 DEF Holds, HasEvent, Hand
  <2>2. log' = [log EXCEPT ![Hand[c]].to = fate]
    BY <1>1, <2>1 DEF Settle
  <2>3. call[c].mode # "recv" /\ (call[c].mode # "each" => ~Delivery!Wanted(c))
    <3>1. call[c].mode # "recv" /\ (call[c].mode # "each" => ~GotWanted(c))
      BY <1>4, CallFacts DEF PassOn, Waits
    <3>2. QED
      BY <1>4, <2>1, <3>1, SameWants DEF Event, GotWanted, Delivery!Wanted
  <2>4. Delivery!Pass(c)
    BY <1>1, <1>3, <2>1, <2>2, <2>3 DEF Delivery!Pass, Delivery!Decides, Delivery!Decide
  <2>5. QED
    BY <2>4 DEF Delivery!Next
<1>5. CASE ~HasEvent(c)
  <2>1. ~Holds(c) /\ Hand[c] = 0
    BY <1>5 DEF Holds, HasEvent, Hand
  <2>2. Hand' = Hand
    BY <1>3, <2>1 DEF Hand
  <2>3. log' = log
    BY <1>1, <2>1 DEF Settle
  <2>4. QED
    BY <1>1, <1>3, <2>2, <2>3 DEF Delivery!vars
<1>6. QED
  BY <1>4, <1>5

LEMMA StepIsSeen ==
    ASSUME TypeOK, Stacks, Custody, Patience, Blocks, [Next]_vars
    PROVE  Delivery!Next \/ UNCHANGED Delivery!vars
<1>1. ASSUME NEW e \in Events, Arrive(e) PROVE Delivery!Next
  <2>1. Active' = Active /\ Hand' = Hand
    BY <1>1 DEF Arrive, Active, Hand, Idle, Holds
  <2>2. Delivery!Arrive(e)
    BY <1>1, <2>1 DEF Arrive, Delivery!Arrive
  <2>3. QED
    BY <2>2 DEF Delivery!Next
<1>2. CASE Tick
  <2>1. Active' = Active /\ Hand' = Hand
    BY <1>2 DEF Tick, Active, Hand, Idle, Holds
  <2>2. Delivery!Tick
    BY <1>2, <2>1 DEF Tick, Delivery!Tick
  <2>3. QED
    BY <2>2 DEF Delivery!Next
<1>3. ASSUME NEW t \in Callers, NEW k \in Kinds, Interrupt(t, k) PROVE Delivery!Next
  <2> DEFINE S == {d \in Callers : Thread(d) = t /\ ~Idle(d)}
  <2>1. Active' = Active /\ Hand' = Hand
    BY <1>3 DEF Interrupt, Active, Hand, Idle, Holds
  <2>2. S \subseteq Active
    BY DEF Active
  <2>3. call' = [d \in Callers |->
                    IF d \in S THEN [call[d] EXCEPT !.disturbed = TRUE] ELSE call[d]]
    BY <1>3 DEF Interrupt
  <2>4. UNCHANGED <<arrived, log, now, out>>
    BY <1>3 DEF Interrupt
  <2> HIDE DEF S
  <2>5. Delivery!Disturb(S)
    BY <2>1, <2>2, <2>3, <2>4 DEF Delivery!Disturb
  <2>6. QED
    BY <2>2, <2>5 DEF Delivery!Next
<1>4. ASSUME NEW c \in Callers, NEW m \in Methods, NEW w \in Wants,
             NEW d \in Durations \cup {0}, NEW b \in BOOLEAN, Begin(c, m, w, d, b)
      PROVE  Delivery!Next
  <2>1. /\ pc[c] = "idle" /\ pc' = [pc EXCEPT ![c] = LoopTop(m)] /\ cur' = cur
        /\ call' = [call EXCEPT ![c] = Call(c, m, w, d, b)]
        /\ out' = [out EXCEPT ![c] = "none"]
        /\ UNCHANGED <<arrived, log, now>>
    BY <1>4 DEF Begin, Goto, Idle
  <2>2. LoopTop(m) \notin {"idle", "hand"}
    BY DEF LoopTop
  <2>3. Active' = Active \cup {c} /\ Hand' = [Hand EXCEPT ![c] = 0]
    BY <2>1, <2>2, SeenMove
  <2>4. c \notin Active /\ Hand' = Hand
    BY <2>1, <2>3 DEF Active, Idle, Hand, Holds
  <2>5. Call(c, m, w, d, b) \in Calls
    BY NumbersAssumption DEF Call, Calls, TypeOK, Interrupted
  <2>6. call'[c] = Call(c, m, w, d, b)
    BY <2>1 DEF TypeOK
  <2>7. call'[c].from = Len(log) /\ call'[c].deadline >= now
    <3>1. d \in Nat /\ now \in Nat
      BY NumbersAssumption DEF TypeOK
    <3>2. call'[c].from = Len(log) /\ call'[c].deadline = now + d
      BY <2>6 DEF Call
    <3>3. QED
      BY <3>1, <3>2
  <2>8. Delivery!Begin(c)
    <3>1. call'[c] \in Delivery!Calls
      BY <2>5, <2>6, SameCalls
    <3>2. call' = [call EXCEPT ![c] = call'[c]]
      BY <2>1, <2>6
    <3>3. Active' = Active \cup {c}
      BY <2>3
    <3>4. out' = [out EXCEPT ![c] = "none"] /\ UNCHANGED <<arrived, log, now>>
      BY <2>1
    <3>5. QED
      BY <2>4, <2>7, <3>1, <3>2, <3>3, <3>4 DEF Delivery!Begin
  <2>9. QED
    BY <2>8 DEF Delivery!Next
<1>5. ASSUME NEW c \in Callers,
             KeepWaiting(c) \/ PollCall(c) \/ PollReady(c) \/ RecvCall(c)
               \/ RecvSkipped(c) \/ ReadInterrupted(c) \/ BlockReturn(c)
      PROVE  UNCHANGED Delivery!vars
  <2>1. UNCHANGED <<arrived, log, now, call, out>>
    BY <1>5 DEF KeepWaiting, PollCall, PollReady, RecvCall, RecvSkipped, ReadInterrupted,
       BlockReturn
  <2>2. CASE ReadInterrupted(c)
    BY <2>1, <2>2, Unseen DEF ReadInterrupted, Idle, Holds
  <2>3. CASE KeepWaiting(c) \/ PollCall(c) \/ PollReady(c) \/ RecvCall(c)
               \/ RecvSkipped(c) \/ BlockReturn(c)
    <3>1. /\ pc[c] \notin {"idle", "hand"}
          /\ pc'[c] # "idle" /\ (pc'[c] = "hand" => cur'[c] = 0)
          /\ \A d \in Callers : d # c => pc'[d] = pc[d] /\ cur'[d] = cur[d]
      <4>1. LoopTop(call[c].mode) \notin {"idle", "hand"}
        BY DEF LoopTop
      <4>2. CASE BlockReturn(c)
        BY <4>1, <4>2 DEF BlockReturn, Goto, TypeOK
      <4>3. CASE KeepWaiting(c) \/ PollCall(c) \/ PollReady(c) \/ RecvCall(c)
        BY <4>3 DEF KeepWaiting, PollCall, PollReady, RecvCall, Goto, TypeOK
      <4>4. CASE RecvSkipped(c)
        BY <4>4 DEF RecvSkipped, Goto, TypeOK
      <4>5. QED
        BY <2>3, <4>2, <4>3, <4>4
    <3>2. QED
      BY <2>1, <3>1, Unseen DEF Idle, Holds
  <2>4. QED
    BY <1>5, <2>2, <2>3
<1>6. ASSUME NEW c \in Callers, ReadEvent(c) PROVE Delivery!Next
  <2>1. /\ pc[c] = "reading" /\ pc' = [pc EXCEPT ![c] = "hand"]
        /\ cur' = [cur EXCEPT ![c] = Len(log) + 1]
        /\ log' = Append(log, [by |-> c, to |-> "hand"]) /\ Len(arrived) # Len(log)
        /\ UNCHANGED <<arrived, now, call, out>>
    BY <1>6 DEF ReadEvent, Goto, Read, InboxEmpty
  <2>2. cur'[c] = Len(log) + 1 /\ \A d \in Callers : d # c => cur'[d] = cur[d]
    BY <2>1 DEF TypeOK
  <2>3. Active' = Active \cup {c} /\ Hand' = [Hand EXCEPT ![c] = Len(log) + 1]
    <3>1. pc'[c] = "hand" /\ \A d \in Callers : d # c => pc'[d] = pc[d]
      BY <2>1 DEF TypeOK
    <3>2. Active' = Active \cup {c}
      BY <3>1 DEF Active, Idle
    <3>3. Hand' = [Hand EXCEPT ![c] = cur'[c]]
      BY <2>2, <3>1 DEF Hand, Holds
    <3>4. QED
      BY <2>2, <3>2, <3>3
  <2>4. c \in Active /\ Hand[c] = 0
    BY <2>1 DEF Active, Idle, Hand, Holds
  <2>5. Len(log) < Len(arrived)
    <3>1. Len(log) \in Nat /\ Len(arrived) \in Nat /\ Len(log) <= Len(arrived)
      BY LenProperties DEF TypeOK, Custody, Read
    <3>2. QED
      BY <2>1, <3>1
  <2>6. Active' = Active
    BY <2>3, <2>4
  <2>7. Delivery!Take(c)
    BY <2>1, <2>3, <2>4, <2>5, <2>6 DEF Delivery!Take
  <2>8. QED
    BY <2>7 DEF Delivery!Next
<1>7. ASSUME NEW c \in Callers, TimeIsUp(c) PROVE Delivery!Next
  <2>1. OnTop(c) /\ pc[c] = "loop" /\ TimeLeft(c) <= 0 /\ Finish(c, "nil", "nowhere")
        /\ UNCHANGED <<arrived, now, call>>
    BY <1>7 DEF TimeIsUp, Runs
  <2>2. ~Idle(c) /\ ~Holds(c) /\ call[c].mode = "timed"
    BY <2>1 DEF Idle, Holds, Patience, PatienceOf, Punctual
  <2>3. now + Ms > call[c].deadline
    BY <2>1, CallFacts, NumbersAssumption DEF TimeLeft
  <2>4. QED
    BY <2>1, <2>2, <2>3, FinishGivesUp
<1>8. ASSUME NEW c \in Callers, PollNil(c) PROVE Delivery!Next
  <2>1. OnTop(c) /\ pc[c] \in {"poll", "polling"} /\ Finish(c, "nil", "nowhere")
        /\ UNCHANGED <<arrived, now, call>>
    BY <1>8 DEF PollNil, Runs
  <2>2. ~Idle(c) /\ ~Holds(c) /\ call[c].mode # "each"
    BY <2>1 DEF Idle, Holds, Patience, PatienceOf, Punctual, Waits
  <2>3. call[c].disturbed \/ (call[c].mode = "timed" /\ now + Ms > call[c].deadline)
    BY <1>8, NilAtPoll
  <2>4. QED
    BY <2>1, <2>2, <2>3, FinishGivesUp
<1>9. ASSUME NEW c \in Callers, Return(c) \/ EachEnds(c) PROVE Delivery!Next
  <2>1. CASE HasEvent(c)
    BY <1>9, <2>1, ReturnAnswers DEF EachEnds
  <2>2. CASE ~HasEvent(c)
    <3>1. /\ OnTop(c) /\ pc[c] = "hand" /\ UNCHANGED <<arrived, now, call>>
      BY <1>9 DEF Return, EachEnds, Runs
    <3>2. ~Idle(c) /\ ~Holds(c) /\ call[c].disturbed
      BY <2>2, <3>1 DEF Idle, Holds, HasEvent, Patience, PatienceOf, Knows
    <3>3. CASE Return(c)
      <4>1. Finish(c, "nil", "result") /\ call[c].mode # "each"
        BY <2>2, <3>3 DEF Return, Waits, GotWanted
      <4>2. QED
        BY <3>1, <3>2, <4>1, FinishGivesUp
    <3>4. CASE EachEnds(c)
      <4>1. Finish(c, "ended", "nowhere") /\ call[c].mode = "each"
        BY <3>4 DEF EachEnds
      <4>2. QED
        BY <3>1, <3>2, <4>1, FinishGivesUp
    <3>5. QED
      BY <1>9, <3>3, <3>4
  <2>3. QED
    BY <2>1, <2>2
<1>10. ASSUME NEW c \in Callers, BlockBreak(c) PROVE Delivery!Next
  <2>1. /\ pc[c] = "block" /\ pc' = [pc EXCEPT ![c] = "idle"]
        /\ out' = [out EXCEPT ![c] = "broke"]
        /\ UNCHANGED <<arrived, log, now, call>>
        /\ \A d \in Callers : d # c => cur'[d] = cur[d]
    BY <1>10 DEF BlockBreak, Goto, Forget
  <2>2. Active' = Active \ {c} /\ Hand' = [Hand EXCEPT ![c] = 0]
    BY <2>1, SeenMove
  <2>3. c \in Active /\ Hand[c] = 0 /\ call[c].block
    BY <2>1 DEF Active, Idle, Hand, Holds, Blocks
  <2>4. Hand' = Hand
    BY <2>2, <2>3 DEF Hand
  <2>5. Delivery!BreakOut(c)
    BY <2>1, <2>2, <2>3, <2>4 DEF Delivery!BreakOut
  <2>6. QED
    BY <2>5 DEF Delivery!Next
<1>11. ASSUME NEW c \in Callers, CheckInterrupts(c)
       PROVE  Delivery!Next \/ UNCHANGED Delivery!vars
  <2>1. OnTop(c) /\ ~Idle(c) /\ UNCHANGED <<arrived, now, call>>
    BY <1>11 DEF CheckInterrupts, Runs, RubyPoints, Idle
  <2>2. CASE pending[Thread(c)] = "raise"
    BY <1>11, <2>1, <2>2, UnwindRaises DEF CheckInterrupts, Delivery!Next
  <2>3. CASE pending[Thread(c)] # "raise"
    BY <1>11, <2>1, <2>3, Unseen DEF CheckInterrupts, Idle, Holds
  <2>4. QED
    BY <2>2, <2>3
<1>12. CASE UNCHANGED vars
  BY <1>12, Unseen DEF vars, Idle, Holds
<1>13. QED
  BY <1>1, <1>2, <1>3, <1>4, <1>5, <1>6, <1>7, <1>8, <1>9, <1>10, <1>11, <1>12, PassIsSeen
     DEF Next, Step, BlockEnds

\* The poller, the read and the interrupts only make the steps of EventDelivery, for any
\* callers, events, clock and nesting, as long as the int of poller.wait holds the
\* timeouts (node.rb:22-135).
THEOREM ImplementsDelivery == ASSUME ShortTimeouts PROVE Spec => DeliversEvents
<1>1. Init => Delivery!Init /\ Patience /\ Blocks /\ Stacks
  <2> SUFFICES ASSUME Init PROVE Delivery!Init /\ Patience /\ Blocks /\ Stacks
    OBVIOUS
  <2>1. NoCall \in Calls
    BY WantsAssumption DEF NoCall, Calls, Methods
  <2>2. call \in [Callers -> Delivery!Calls]
    BY <2>1, SameCalls DEF Init
  <2>3. Active = {} /\ Hand = [c \in Callers |-> 0]
    BY DEF Init, Active, Hand, Idle, Holds
  <2>4. Delivery!Init
    BY <2>2, <2>3 DEF Init, Delivery!Init
  <2>5. Patience
    BY PatienceInit
  <2>6. Blocks /\ Stacks
    BY DEF Init, Blocks, Stacks, Idle
  <2>7. QED
    BY <2>4, <2>5, <2>6
<1>2. TypeOK /\ Stacks /\ Custody /\ Patience /\ Blocks /\ [Next]_vars
          => [Delivery!Next]_Delivery!vars
  BY StepIsSeen
<1>3. TypeOK /\ Patience /\ [Next]_vars => Patience'
  BY PatienceStep
<1>4. QED
  BY <1>1, <1>2, <1>3, StacksStep, BlocksStep, TypeCorrect, EventsInCustody, PTL
     DEF Spec, DeliversEvents, Delivery!Spec

=============================================================================
