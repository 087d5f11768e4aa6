-------------------------- MODULE NodeCallsProofs --------------------------
(***************************************************************************)
(* What holds of NodeCalls for any threads, Strings, headers and calls.    *)
(***************************************************************************)
EXTENDS NodeCalls, SequenceTheorems, TLAPS

(***************************************************************************)
(* Sequences of calls.                                                     *)
(***************************************************************************)

LEMMA CallType ==
    ASSUME TypeOK, NEW k \in DOMAIN calls
    PROVE  calls[k] \in CallRecords /\ DOMAIN calls = 1..Len(calls) /\ Len(calls) \in Nat
  BY ElementOfSeq, LenProperties DEF TypeOK, CallsType, RunningType, LoopType, ToldType, TextType

LEMMA ValueType ==
    ASSUME TypeOK, NEW x \in Strings \cup Texts
    PROVE  Value(x) \in Texts
  BY DEF TypeOK, CallsType, RunningType, LoopType, ToldType, TextType, Value

\* The texts of some arguments.
LEMMA ValuesType ==
    ASSUME TypeOK, NEW args \in Seq(Strings \cup Texts)
    PROVE  /\ Values(args) \in Seq(Texts) /\ DOMAIN Values(args) = DOMAIN args
           /\ \A k \in DOMAIN args : Values(args)[k] = Value(args[k])
<1>1. /\ DOMAIN args = 1..Len(args) /\ Len(args) \in Nat
      /\ \A k \in 1..Len(args) : args[k] \in Strings \cup Texts
  BY ElementOfSeq, LenProperties
<1>2. /\ DOMAIN Values(args) = 1..Len(args)
      /\ \A k \in 1..Len(args) : Values(args)[k] = Value(args[k])
  BY <1>1 DEF Values
<1>3. Values(args) \in [1..Len(args) -> Texts]
  BY <1>1, ValueType DEF Values
<1>4. QED
  BY <1>1, <1>2, <1>3, SeqDef

LEMMA NewCallIs ==
    ASSUME NEW op, NEW args, NEW st
    PROVE  LET x == NewCall(op, args, st)
           IN  /\ x.op = op /\ x.args = args /\ x.asked = Values(args)
               /\ x.changed = {} /\ x.status = st
  BY DEF NewCall

LEMMA NewCallType ==
    ASSUME TypeOK, NEW op \in Ops \cup {"set_header"}, NEW args \in Seq(Strings \cup Texts),
           NEW st \in {"running", "returned", "raised"}
    PROVE  NewCall(op, args, st) \in CallRecords
  BY ValuesType DEF NewCall, CallRecords

\* A new call at the end.
LEMMA AddCall ==
    ASSUME TypeOK, NEW x \in CallRecords, calls' = Append(calls, x)
    PROVE  /\ calls' \in Seq(CallRecords)
           /\ DOMAIN calls' = 1..(Len(calls) + 1) /\ DOMAIN calls = 1..Len(calls)
           /\ Len(calls) \in Nat
           /\ calls'[Len(calls) + 1] = x
           /\ \A k \in DOMAIN calls : calls'[k] = calls[k]
  BY AppendProperties, LenProperties DEF TypeOK, CallsType, RunningType, LoopType, ToldType, TextType

\* The call k ends.
LEMMA EndCall ==
    ASSUME TypeOK, NEW k \in DOMAIN calls, NEW st \in {"running", "returned", "raised"},
           calls' = [calls EXCEPT ![k].status = st]
    PROVE  /\ calls' \in Seq(CallRecords) /\ DOMAIN calls' = DOMAIN calls
           /\ calls'[k].op = calls[k].op /\ calls'[k].args = calls[k].args
           /\ calls'[k].asked = calls[k].asked /\ calls'[k].changed = calls[k].changed
           /\ calls'[k].status = st
           /\ \A m \in DOMAIN calls : m # k => calls'[m] = calls[m]
<1> DEFINE x == [calls[k] EXCEPT !.status = st]
<1>1. calls \in Seq(CallRecords) /\ calls[k] \in CallRecords /\ k \in 1..Len(calls)
  BY CallType DEF TypeOK, CallsType, RunningType, LoopType, ToldType, TextType
<1>2. /\ x \in CallRecords /\ x.op = calls[k].op /\ x.args = calls[k].args
      /\ x.asked = calls[k].asked /\ x.changed = calls[k].changed /\ x.status = st
  BY <1>1 DEF CallRecords
<1>3. calls' = [calls EXCEPT ![k] = x]
  OBVIOUS
<1> HIDE DEF x
<1>4. calls' \in Seq(CallRecords) /\ Len(calls') = Len(calls)
      /\ \A m \in 1..Len(calls) : calls'[m] = IF m = k THEN x ELSE calls[m]
  BY <1>1, <1>2, <1>3, ExceptSeq
<1>5. DOMAIN calls' = 1..Len(calls') /\ DOMAIN calls = 1..Len(calls)
  BY <1>1, <1>4, LenProperties
<1>6. QED
  BY <1>1, <1>2, <1>4, <1>5

\* The arguments of the calls the program makes.
LEMMA ArgsType ==
    ASSUME NEW op, NEW args \in Arguments(op)
    PROVE  args \in Seq(Strings \cup Texts)
<1>1. args \in Seq(Strings)
  BY ArgListsAssumption DEF Arguments
<1>2. QED
  BY <1>1, SeqMonotonic

LEMMA HeaderArgsType ==
    ASSUME TypeOK, NEW c \in Callers, loop[c] # None, loop[c].at < Len(loop[c].hash)
    PROVE  /\ loop[c] \in Loops /\ loop[c].at + 1 \in DOMAIN loop[c].hash
           /\ loop[c].hash[loop[c].at + 1] \in [key : Keys, value : Strings \cup Texts]
           /\ HeaderArgs(loop[c].hash[loop[c].at + 1]) \in Seq(Strings \cup Texts)
<1>1. loop[c] \in Loops
  BY DEF TypeOK, CallsType, RunningType, LoopType, ToldType, TextType
<1>2. loop[c].hash \in Seq([key : Keys, value : Strings \cup Texts]) /\ loop[c].at \in Nat
  BY <1>1, HashesAssumption DEF Loops
<1>3. loop[c].at + 1 \in 1..Len(loop[c].hash) /\ DOMAIN loop[c].hash = 1..Len(loop[c].hash)
  BY <1>2, LenProperties
<1>4. loop[c].hash[loop[c].at + 1] \in [key : Keys, value : Strings \cup Texts]
  BY <1>2, <1>3, ElementOfSeq
<1>5. HeaderArgs(loop[c].hash[loop[c].at + 1]) \in Seq(Strings \cup Texts)
  BY <1>4, KeysAssumption DEF HeaderArgs
<1>6. QED
  BY <1>1, <1>3, <1>4, <1>5

(***************************************************************************)
(* Types.                                                                  *)
(***************************************************************************)

LEMMA LoopsType ==
    ASSUME NEW l \in Loops
    PROVE  /\ l.hash \in Seq([key : Keys, value : Strings \cup Texts]) /\ l.at \in Nat
           /\ l.before \in [Texts -> Texts \cup {None}] /\ l.mixed \in SUBSET Texts
           /\ Len(l.hash) \in Nat /\ DOMAIN l.hash = 1..Len(l.hash)
           /\ \A j \in 1..Len(l.hash) : l.hash[j] \in [key : Keys, value : Strings \cup Texts]
<1>1. /\ l.hash \in Seq([key : Keys, value : Strings \cup Texts]) /\ l.at \in Nat
      /\ l.before \in [Texts -> Texts \cup {None}] /\ l.mixed \in SUBSET Texts
  BY HashesAssumption DEF Loops
<1>2. /\ Len(l.hash) \in Nat /\ DOMAIN l.hash = 1..Len(l.hash)
  BY <1>1, LenProperties
<1>3. \A j \in 1..Len(l.hash) : l.hash[j] \in [key : Keys, value : Strings \cup Texts]
  BY <1>1, <1>2, ElementOfSeq
<1>4. QED
  BY <1>1, <1>2, <1>3

LEMMA TypeInit == Init => TypeOK
<1> SUFFICES ASSUME Init PROVE TypeOK
  OBVIOUS
<1>1. /\ calls \in Seq(CallRecords) /\ told \in Seq([call : Nat, texts : Seq(Texts)])
      /\ DOMAIN calls = {} /\ DOMAIN told = {}
  BY EmptySeq DEF Init
<1>2. text \in [Strings -> Texts] /\ headers \in [Texts -> Texts \cup {None}] /\ changes \in Nat
  BY DEF Init
<1>3. /\ running \in [Callers -> Nat] /\ \A c \in Callers : running[c] = 0
      /\ loop \in [Callers -> Loops \cup {None}] /\ \A c \in Callers : loop[c] = None
  BY DEF Init
<1>4. QED
  BY <1>1, <1>2, <1>3 DEF TypeOK, CallsType, RunningType, LoopType, ToldType, TextType

\* A call begins, in a thread that was in none.
LEMMA TypeAdd ==
    ASSUME TypeOK, NEW x \in CallRecords, NEW c \in Callers,
           calls' = Append(calls, x),
           Len(x.args) = Count(x.op),
           \/ x.status = "running" /\ running' = [running EXCEPT ![c] = Len(calls) + 1]
           \/ UNCHANGED running
    PROVE  /\ CallsType' /\ RunningType'
           /\ UNCHANGED told => ToldType'
<1>1. /\ calls' \in Seq(CallRecords)
      /\ DOMAIN calls' = 1..(Len(calls) + 1) /\ DOMAIN calls = 1..Len(calls)
      /\ Len(calls) \in Nat
      /\ calls'[Len(calls) + 1] = x
      /\ \A k \in DOMAIN calls : calls'[k] = calls[k]
  BY AddCall
<1>2. /\ running \in [Callers -> Nat]
      /\ \A d \in Callers : running[d] # 0 =>
            running[d] \in DOMAIN calls /\ calls[running[d]].status = "running"
  BY DEF TypeOK, CallsType, RunningType, LoopType, ToldType, TextType
<1>3. \A d \in Callers : running[d] # 0 =>
         running[d] \in DOMAIN calls' /\ calls'[running[d]].status = "running"
  BY <1>1, <1>2
<1>4. RunningType'
  <2>1. CASE UNCHANGED running
    BY <1>2, <1>3, <2>1 DEF RunningType
  <2>2. CASE x.status = "running" /\ running' = [running EXCEPT ![c] = Len(calls) + 1]
    <3>1. running' \in [Callers -> Nat]
      BY <1>1, <1>2, <2>2
    <3>2. /\ running'[c] \in DOMAIN calls' /\ calls'[running'[c]].status = "running"
      BY <1>1, <1>2, <2>2
    <3>3. \A d \in Callers : d # c => running'[d] = running[d]
      BY <1>2, <2>2
    <3>4. QED
      BY <3>1, <3>2, <3>3, <1>3 DEF RunningType
  <2>3. QED
    BY <2>1, <2>2
<1>5. UNCHANGED told => ToldType'
  BY <1>1 DEF TypeOK, CallsType, RunningType, LoopType, ToldType, TextType
<1>6. CallsType'
  <2>1. \A k \in DOMAIN calls : Len(calls'[k].args) = Count(calls'[k].op)
    BY <1>1 DEF TypeOK, CallsType, RunningType, LoopType, ToldType, TextType
  <2>2. QED
    BY <1>1, <2>1 DEF CallsType
<1>7. QED
  BY <1>1, <1>4, <1>5, <1>6

\* The call of c ends.
LEMMA TypeEnd ==
    ASSUME TypeOK, NEW c \in Callers, running[c] # 0,
           NEW st \in {"running", "returned", "raised"},
           calls' = [calls EXCEPT ![running[c]].status = st],
           running' = [running EXCEPT ![c] = 0],
           \A d \in Callers : d # c => running[d] = 0 \/ running[d] # running[c]
    PROVE  /\ CallsType' /\ DOMAIN calls' = DOMAIN calls
           /\ RunningType'
<1>1. /\ running \in [Callers -> Nat] /\ running[c] \in DOMAIN calls
      /\ \A d \in Callers : running[d] # 0 =>
            running[d] \in DOMAIN calls /\ calls[running[d]].status = "running"
  BY DEF TypeOK, CallsType, RunningType, LoopType, ToldType, TextType
<1>2. /\ calls' \in Seq(CallRecords) /\ DOMAIN calls' = DOMAIN calls
      /\ calls'[running[c]].args = calls[running[c]].args
      /\ calls'[running[c]].op = calls[running[c]].op
      /\ \A m \in DOMAIN calls : m # running[c] => calls'[m] = calls[m]
  BY <1>1, EndCall
<1>3. running' \in [Callers -> Nat] /\ \A d \in Callers : d # c => running'[d] = running[d]
  BY <1>1
<1>4. running'[c] = 0
  BY <1>1
<1>5. RunningType'
  BY <1>1, <1>2, <1>3, <1>4 DEF RunningType
<1>6. CallsType'
  <2>3. \A k \in DOMAIN calls : Len(calls'[k].args) = Count(calls'[k].op)
    BY <1>1, <1>2 DEF TypeOK, CallsType, RunningType, LoopType, ToldType, TextType
  <2>4. QED
    BY <1>2, <2>3 DEF CallsType
<1>7. QED
  BY <1>2, <1>5, <1>6

\* No call is of two threads: without it the end of one would leave the other in a
\* call that does not run.
Distinct ==
    \A c, d \in Callers : running[c] # 0 /\ running[c] = running[d] => c = d

LEMMA MixType ==
    ASSUME TypeOK, NEW c \in Callers, NEW name \in Texts
    PROVE  /\ Mix(c, name) \in [Callers -> Loops \cup {None}]
           /\ \A d \in Callers : loop[d] # None => Mix(c, name)[d].at <= Len(Mix(c, name)[d].hash)
           /\ \A d \in Callers : loop[d] = None => Mix(c, name)[d] = None
           /\ Mix(c, name)[c] = loop[c]
<1>1. loop \in [Callers -> Loops \cup {None}]
      /\ \A d \in Callers : loop[d] # None => loop[d].at <= Len(loop[d].hash)
  BY DEF TypeOK, CallsType, RunningType, LoopType, ToldType, TextType
<1>2. ASSUME NEW d \in Callers, loop[d] # None, d # c
      PROVE  LET x == Mix(c, name)[d] IN
             x \in Loops /\ x.at <= Len(x.hash)
  <2>1. loop[d] \in Loops
    BY <1>1, <1>2
  <2>2. Mix(c, name)[d] = [loop[d] EXCEPT !.mixed = @ \cup {name}]
    BY <1>2 DEF Mix
  <2>3. [loop[d] EXCEPT !.mixed = @ \cup {name}] \in Loops
    BY <2>1 DEF Loops
  <2>4. /\ [loop[d] EXCEPT !.mixed = @ \cup {name}].at = loop[d].at
        /\ [loop[d] EXCEPT !.mixed = @ \cup {name}].hash = loop[d].hash
    BY <2>1 DEF Loops
  <2>5. QED
    BY <1>1, <1>2, <2>2, <2>3, <2>4
<1>3. ASSUME NEW d \in Callers, loop[d] = None \/ d = c
      PROVE  Mix(c, name)[d] = loop[d]
  BY <1>3 DEF Mix
<1>4. \A d \in Callers : Mix(c, name)[d] \in Loops \cup {None}
  BY <1>1, <1>2, <1>3
<1>5. Mix(c, name) \in [Callers -> Loops \cup {None}]
  BY <1>4 DEF Mix
<1>6. \A d \in Callers : loop[d] = None => Mix(c, name)[d] = None
  BY <1>3
<1>7. QED
  BY <1>1, <1>2, <1>3, <1>5, <1>6

\* libzyre is told for the call k.
LEMMA ToldAdd ==
    ASSUME TypeOK, NEW k \in Nat, NEW texts \in Seq(Texts), k \in DOMAIN calls',
           \A m \in DOMAIN calls : m \in DOMAIN calls',
           told' = Append(told, [call |-> k, texts |-> texts])
    PROVE  /\ ToldType'
           /\ DOMAIN told' = DOMAIN told \cup {Len(told) + 1} /\ Len(told) + 1 \notin DOMAIN told
           /\ told'[Len(told) + 1] = [call |-> k, texts |-> texts]
           /\ \A j \in DOMAIN told : told'[j] = told[j]
<1>1. [call |-> k, texts |-> texts] \in [call : Nat, texts : Seq(Texts)]
  OBVIOUS
<1>2. /\ told \in Seq([call : Nat, texts : Seq(Texts)])
      /\ \A j \in DOMAIN told : told[j].call \in DOMAIN calls
  BY DEF TypeOK, ToldType
<1>3. /\ told' \in Seq([call : Nat, texts : Seq(Texts)])
      /\ DOMAIN told' = 1..Len(told) + 1 /\ DOMAIN told = 1..Len(told) /\ Len(told) \in Nat
      /\ told'[Len(told) + 1] = [call |-> k, texts |-> texts]
      /\ \A j \in DOMAIN told : told'[j] = told[j]
  BY <1>1, <1>2, AppendProperties, LenProperties
<1>4. DOMAIN told' = DOMAIN told \cup {Len(told) + 1} /\ Len(told) + 1 \notin DOMAIN told
  BY <1>3
<1>5. \A j \in DOMAIN told : told'[j].call \in DOMAIN calls'
  BY <1>2, <1>3
<1>6. told'[Len(told) + 1].call \in DOMAIN calls'
  BY <1>3
<1>7. ToldType'
  BY <1>3, <1>4, <1>5, <1>6 DEF ToldType
<1>8. QED
  BY <1>3, <1>4, <1>7

LEMMA TypeTell ==
    ASSUME TypeOK, Distinct, NEW c \in Callers, Tell(c)
    PROVE  TypeOK'
<1> DEFINE k == running[c]
<1>1. /\ running \in [Callers -> Nat] /\ k \in DOMAIN calls /\ k # 0
      /\ calls[k].status = "running" /\ calls[k] \in CallRecords
  BY CallType DEF TypeOK, CallsType, RunningType, LoopType, ToldType, TextType, Tell
<1>2. PICK texts \in Pointed(calls[k]) :
          /\ told' = Append(told, [call |-> k, texts |-> texts])
          /\ Effect(calls[k].op, texts)
          /\ loop' = IF calls[k].op = "set_header" THEN Mix(c, texts[1]) ELSE loop
  BY DEF Tell
<1>3. CallsType' /\ DOMAIN calls' = DOMAIN calls /\ RunningType'
  BY <1>1, TypeEnd DEF Tell, Distinct
<1>4. LoopType'
  <2>1. CASE calls[k].op = "set_header"
    <3>1. Len(calls[k].args) = 2
      BY <1>1, <2>1 DEF TypeOK, CallsType, Count
    <3>2. DOMAIN calls[k].args = 1..2
      BY <1>1, <3>1, LenProperties DEF CallRecords
    <3>3. texts[1] \in Texts
      BY <1>2, <3>2 DEF Pointed
    <3>4. QED
      BY <1>2, <2>1, <3>3, MixType DEF LoopType
  <2>2. CASE calls[k].op # "set_header"
    BY <1>2, <2>2 DEF TypeOK, CallsType, RunningType, LoopType, ToldType, TextType
  <2>3. QED
    BY <2>1, <2>2
<1>5. texts \in Seq(Texts)
  <2>1. DOMAIN calls[k].args = 1..Len(calls[k].args) /\ Len(calls[k].args) \in Nat
    BY <1>1, LenProperties DEF CallRecords
  <2>2. texts \in [1..Len(calls[k].args) -> Texts]
    BY <1>2, <2>1 DEF Pointed
  <2>3. QED
    BY <2>1, <2>2, SeqDef
<1>6. ToldType'
  <2>1. k \in Nat
    BY <1>1
  <2>2. QED
    BY <1>1, <1>2, <1>3, <1>5, <2>1, ToldAdd
<1>7. headers' \in [Texts -> Texts \cup {None}]
  <2>1. CASE calls[k].op = "set_header"
    <3>1. Len(calls[k].args) = 2
      BY <1>1, <2>1 DEF TypeOK, CallsType, RunningType, LoopType, ToldType, TextType, Count
    <3>2. calls[k].args \in Seq(Strings \cup Texts)
      BY <1>1 DEF CallRecords
    <3>3. DOMAIN calls[k].args = 1..2
      BY <3>1, <3>2, LenProperties
    <3>4. texts[1] \in Texts /\ texts[2] \in Texts
      BY <1>2, <3>3 DEF Pointed
    <3>5. QED
      BY <1>2, <2>1, <3>4 DEF Effect, TypeOK, TextType
  <2>2. CASE calls[k].op # "set_header"
    BY <1>2, <2>2 DEF Effect, TypeOK, TextType
  <2>3. QED
    BY <2>1, <2>2
<1>8. UNCHANGED <<text, changes>>
  BY DEF Tell
<1>9. QED
  BY <1>3, <1>4, <1>6, <1>7, <1>8 DEF TypeOK, TextType

LEMMA TypeCalls ==
    ASSUME TypeOK, NEW c \in Callers, NEW op \in Ops, NEW args \in Arguments(op),
           CallAtOnce(c, op, args) \/ CallRefused(c, op, args) \/ Call(c, op, args)
    PROVE  TypeOK'
<1>1. PICK st \in {"running", "returned", "raised"} :
          /\ calls' = Append(calls, NewCall(op, args, st))
          /\ \/ st = "running" /\ running' = [running EXCEPT ![c] = Len(calls) + 1]
             \/ UNCHANGED running
  BY DEF CallAtOnce, CallRefused, Call
<1>2. args \in Seq(Strings \cup Texts)
  BY ArgsType
<1>3. NewCall(op, args, st) \in CallRecords
  BY <1>2, NewCallType
<1>4. /\ Len(NewCall(op, args, st).args) = Count(NewCall(op, args, st).op)
      /\ NewCall(op, args, st).status = st
  BY DEF NewCall, Arguments
<1>5. CallsType' /\ RunningType' /\ (UNCHANGED told => ToldType')
  BY <1>1, <1>3, <1>4, TypeAdd
<1>6. ToldType'
  <2>1. CASE CallAtOnce(c, op, args)
    <3>1. /\ DOMAIN calls' = 1..(Len(calls) + 1) /\ DOMAIN calls = 1..Len(calls)
          /\ Len(calls) \in Nat
      BY <1>1, <1>3, AddCall
    <3>2. /\ Len(calls) + 1 \in Nat /\ Len(calls) + 1 \in DOMAIN calls'
          /\ \A m \in DOMAIN calls : m \in DOMAIN calls'
      BY <3>1
    <3>3. Values(args) \in Seq(Texts)
      BY <1>2, ValuesType
    <3>4. QED
      BY <2>1, <3>2, <3>3, ToldAdd DEF CallAtOnce
  <2>2. CASE UNCHANGED told
    BY <1>5, <2>2
  <2>3. QED
    BY <2>1, <2>2 DEF CallRefused, Call
<1>7. UNCHANGED <<text, headers, changes, loop>>
  BY DEF CallAtOnce, CallRefused, Call
<1>8. TextType' /\ LoopType'
  BY <1>7 DEF TypeOK, TextType, LoopType
<1>9. QED
  BY <1>5, <1>6, <1>8 DEF TypeOK

LEMMA TypeRaise ==
    ASSUME TypeOK, Distinct, NEW c \in Callers, Raise(c)
    PROVE  TypeOK'
<1>1. /\ running \in [Callers -> Nat] /\ running[c] \in DOMAIN calls /\ running[c] # 0
  BY DEF TypeOK, RunningType, Raise
<1>2. CallsType' /\ DOMAIN calls' = DOMAIN calls /\ RunningType'
  BY <1>1, TypeEnd DEF Raise, Distinct
<1>3. LoopType'
  BY DEF TypeOK, LoopType, Raise
<1>4. ToldType'
  BY <1>2 DEF TypeOK, ToldType, Raise
<1>5. QED
  BY <1>2, <1>3, <1>4 DEF TypeOK, TextType, Raise

LEMMA TypeBegin ==
    ASSUME TypeOK, NEW c \in Callers, NEW hash \in Hashes, BeginHeaders(c, hash)
    PROVE  TypeOK'
<1> DEFINE l == [hash |-> hash, at |-> 0, before |-> headers, mixed |-> {}]
<1>1. headers \in [Texts -> Texts \cup {None}]
  BY DEF TypeOK, TextType
<1>2. l \in Loops /\ l.at <= Len(l.hash)
  <2>1. l \in Loops
    BY <1>1 DEF Loops
  <2>2. l.at = 0 /\ Len(l.hash) \in Nat
    BY <2>1, LoopsType
  <2>3. QED
    BY <2>1, <2>2
<1>3. loop' = [loop EXCEPT ![c] = l]
  BY DEF BeginHeaders
<1> HIDE DEF l
<1>4. LoopType'
  BY <1>2, <1>3 DEF TypeOK, LoopType
<1>5. UNCHANGED <<text, calls, running, told, headers, changes>>
  BY DEF BeginHeaders
<1>6. QED
  BY <1>4, <1>5 DEF TypeOK, CallsType, RunningType, ToldType, TextType

LEMMA TypeEndHeaders ==
    ASSUME TypeOK, NEW c \in Callers, EndHeaders(c)
    PROVE  TypeOK'
<1>1. LoopType'
  BY DEF TypeOK, LoopType, EndHeaders
<1>2. QED
  BY <1>1 DEF TypeOK, CallsType, RunningType, ToldType, TextType, EndHeaders

LEMMA TypeNextHeader ==
    ASSUME TypeOK, NEW c \in Callers, NextHeader(c)
    PROVE  TypeOK'
<1> DEFINE args == HeaderArgs(loop[c].hash[loop[c].at + 1])
           l == [loop[c] EXCEPT !.at = @ + 1]
<1>1. loop[c] # None /\ loop[c].at < Len(loop[c].hash) /\ loop[c] \in Loops
  BY DEF NextHeader, InLoop, TypeOK, LoopType
<1>2. args \in Seq(Strings \cup Texts) /\ Len(args) = Count("set_header")
  BY <1>1, HeaderArgsType DEF HeaderArgs, Count
<1>3. PICK st \in {"running", "raised"} :
          /\ calls' = Append(calls, NewCall("set_header", args, st))
          /\ \/ st = "running" /\ running' = [running EXCEPT ![c] = Len(calls) + 1]
             \/ UNCHANGED running
          /\ loop' = [loop EXCEPT ![c] = l] \/ loop' = [loop EXCEPT ![c] = None]
  BY DEF NextHeader
<1> HIDE DEF args
<1>4. NewCall("set_header", args, st) \in CallRecords
  BY <1>2, NewCallType
<1>5. /\ Len(NewCall("set_header", args, st).args) = Count(NewCall("set_header", args, st).op)
      /\ NewCall("set_header", args, st).status = st
  BY <1>2 DEF NewCall
<1>6. CallsType' /\ RunningType' /\ ToldType'
  BY <1>3, <1>4, <1>5, TypeAdd DEF NextHeader
<1>7. l \in Loops /\ l.at <= Len(l.hash)
  <2>1. /\ loop[c].at \in Nat /\ Len(loop[c].hash) \in Nat
    BY <1>1, LoopsType
  <2>2. /\ l.at = loop[c].at + 1 /\ l.hash = loop[c].hash
    BY <1>1 DEF Loops
  <2>3. l \in Loops
    BY <1>1, <2>1 DEF Loops
  <2>4. QED
    BY <1>1, <2>1, <2>2, <2>3
<1> HIDE DEF l
<1>8. LoopType'
  BY <1>3, <1>7 DEF TypeOK, LoopType
<1>9. QED
  BY <1>6, <1>8 DEF TypeOK, TextType, NextHeader

\* What a change of the String s leaves of the calls and the loops.
LEMMA ChangeCalls ==
    ASSUME TypeOK, NEW s \in Strings, NEW x \in Texts, Change(s, x)
    PROVE  /\ DOMAIN calls' = DOMAIN calls /\ CallsType'
           /\ \A k \in DOMAIN calls :
                 /\ calls'[k].args = calls[k].args /\ calls'[k].asked = calls[k].asked
                 /\ calls'[k].op = calls[k].op /\ calls'[k].status = calls[k].status
                 /\ calls'[k].changed = IF calls[k].status = "running"
                                        THEN calls[k].changed \cup {s} ELSE calls[k].changed
<1>1. /\ DOMAIN calls = 1..Len(calls) /\ Len(calls) \in Nat
      /\ \A k \in 1..Len(calls) : calls[k] \in CallRecords
  BY ElementOfSeq, LenProperties DEF TypeOK, CallsType
<1>2. ASSUME NEW k \in 1..Len(calls)
      PROVE  /\ calls'[k] \in CallRecords
             /\ calls'[k].args = calls[k].args /\ calls'[k].asked = calls[k].asked
             /\ calls'[k].op = calls[k].op /\ calls'[k].status = calls[k].status
             /\ calls'[k].changed = IF calls[k].status = "running"
                                    THEN calls[k].changed \cup {s} ELSE calls[k].changed
  <2>1. calls[k] \in CallRecords
    BY <1>1
  <2>2. calls'[k] = IF calls[k].status = "running"
                    THEN [calls[k] EXCEPT !.changed = @ \cup {s}] ELSE calls[k]
    BY <1>1 DEF Change
  <2>3. CASE calls[k].status = "running"
    BY <2>1, <2>2, <2>3 DEF CallRecords
  <2>4. CASE calls[k].status # "running"
    BY <2>1, <2>2, <2>4
  <2>5. QED
    BY <2>3, <2>4
<1>3. DOMAIN calls' = 1..Len(calls) /\ calls' \in [1..Len(calls) -> CallRecords]
  <2>1. DOMAIN calls' = 1..Len(calls) /\ calls' = [k \in 1..Len(calls) |-> calls'[k]]
    BY <1>1 DEF Change
  <2>2. QED
    BY <1>2, <2>1
<1>4. calls' \in Seq(CallRecords)
  BY <1>1, <1>3, SeqDef
<1>5. \A k \in DOMAIN calls : Len(calls'[k].args) = Count(calls'[k].op)
  BY <1>1, <1>2 DEF TypeOK, CallsType
<1>6. QED
  BY <1>1, <1>2, <1>3, <1>4, <1>5 DEF CallsType

LEMMA NamesOfType ==
    ASSUME NEW l \in Loops, NEW s
    PROVE  NamesOf(l.hash, s) \subseteq Texts
<1>1. \A j \in DOMAIN l.hash : l.hash[j].key \in Keys
  BY LoopsType
<1>2. QED
  BY <1>1, KeysAssumption DEF NamesOf

LEMMA ChangeLoops ==
    ASSUME TypeOK, NEW s \in Strings, NEW x \in Texts, Change(s, x), NEW c \in Callers
    PROVE  /\ loop[c] = None => loop'[c] = None
           /\ loop[c] # None =>
                 /\ loop'[c] \in Loops /\ loop'[c].hash = loop[c].hash
                 /\ loop'[c].at = loop[c].at /\ loop'[c].before = loop[c].before
                 /\ loop'[c].mixed = loop[c].mixed \cup NamesOf(loop[c].hash, s)
<1>1. CASE loop[c] = None
  BY <1>1 DEF Change
<1>2. CASE loop[c] # None
  <2> DEFINE names == NamesOf(loop[c].hash, s)
             l == [loop[c] EXCEPT !.mixed = @ \cup names]
  <2>1. loop[c] \in Loops
    BY <1>2 DEF TypeOK, LoopType
  <2>2. loop'[c] = l
    BY <1>2 DEF Change
  <2>3. names \subseteq Texts
    BY <2>1, NamesOfType
  <2> HIDE DEF names
  <2>4. l \in Loops /\ l.hash = loop[c].hash /\ l.at = loop[c].at /\ l.before = loop[c].before
    BY <2>1, <2>3 DEF Loops
  <2>5. l.mixed = loop[c].mixed \cup names
    BY <2>1 DEF Loops
  <2> HIDE DEF l
  <2>6. QED
    BY <1>2, <2>2, <2>4, <2>5 DEF names
<1>3. QED
  BY <1>1, <1>2

LEMMA TypeChange ==
    ASSUME TypeOK, NEW s \in Strings, NEW x \in Texts, Change(s, x)
    PROVE  TypeOK'
<1>1. CallsType' /\ DOMAIN calls' = DOMAIN calls
      /\ \A k \in DOMAIN calls : calls'[k].status = calls[k].status
  BY ChangeCalls
<1>2. RunningType'
  BY <1>1 DEF TypeOK, RunningType, Change
<1>3. LoopType'
  <2>1. \A c \in Callers : loop'[c] \in Loops \cup {None}
    BY ChangeLoops
  <2>2. loop' \in [Callers -> Loops \cup {None}]
    BY <2>1 DEF Change
  <2>3. \A c \in Callers : loop'[c] # None => loop'[c].at <= Len(loop'[c].hash)
    <3>1. \A c \in Callers : loop[c] # None => loop[c].at <= Len(loop[c].hash)
      BY DEF TypeOK, LoopType
    <3>2. QED
      BY <3>1, ChangeLoops
  <2>4. QED
    BY <2>2, <2>3 DEF LoopType
<1>4. ToldType'
  BY <1>1 DEF TypeOK, ToldType, Change
<1>5. TextType'
  BY DEF TypeOK, TextType, Change
<1>6. QED
  BY <1>1, <1>2, <1>3, <1>4, <1>5 DEF TypeOK

LEMMA TypeStep == TypeOK /\ Distinct /\ [Next]_vars => TypeOK'
<1> SUFFICES ASSUME TypeOK, Distinct, [Next]_vars PROVE TypeOK'
  OBVIOUS
<1>1. CASE UNCHANGED vars
  BY <1>1 DEF vars, TypeOK, CallsType, RunningType, LoopType, ToldType, TextType
<1>2. CASE Next
  BY <1>2, TypeCalls, TypeTell, TypeRaise, TypeBegin, TypeNextHeader, TypeEndHeaders,
     TypeChange DEF Next
<1>3. QED
  BY <1>1, <1>2

LEMMA DistinctStep == TypeOK /\ Distinct /\ [Next]_vars => Distinct'
<1> SUFFICES ASSUME TypeOK, Distinct, [Next]_vars PROVE Distinct'
  OBVIOUS
<1>1. running \in [Callers -> Nat]
  BY DEF TypeOK, RunningType
<1>2. \A c \in Callers : running[c] # Len(calls) + 1
  <2>1. \A c \in Callers : running[c] # 0 => running[c] \in DOMAIN calls
    BY DEF TypeOK, RunningType
  <2>2. DOMAIN calls = 1..Len(calls) /\ Len(calls) \in Nat
    BY LenProperties DEF TypeOK, CallsType
  <2>3. QED
    BY <1>1, <2>1, <2>2
<1>3. \/ UNCHANGED running
      \/ \E c \in Callers :
            running' = [running EXCEPT ![c] = Len(calls) + 1]
              \/ running' = [running EXCEPT ![c] = 0]
  BY DEF Next, vars, CallAtOnce, CallRefused, Call, Tell, Raise, BeginHeaders, NextHeader,
         EndHeaders, Change
<1>4. QED
  BY <1>1, <1>2, <1>3 DEF Distinct

\* Every variable keeps the shape its comment gives it (node.c, node.rb:58-63).
THEOREM TypeCorrect == Spec => []TypeOK
<1>1. Init => TypeOK /\ Distinct
  <2>1. Init => Distinct
    BY DEF Init, Distinct
  <2>2. QED
    BY <2>1, TypeInit
<1>2. TypeOK /\ Distinct /\ [Next]_vars => (TypeOK /\ Distinct)'
  BY TypeStep, DistinctStep
<1>3. QED
  BY <1>1, <1>2, PTL DEF Spec

(***************************************************************************)
(* What libzyre is told.                                                   *)
(***************************************************************************)

\* A call that runs still points to what it was given, but for the Strings that
\* were changed since.
Fresh ==
    \A k \in DOMAIN calls : calls[k].status = "running" =>
        /\ DOMAIN calls[k].asked = DOMAIN calls[k].args
        /\ \A j \in DOMAIN calls[k].args :
               calls[k].args[j] \in calls[k].changed
                 \/ Value(calls[k].args[j]) = calls[k].asked[j]

ToldInv == Fresh /\ ToldAsAsked /\ ToldOnceIfReturned

\* A call begins, or is refused, and libzyre is told nothing.
LEMMA ToldBegin ==
    ASSUME TypeOK, ToldInv, NEW op \in Ops \cup {"set_header"},
           NEW args \in Seq(Strings \cup Texts), NEW st \in {"running", "raised"},
           calls' = Append(calls, NewCall(op, args, st)), UNCHANGED <<told, text>>
    PROVE  ToldInv'
<1> DEFINE new == Len(calls) + 1
<1>1. /\ DOMAIN calls' = 1..(Len(calls) + 1) /\ DOMAIN calls = 1..Len(calls)
      /\ Len(calls) \in Nat
      /\ calls'[new] = NewCall(op, args, st)
      /\ \A k \in DOMAIN calls : calls'[k] = calls[k]
  BY NewCallType, AddCall
<1>2. DOMAIN calls' = DOMAIN calls \cup {new} /\ new \notin DOMAIN calls
  BY <1>1
<1>3. \A j \in DOMAIN told : told[j].call \in DOMAIN calls
  BY DEF TypeOK, ToldType
<1> HIDE DEF new
<1>4. Fresh'
  <2>1. /\ calls'[new].args = args /\ calls'[new].asked = Values(args)
    BY <1>1, NewCallIs
  <2>2. /\ DOMAIN Values(args) = DOMAIN args
        /\ \A k \in DOMAIN args : Values(args)[k] = Value(args[k])
    BY ValuesType
  <2>3. \A y : Value(y)' = Value(y)
    BY DEF Value
  <2>4. QED
    BY <1>1, <1>2, <2>1, <2>2, <2>3 DEF ToldInv, Fresh
<1>5. ToldAsAsked'
  BY <1>1, <1>3 DEF ToldInv, ToldAsAsked
<1>6. ToldOnceIfReturned'
  <2>1. calls'[new].status # "returned"
    BY <1>1, NewCallIs
  <2>2. Times(new) = {} /\ \A k : Times(k)' = Times(k)
    BY <1>2, <1>3 DEF Times
  <2>3. QED
    BY <1>1, <1>2, <2>1, <2>2 DEF ToldInv, ToldOnceIfReturned
<1>7. QED
  BY <1>4, <1>5, <1>6 DEF ToldInv

LEMMA ToldAtOnce ==
    ASSUME TypeOK, ToldInv, NEW c \in Callers, NEW op \in Ops, NEW args \in Arguments(op),
           CallAtOnce(c, op, args)
    PROVE  ToldInv'
<1>a. PICK new : new = Len(calls) + 1
  OBVIOUS
<1>0. args \in Seq(Strings \cup Texts) /\ Values(args) \in Seq(Texts)
  BY ArgsType, ValuesType
<1>1. /\ DOMAIN calls' = 1..(Len(calls) + 1) /\ DOMAIN calls = 1..Len(calls)
      /\ Len(calls) \in Nat
      /\ calls'[new] = NewCall(op, args, "returned")
      /\ \A k \in DOMAIN calls : calls'[k] = calls[k]
  BY <1>0, <1>a, NewCallType, AddCall DEF CallAtOnce
<1>2. DOMAIN calls' = DOMAIN calls \cup {new} /\ new \notin DOMAIN calls /\ new \in Nat
  BY <1>1, <1>a
<1>3. \A j \in DOMAIN told : told[j].call \in DOMAIN calls
  BY DEF TypeOK, ToldType
<1>4. told' = Append(told, [call |-> new, texts |-> Values(args)])
  BY <1>a DEF CallAtOnce
<1>b. PICK at : at = Len(told) + 1
  OBVIOUS
<1>5. /\ DOMAIN told' = DOMAIN told \cup {at} /\ at \notin DOMAIN told
      /\ told'[at].call = new /\ told'[at].texts = Values(args)
      /\ \A j \in DOMAIN told : told'[j] = told[j]
  BY <1>0, <1>2, <1>4, <1>b, ToldAdd
<1>6. Fresh'
  <2>1. \A y : Value(y)' = Value(y)
    BY DEF Value, CallAtOnce
  <2>2. calls'[new].status # "running"
    BY <1>1, NewCallIs
  <2>3. QED
    BY <1>1, <1>2, <2>1, <2>2 DEF ToldInv, Fresh
<1>7. ToldAsAsked'
  <2>1. calls'[new].asked = Values(args)
    BY <1>1, NewCallIs
  <2>2. QED
    BY <1>1, <1>3, <1>5, <2>1 DEF ToldInv, ToldAsAsked
<1>8. ToldOnceIfReturned'
  <2>1. calls'[new].status = "returned"
    BY <1>1, NewCallIs
  <2>2. Times(new)' = {at}
    <3>1. \A j \in DOMAIN told : told'[j].call # new
      BY <1>2, <1>3, <1>5
    <3>2. at \in Times(new)' /\ \A j \in Times(new)' : j = at
      BY <1>5, <3>1 DEF Times
    <3>3. QED
      BY <3>2
  <2>3. \A k \in DOMAIN calls : Times(k)' = Times(k)
    BY <1>2, <1>5 DEF Times
  <2>4. \A j \in DOMAIN told : j \in DOMAIN told'
    BY <1>5
  <2>5. ASSUME NEW k \in DOMAIN calls
        PROVE  IF calls'[k].status = "returned" THEN \E j \in DOMAIN told' : Times(k)' = {j}
               ELSE Times(k)' = {}
    <3>1. IF calls[k].status = "returned" THEN \E j \in DOMAIN told : Times(k) = {j}
          ELSE Times(k) = {}
      BY DEF ToldInv, ToldOnceIfReturned
    <3>2. Times(k)' = Times(k) /\ calls'[k] = calls[k]
      BY <1>1, <2>3
    <3>3. QED
      BY <2>4, <3>1, <3>2
  <2>6. at \in DOMAIN told'
    BY <1>5
  <2>7. QED
    BY <1>2, <2>1, <2>2, <2>5, <2>6 DEF ToldOnceIfReturned
<1>9. QED
  BY <1>6, <1>7, <1>8 DEF ToldInv

LEMMA ToldTell ==
    ASSUME TypeOK, ToldInv, NEW c \in Callers, Tell(c)
    PROVE  ToldInv'
<1>a. PICK k : k = running[c]
  OBVIOUS
<1>1. /\ k \in DOMAIN calls /\ k \in Nat /\ calls[k].status = "running"
      /\ calls[k] \in CallRecords
  BY <1>a, CallType DEF TypeOK, RunningType, Tell
<1>2. PICK texts \in Pointed(calls[k]) :
          told' = Append(told, [call |-> k, texts |-> texts])
  BY <1>a DEF Tell
<1>3. /\ DOMAIN calls' = DOMAIN calls
      /\ \A m \in DOMAIN calls : m # k => calls'[m] = calls[m]
  BY <1>1, <1>a, EndCall DEF Tell
<1>4. /\ calls'[k].changed = calls[k].changed /\ calls'[k].asked = calls[k].asked
      /\ calls'[k].status = "returned"
  BY <1>1, <1>a, EndCall DEF Tell
<1>5. texts \in Seq(Texts)
  <2>1. DOMAIN calls[k].args = 1..Len(calls[k].args) /\ Len(calls[k].args) \in Nat
    BY <1>1, LenProperties DEF CallRecords
  <2>2. texts \in [1..Len(calls[k].args) -> Texts]
    BY <1>2, <2>1 DEF Pointed
  <2>3. QED
    BY <2>1, <2>2, SeqDef
<1>b. PICK at : at = Len(told) + 1
  OBVIOUS
<1>6. /\ DOMAIN told' = DOMAIN told \cup {at} /\ at \notin DOMAIN told
      /\ told'[at].call = k /\ told'[at].texts = texts
      /\ \A j \in DOMAIN told : told'[j] = told[j]
  BY <1>1, <1>2, <1>3, <1>5, <1>b, ToldAdd
<1>7. \A j \in DOMAIN told : told[j].call \in DOMAIN calls
  BY DEF TypeOK, ToldType
<1>8. Fresh'
  <2>1. \A y : Value(y)' = Value(y)
    BY DEF Value, Tell
  <2>2. QED
    BY <1>3, <1>4, <2>1 DEF ToldInv, Fresh
<1>9. ToldAsAsked'
  <2>1. ASSUME calls[k].changed = {} PROVE texts = calls[k].asked
    <3>1. /\ DOMAIN calls[k].asked = DOMAIN calls[k].args
          /\ \A j \in DOMAIN calls[k].args : Value(calls[k].args[j]) = calls[k].asked[j]
      BY <1>1, <2>1 DEF ToldInv, Fresh
    <3>2. /\ texts \in [DOMAIN calls[k].args -> Texts]
          /\ \A j \in DOMAIN texts : texts[j] = Value(calls[k].args[j])
      BY <1>2, <2>1 DEF Pointed
    <3>3. calls[k].asked \in [1..Len(calls[k].asked) -> Texts]
          /\ DOMAIN calls[k].asked = 1..Len(calls[k].asked)
      BY <1>1, LenProperties DEF CallRecords
    <3>4. QED
      BY <3>1, <3>2, <3>3
  <2>2. \A m \in DOMAIN calls : calls'[m].changed = calls[m].changed
                                  /\ calls'[m].asked = calls[m].asked
    BY <1>3, <1>4
  <2>3. QED
    BY <1>1, <1>6, <1>7, <2>1, <2>2 DEF ToldInv, ToldAsAsked
<1>10. ToldOnceIfReturned'
  <2>1. Times(k) = {}
    BY <1>1 DEF ToldInv, ToldOnceIfReturned
  <2>2. Times(k)' = {at}
    <3>1. \A j \in DOMAIN told : told'[j].call # k
      BY <1>6, <2>1 DEF Times
    <3>2. at \in Times(k)' /\ \A j \in Times(k)' : j = at
      BY <1>6, <3>1 DEF Times
    <3>3. QED
      BY <3>2
  <2>3. \A m \in DOMAIN calls : m # k => Times(m)' = Times(m)
    BY <1>6 DEF Times
  <2>4. \A j \in DOMAIN told : j \in DOMAIN told'
    BY <1>6
  <2>5. ASSUME NEW m \in DOMAIN calls, m # k
        PROVE  IF calls'[m].status = "returned" THEN \E j \in DOMAIN told' : Times(m)' = {j}
               ELSE Times(m)' = {}
    <3>1. IF calls[m].status = "returned" THEN \E j \in DOMAIN told : Times(m) = {j}
          ELSE Times(m) = {}
      BY DEF ToldInv, ToldOnceIfReturned
    <3>2. Times(m)' = Times(m) /\ calls'[m] = calls[m]
      BY <1>3, <2>3, <2>5
    <3>3. QED
      BY <2>4, <3>1, <3>2
  <2>6. at \in DOMAIN told'
    BY <1>6
  <2>7. QED
    BY <1>3, <1>4, <2>2, <2>5, <2>6 DEF ToldOnceIfReturned
<1>11. QED
  BY <1>8, <1>9, <1>10 DEF ToldInv

LEMMA ToldRaise ==
    ASSUME TypeOK, ToldInv, NEW c \in Callers, Raise(c)
    PROVE  ToldInv'
<1> DEFINE k == running[c]
<1>1. /\ k \in DOMAIN calls /\ calls[k].status = "running" /\ calls[k] \in CallRecords
  BY CallType DEF TypeOK, RunningType, Raise
<1>2. /\ DOMAIN calls' = DOMAIN calls
      /\ \A m \in DOMAIN calls : m # k => calls'[m] = calls[m]
  BY <1>1, EndCall DEF Raise
<1>3. /\ calls'[k].changed = calls[k].changed /\ calls'[k].asked = calls[k].asked
      /\ calls'[k].status = "raised"
  BY <1>1, EndCall DEF Raise
<1>4. UNCHANGED <<told, text>>
  BY DEF Raise
<1> HIDE DEF k
<1>5. \A j \in DOMAIN told : told[j].call \in DOMAIN calls
  BY DEF TypeOK, ToldType
<1>6. Fresh'
  <2>1. \A y : Value(y)' = Value(y)
    BY <1>4 DEF Value
  <2>2. QED
    BY <1>2, <1>3, <2>1 DEF ToldInv, Fresh
<1>7. ToldAsAsked'
  BY <1>2, <1>3, <1>4, <1>5 DEF ToldInv, ToldAsAsked
<1>8. ToldOnceIfReturned'
  <2>1. \A m : Times(m)' = Times(m)
    BY <1>4 DEF Times
  <2>2. QED
    BY <1>1, <1>2, <1>3, <1>4, <2>1 DEF ToldInv, ToldOnceIfReturned
<1>9. QED
  BY <1>6, <1>7, <1>8 DEF ToldInv

LEMMA ToldChange ==
    ASSUME TypeOK, ToldInv, NEW s \in Strings, NEW x \in Texts, Change(s, x)
    PROVE  ToldInv'
<1>1. /\ DOMAIN calls' = DOMAIN calls
      /\ \A k \in DOMAIN calls :
            /\ calls'[k].args = calls[k].args /\ calls'[k].asked = calls[k].asked
            /\ calls'[k].status = calls[k].status
            /\ calls'[k].changed = IF calls[k].status = "running"
                                   THEN calls[k].changed \cup {s} ELSE calls[k].changed
  BY ChangeCalls
<1>2. UNCHANGED told /\ text' = [text EXCEPT ![s] = x] /\ text \in [Strings -> Texts]
  BY DEF Change, TypeOK, TextType
<1>3. \A j \in DOMAIN told : told[j].call \in DOMAIN calls
  BY DEF TypeOK, ToldType
<1>4. Fresh'
  <2>1. \A y : y # s => Value(y)' = Value(y)
    BY <1>2 DEF Value
  <2>2. ASSUME NEW k \in DOMAIN calls', calls'[k].status = "running",
               NEW j \in DOMAIN calls'[k].args
        PROVE  calls'[k].args[j] \in calls'[k].changed
                 \/ Value(calls[k].args[j])' = calls'[k].asked[j]
    <3>1. /\ k \in DOMAIN calls /\ calls[k].status = "running" /\ j \in DOMAIN calls[k].args
          /\ calls'[k].args[j] = calls[k].args[j] /\ calls'[k].asked[j] = calls[k].asked[j]
          /\ calls'[k].changed = calls[k].changed \cup {s}
      BY <1>1, <2>2
    <3>2. PICK y : y = calls[k].args[j]
      OBVIOUS
    <3>3. y \in calls[k].changed \/ Value(y) = calls[k].asked[j]
      BY <3>1, <3>2 DEF ToldInv, Fresh
    <3>4. y \in calls'[k].changed \/ Value(y)' = calls'[k].asked[j]
      BY <2>1, <3>1, <3>3
    <3>5. y = calls'[k].args[j]
      BY <3>1, <3>2
    <3>6. QED
      BY <3>4, <3>5
  <2>3. \A k \in DOMAIN calls' : calls'[k].status = "running" =>
            DOMAIN calls'[k].asked = DOMAIN calls'[k].args
    BY <1>1 DEF ToldInv, Fresh
  <2>4. QED
    BY <2>2, <2>3 DEF Fresh
<1>5. ToldAsAsked'
  BY <1>1, <1>2, <1>3 DEF ToldInv, ToldAsAsked
<1>6. ToldOnceIfReturned'
  <2>1. \A m : Times(m)' = Times(m)
    BY <1>2 DEF Times
  <2>2. QED
    BY <1>1, <1>2, <2>1 DEF ToldInv, ToldOnceIfReturned
<1>7. QED
  BY <1>4, <1>5, <1>6 DEF ToldInv

LEMMA ToldSame ==
    ASSUME ToldInv, UNCHANGED <<calls, told, text>>
    PROVE  ToldInv'
  BY DEF ToldInv, Fresh, ToldAsAsked, ToldOnceIfReturned, Times, Value

LEMMA ToldStep == TypeOK /\ ToldInv /\ [Next]_vars => ToldInv'
<1> SUFFICES ASSUME TypeOK, ToldInv, [Next]_vars PROVE ToldInv'
  OBVIOUS
<1>1. CASE UNCHANGED vars
  BY <1>1, ToldSame DEF vars
<1>2. ASSUME NEW c \in Callers, NEW op \in Ops, NEW args \in Arguments(op),
             CallRefused(c, op, args) \/ Call(c, op, args)
      PROVE  ToldInv'
  BY <1>2, ArgsType, ToldBegin DEF CallRefused, Call
<1>3. ASSUME NEW c \in Callers, NextHeader(c)
      PROVE  ToldInv'
  <2> DEFINE args == HeaderArgs(loop[c].hash[loop[c].at + 1])
  <2>1. args \in Seq(Strings \cup Texts)
    BY <1>3, HeaderArgsType DEF NextHeader, InLoop
  <2>2. PICK st \in {"running", "raised"} :
            calls' = Append(calls, NewCall("set_header", args, st))
    BY <1>3 DEF NextHeader
  <2>3. UNCHANGED <<told, text>>
    BY <1>3 DEF NextHeader
  <2> HIDE DEF args
  <2>4. QED
    BY <2>1, <2>2, <2>3, ToldBegin
<1>4. ASSUME NEW c \in Callers,
             EndHeaders(c) \/ \E hash \in Hashes : BeginHeaders(c, hash)
      PROVE  ToldInv'
  BY <1>4, ToldSame DEF EndHeaders, BeginHeaders
<1>5. QED
  BY <1>1, <1>2, <1>3, <1>4, ToldAtOnce, ToldTell, ToldRaise, ToldChange DEF Next

LEMMA ToldInit == Init => ToldInv
  BY DEF Init, ToldInv, Fresh, ToldAsAsked, ToldOnceIfReturned, Times

\* The pointers that a method takes before it runs Ruby code are right when libzyre
\* gets them, unless the program changed the Strings (node.c:366-370, 480-484,
\* 545-548).
THEOREM PointersHold == Spec => []ToldAsAsked
<1>1. Init => TypeOK /\ Distinct /\ ToldInv
  BY TypeInit, ToldInit DEF Init, Distinct
<1>2. TypeOK /\ Distinct /\ ToldInv /\ [Next]_vars => (TypeOK /\ Distinct /\ ToldInv)'
  BY TypeStep, DistinctStep, ToldStep
<1>3. ToldInv => ToldAsAsked
  BY DEF ToldInv
<1>4. QED
  BY <1>1, <1>2, <1>3, PTL DEF Spec

\* A method that raises has told libzyre nothing, one that returns has told it once.
THEOREM RaisedIsUntold == Spec => []ToldOnceIfReturned
<1>1. Init => TypeOK /\ Distinct /\ ToldInv
  BY TypeInit, ToldInit DEF Init, Distinct
<1>2. TypeOK /\ Distinct /\ ToldInv /\ [Next]_vars => (TypeOK /\ Distinct /\ ToldInv)'
  BY TypeStep, DistinctStep, ToldStep
<1>3. ToldInv => ToldOnceIfReturned
  BY DEF ToldInv
<1>4. QED
  BY <1>1, <1>2, <1>3, PTL DEF Spec

(***************************************************************************)
(* headers=                                                                *)
(***************************************************************************)

\* The call of a thread in headers= sets the header it has come to.
LoopCall ==
    \A c \in Callers : loop[c] # None /\ running[c] # 0 =>
        /\ loop[c].at \in DOMAIN loop[c].hash
        /\ calls[running[c]].op = "set_header"
        /\ calls[running[c]].args = HeaderArgs(loop[c].hash[loop[c].at])
        /\ \/ loop[c].hash[loop[c].at].value \notin calls[running[c]].changed
           \/ NameOf[loop[c].hash[loop[c].at].key] \in loop[c].mixed

MergedInv == LoopCall /\ HeadersMerged

LEMMA ReachedIs ==
    ASSUME NEW l \in Loops
    PROVE  /\ Reached(l, FALSE) = Reached(l, TRUE) \cup (DOMAIN l.hash \cap {l.at})
           /\ \A j \in Reached(l, TRUE) : j < l.at /\ j \in DOMAIN l.hash
<1>1. l.at \in Nat /\ DOMAIN l.hash = 1..Len(l.hash) /\ Len(l.hash) \in Nat
  BY LoopsType
<1>2. QED
  BY <1>1 DEF Reached

\* One more header is set, to the value of the pair or, where names mix, to another.
LEMMA MergedSet ==
    ASSUME NEW l \in Loops, l.at \in DOMAIN l.hash, Merged(l, TRUE),
           headers \in [Texts -> Texts \cup {None}], UNCHANGED text, NEW v,
           headers' = [headers EXCEPT ![NameOf[l.hash[l.at].key]] = v],
           NameOf[l.hash[l.at].key] \in l.mixed \/ v = Value(l.hash[l.at].value)
    PROVE  Merged(l, FALSE)'
<1> DEFINE given(n, busy) == {j \in Reached(l, busy) : NameOf[l.hash[j].key] = n}
<1>1. /\ l.at \in Nat /\ DOMAIN l.hash = 1..Len(l.hash) /\ Len(l.hash) \in Nat
      /\ \A j \in DOMAIN l.hash : l.hash[j].key \in Keys
  BY LoopsType
<1>2. PICK at, name : at = l.at /\ name = NameOf[l.hash[at].key]
  OBVIOUS
<1>3. name \in Texts /\ at \in Nat
  BY <1>1, <1>2, KeysAssumption
<1>4. \A y : Value(y)' = Value(y)
  BY DEF Value
<1>5. /\ Reached(l, FALSE) = Reached(l, TRUE) \cup {at}
      /\ \A j \in Reached(l, TRUE) : j <= at
  <2>1. at \in DOMAIN l.hash
    BY <1>2
  <2>2. DOMAIN l.hash \cap {l.at} = {at}
    BY <1>2, <2>1
  <2>3. Reached(l, FALSE) = Reached(l, TRUE) \cup {at}
    BY <2>2, ReachedIs
  <2>4. \A j \in Reached(l, TRUE) : j \in DOMAIN l.hash /\ j < at
    BY <1>2, ReachedIs
  <2>5. \A j \in DOMAIN l.hash : j < at => j <= at
    BY <1>1, <1>3
  <2>6. QED
    BY <2>3, <2>4, <2>5
<1>6. ASSUME NEW n \in Texts \ l.mixed
      PROVE  \/ given(n, FALSE) = {} /\ headers'[n] = l.before[n]
             \/ \E last \in given(n, FALSE) :
                    /\ \A j \in given(n, FALSE) : j <= last
                    /\ headers'[n] = Value(l.hash[last].value)
  <2>1. CASE n = name
    <3>1. at \in given(n, FALSE)
      BY <1>2, <1>5, <2>1
    <3>2. \A j \in given(n, FALSE) : j <= at
      <4>1. \A j \in given(n, FALSE) : j \in Reached(l, TRUE) \/ j = at
        BY <1>5
      <4> HIDE DEF given
      <4>2. at <= at
        BY <1>3
      <4>3. QED
        BY <1>5, <4>1, <4>2
    <3>3. headers'[n] = Value(l.hash[at].value)
      BY <1>2, <1>3, <2>1
    <3>4. QED
      BY <3>1, <3>2, <3>3
  <2>2. CASE n # name
    <3>1. given(n, FALSE) = given(n, TRUE)
      BY <1>2, <1>5, <2>2
    <3>2. headers'[n] = headers[n]
      BY <1>2, <2>2
    <3>3. \/ given(n, TRUE) = {} /\ headers[n] = l.before[n]
          \/ \E last \in given(n, TRUE) :
                 /\ \A j \in given(n, TRUE) : j <= last
                 /\ headers[n] = Value(l.hash[last].value)
      BY DEF Merged
    <3> HIDE DEF given
    <3>4. QED
      BY <3>1, <3>2, <3>3
  <2>3. QED
    BY <2>1, <2>2
<1>7. ASSUME NEW n \in Texts \ l.mixed
      PROVE  \/ given(n, FALSE) = {} /\ headers'[n] = l.before[n]
             \/ \E last \in given(n, FALSE) :
                    /\ \A j \in given(n, FALSE) : j <= last
                    /\ headers'[n] = Value(l.hash[last].value)'
  BY <1>4, <1>6
<1>8. QED
  BY <1>7 DEF Merged, Reached

\* Where more names mix, and no others are told or changed, the rest stays merged.
LEMMA MergedMore ==
    ASSUME NEW old, NEW l, NEW busy, Merged(old, busy),
           l.hash = old.hash, l.at = old.at, l.before = old.before,
           old.mixed \subseteq l.mixed,
           \A n \in Texts \ l.mixed : headers'[n] = headers[n],
           \A j \in DOMAIN l.hash : NameOf[l.hash[j].key] \notin l.mixed =>
               Value(l.hash[j].value)' = Value(l.hash[j].value)
    PROVE  Merged(l, busy)'
<1>1. ASSUME NEW n \in Texts \ l.mixed
      PROVE  LET given == {j \in Reached(l, busy) : NameOf[l.hash[j].key] = n}
             IN  \/ given = {} /\ headers'[n] = l.before[n]
                 \/ \E last \in given :
                        /\ \A j \in given : j <= last
                        /\ headers'[n] = Value(l.hash[last].value)'
  <2> DEFINE given == {j \in Reached(l, busy) : NameOf[l.hash[j].key] = n}
  <2>1. Reached(l, busy) = Reached(old, busy) /\ n \in Texts \ old.mixed
    BY DEF Reached
  <2>2. \/ given = {} /\ headers[n] = l.before[n]
        \/ \E last \in given :
               /\ \A j \in given : j <= last
               /\ headers[n] = Value(l.hash[last].value)
    BY <2>1 DEF Merged
  <2>3. \A j \in given : Value(l.hash[j].value)' = Value(l.hash[j].value)
    BY DEF Reached
  <2> HIDE DEF given
  <2>4. QED
    BY <2>2, <2>3 DEF given
<1>2. QED
  BY <1>1 DEF Merged, Reached

\* A thread whose loop, call and headers stay keeps what it merged.
LEMMA MergedSame ==
    ASSUME NEW d \in Callers, UNCHANGED <<loop[d], running[d], headers, text>>,
           loop[d] # None => Merged(loop[d], running[d] # 0)
    PROVE  (loop[d] # None => Merged(loop[d], running[d] # 0))'
  BY DEF Merged, Reached, Value

\* The program calls a method.
LEMMA MergedCalls ==
    ASSUME TypeOK, MergedInv, NEW c \in Callers, NEW op \in Ops, NEW args \in Arguments(op),
           CallAtOnce(c, op, args) \/ CallRefused(c, op, args) \/ Call(c, op, args)
    PROVE  MergedInv'
<1>1. PICK st \in {"running", "returned", "raised"} :
          calls' = Append(calls, NewCall(op, args, st))
  BY DEF CallAtOnce, CallRefused, Call
<1>2. \A k \in DOMAIN calls : calls'[k] = calls[k]
  BY <1>1, ArgsType, NewCallType, AddCall
<1>3. UNCHANGED <<loop, headers, text>> /\ loop[c] = None
  BY DEF CallAtOnce, CallRefused, Call, Free
<1>4. \A d \in Callers : d # c => UNCHANGED running[d]
  BY DEF CallAtOnce, CallRefused, Call, TypeOK, RunningType
<1>5. \A d \in Callers : running[d] # 0 => calls'[running[d]] = calls[running[d]]
  BY <1>2 DEF TypeOK, RunningType
<1>6. LoopCall'
  BY <1>3, <1>4, <1>5 DEF MergedInv, LoopCall
<1>7. HeadersMerged'
  <2>1. ASSUME NEW d \in Callers, loop'[d] # None
        PROVE  Merged(loop[d], running[d] # 0)'
    <3>1. d # c /\ loop[d] # None
      BY <1>3, <2>1
    <3>2. QED
      BY <1>3, <1>4, <2>1, <3>1, MergedSame DEF MergedInv, HeadersMerged
  <2>2. QED
    BY <2>1 DEF HeadersMerged
<1>8. QED
  BY <1>6, <1>7 DEF MergedInv

LEMMA MergedTell ==
    ASSUME TypeOK, Distinct, ToldInv, MergedInv, NEW c \in Callers, Tell(c)
    PROVE  MergedInv'
<1>1. PICK k : k = running[c]
  OBVIOUS
<1>2. /\ running \in [Callers -> Nat] /\ k \in DOMAIN calls /\ k # 0
      /\ calls[k].status = "running" /\ calls[k] \in CallRecords
  BY <1>1, CallType DEF TypeOK, RunningType, Tell
<1>3. PICK texts \in Pointed(calls[k]) :
          /\ Effect(calls[k].op, texts)
          /\ loop' = IF calls[k].op = "set_header" THEN Mix(c, texts[1]) ELSE loop
  BY <1>1 DEF Tell
<1>4. running'[c] = 0 /\ \A d \in Callers : d # c => running'[d] = running[d]
  BY <1>2 DEF Tell
<1>5. \A m \in DOMAIN calls : m # k => calls'[m] = calls[m]
  BY <1>1, <1>2, EndCall DEF Tell
<1>6. ASSUME NEW d \in Callers, d # c, running[d] # 0
      PROVE  calls'[running[d]] = calls[running[d]]
  BY <1>1, <1>5, <1>6 DEF Distinct, TypeOK, RunningType
<1>7. UNCHANGED text
  BY DEF Tell
<1>8. CASE calls[k].op # "set_header"
  <2>1. UNCHANGED <<loop, headers>> /\ loop[c] = None
    BY <1>1, <1>2, <1>3, <1>8 DEF Effect, MergedInv, LoopCall
  <2>2. LoopCall'
    BY <1>4, <1>6, <2>1 DEF MergedInv, LoopCall
  <2>3. HeadersMerged'
    <3>1. ASSUME NEW d \in Callers, loop'[d] # None
          PROVE  Merged(loop[d], running[d] # 0)'
      BY <1>4, <1>7, <2>1, <3>1, MergedSame DEF MergedInv, HeadersMerged
    <3>2. QED
      BY <3>1 DEF HeadersMerged
  <2>4. QED
    BY <2>2, <2>3 DEF MergedInv
<1>9. CASE calls[k].op = "set_header"
  <2>1. loop' = Mix(c, texts[1])
    BY <1>3, <1>9
  <2>2. ASSUME NEW d \in Callers, d # c, loop[d] # None
        PROVE  /\ loop'[d].hash = loop[d].hash /\ loop'[d].at = loop[d].at
               /\ loop'[d].before = loop[d].before
               /\ loop'[d].mixed = loop[d].mixed \cup {texts[1]}
    <3>1. loop[d] \in Loops
      BY <2>2 DEF TypeOK, LoopType
    <3>2. loop'[d] = [loop[d] EXCEPT !.mixed = @ \cup {texts[1]}]
      BY <2>1, <2>2 DEF Mix
    <3>3. QED
      BY <3>1, <3>2 DEF Loops
  <2>0. texts[1] \in Texts
    <3>1. Len(calls[k].args) = 2
      BY <1>2, <1>9 DEF TypeOK, CallsType, Count
    <3>2. DOMAIN calls[k].args = 1..2
      BY <1>2, <3>1, LenProperties DEF CallRecords
    <3>3. QED
      BY <1>3, <3>2 DEF Pointed
  <2>3. /\ loop'[c] = loop[c]
        /\ \A d \in Callers : loop'[d] # None => loop[d] # None
    BY <2>0, <2>1, MixType
  <2>4. LoopCall'
    <3>1. ASSUME NEW d \in Callers, loop'[d] # None, running'[d] # 0
          PROVE  /\ d # c /\ loop[d] # None /\ running[d] # 0 /\ running'[d] = running[d]
                 /\ loop'[d].hash = loop[d].hash /\ loop'[d].at = loop[d].at
                 /\ loop[d].mixed \subseteq loop'[d].mixed
                 /\ calls'[running[d]] = calls[running[d]]
      BY <1>4, <1>6, <2>2, <2>3, <3>1
    <3>2. ASSUME NEW d \in Callers, loop'[d] # None, running'[d] # 0
          PROVE  /\ loop'[d].at \in DOMAIN loop'[d].hash
                 /\ calls'[running'[d]].op = "set_header"
                 /\ calls'[running'[d]].args = HeaderArgs(loop'[d].hash[loop'[d].at])
                 /\ \/ loop'[d].hash[loop'[d].at].value \notin calls'[running'[d]].changed
                    \/ NameOf[loop'[d].hash[loop'[d].at].key] \in loop'[d].mixed
      <4>1. /\ loop[d].at \in DOMAIN loop[d].hash
            /\ calls[running[d]].op = "set_header"
            /\ calls[running[d]].args = HeaderArgs(loop[d].hash[loop[d].at])
            /\ \/ loop[d].hash[loop[d].at].value \notin calls[running[d]].changed
               \/ NameOf[loop[d].hash[loop[d].at].key] \in loop[d].mixed
        BY <3>1, <3>2 DEF MergedInv, LoopCall
      <4>2. QED
        BY <3>1, <3>2, <4>1
    <3>3. QED
      BY <3>2 DEF LoopCall
  <2>5. ASSUME loop[c] # None
        PROVE  Merged(loop[c], FALSE)'
    <3>1. PICK l : l = loop[c]
      OBVIOUS
    <3>2. /\ l \in Loops /\ l.at \in DOMAIN l.hash
          /\ calls[k].args = HeaderArgs(l.hash[l.at])
          /\ \/ l.hash[l.at].value \notin calls[k].changed
             \/ NameOf[l.hash[l.at].key] \in l.mixed
          /\ Merged(l, TRUE)
      BY <1>1, <1>2, <2>5, <3>1 DEF TypeOK, LoopType, MergedInv, LoopCall, HeadersMerged
    <3>3. PICK name, value : name = NameOf[l.hash[l.at].key] /\ value = l.hash[l.at].value
      OBVIOUS
    <3>4. l.hash[l.at].key \in Keys
      BY <3>2, LoopsType
    <3>5. name \in Texts /\ name \notin Strings
      BY <3>3, <3>4, KeysAssumption, TextsAssumption
    <3>6. calls[k].args = <<name, value>>
      BY <3>2, <3>3 DEF HeaderArgs
    <3>7. name \notin calls[k].changed
      BY <1>2, <3>5 DEF CallRecords
    <3>8. texts[1] = name /\ (name \in l.mixed \/ texts[2] = Value(value))
      <4>1. DOMAIN calls[k].args = {1, 2} /\ calls[k].args[1] = name /\ calls[k].args[2] = value
        BY <3>6
      <4>2. DOMAIN texts = {1, 2}
        BY <1>3, <4>1 DEF Pointed
      <4>3. texts[1] = Value(name) /\ (name \in l.mixed \/ texts[2] = Value(value))
        BY <1>3, <3>2, <3>3, <3>7, <4>1, <4>2 DEF Pointed
      <4>4. QED
        BY <3>5, <4>3 DEF Value
    <3>9. headers' = [headers EXCEPT ![name] = texts[2]]
      BY <1>3, <1>9, <3>8 DEF Effect
    <3>10. headers \in [Texts -> Texts \cup {None}]
      BY DEF TypeOK, TextType
    <3>11. Merged(l, FALSE)'
      BY <1>7, <3>2, <3>3, <3>8, <3>9, <3>10, MergedSet
    <3>12. loop'[c] = l
      BY <2>3, <3>1
    <3>13. QED
      BY <3>11, <3>12 DEF Merged, Reached
  <2>6. ASSUME NEW d \in Callers, d # c, loop'[d] # None
        PROVE  Merged(loop[d], running[d] # 0)'
    <3>1. PICK l, old, busy : l = loop'[d] /\ old = loop[d] /\ busy = (running[d] # 0)
      OBVIOUS
    <3>2. Merged(old, busy)
      BY <2>3, <2>6, <3>1 DEF MergedInv, HeadersMerged
    <3>3. /\ l.hash = old.hash /\ l.at = old.at /\ l.before = old.before
          /\ l.mixed = old.mixed \cup {texts[1]}
      BY <2>2, <2>3, <2>6, <3>1
    <3>4. headers' = [headers EXCEPT ![texts[1]] = texts[2]]
      BY <1>3, <1>9 DEF Effect
    <3>5. \A n \in Texts \ l.mixed : headers'[n] = headers[n]
      BY <3>3, <3>4 DEF TypeOK, TextType
    <3>6. \A y : Value(y)' = Value(y)
      BY <1>7 DEF Value
    <3>7. Merged(l, busy)'
      BY <3>2, <3>3, <3>5, <3>6, MergedMore
    <3>8. busy = (running'[d] # 0)
      BY <1>4, <2>6, <3>1
    <3>9. Merged(loop[d], busy)'
      BY <3>1, <3>7 DEF Merged, Reached
    <3>10. QED
      BY <3>8, <3>9 DEF Merged, Reached
  <2>7. HeadersMerged'
    <3>1. ASSUME loop'[c] # None PROVE Merged(loop[c], running[c] # 0)'
      BY <1>4, <2>3, <2>5, <3>1 DEF Merged, Reached
    <3>2. QED
      BY <2>6, <3>1 DEF HeadersMerged
  <2>8. QED
    BY <2>4, <2>7 DEF MergedInv
<1>10. QED
  BY <1>8, <1>9

LEMMA MergedRaise ==
    ASSUME TypeOK, Distinct, MergedInv, NEW c \in Callers, Raise(c)
    PROVE  MergedInv'
<1>1. PICK k : k = running[c]
  OBVIOUS
<1>2. /\ running \in [Callers -> Nat] /\ k \in DOMAIN calls /\ k # 0
  BY <1>1 DEF TypeOK, RunningType, Raise
<1>3. running'[c] = 0 /\ \A d \in Callers : d # c => running'[d] = running[d]
  BY <1>2 DEF Raise
<1>4. \A m \in DOMAIN calls : m # k => calls'[m] = calls[m]
  BY <1>1, <1>2, EndCall DEF Raise
<1>5. ASSUME NEW d \in Callers, d # c, running[d] # 0
      PROVE  calls'[running[d]] = calls[running[d]]
  BY <1>1, <1>4, <1>5 DEF Distinct, TypeOK, RunningType
<1>6. UNCHANGED <<text, headers>>
  BY DEF Raise
<1>7. loop'[c] = None /\ \A d \in Callers : d # c => loop'[d] = loop[d]
  BY DEF Raise, TypeOK, LoopType
<1>8. LoopCall'
  BY <1>3, <1>5, <1>7 DEF MergedInv, LoopCall
<1>9. HeadersMerged'
  <2>1. ASSUME NEW d \in Callers, loop'[d] # None
        PROVE  Merged(loop[d], running[d] # 0)'
    <3>1. d # c
      BY <1>7, <2>1
    <3>2. QED
      BY <1>3, <1>6, <1>7, <2>1, <3>1, MergedSame DEF MergedInv, HeadersMerged
  <2>2. QED
    BY <2>1 DEF HeadersMerged
<1>10. QED
  BY <1>8, <1>9 DEF MergedInv

LEMMA MergedBegin ==
    ASSUME TypeOK, MergedInv, NEW c \in Callers, NEW hash \in Hashes, BeginHeaders(c, hash)
    PROVE  MergedInv'
<1> DEFINE x == [hash |-> hash, at |-> 0, before |-> headers, mixed |-> {}]
<1>1. PICK l : l = x
  OBVIOUS
<1>2. /\ l.hash = hash /\ l.at = 0 /\ l.before = headers
  BY <1>1
<1>3. loop' = [loop EXCEPT ![c] = l] /\ loop \in [Callers -> Loops \cup {None}]
  BY <1>1 DEF BeginHeaders, TypeOK, LoopType
<1>4. UNCHANGED <<text, calls, running, told, headers>> /\ running[c] = 0
  BY DEF BeginHeaders, Free
<1> HIDE DEF x
<1>5. loop'[c] = l /\ \A d \in Callers : d # c => loop'[d] = loop[d]
  BY <1>3
<1>6. LoopCall'
  BY <1>4, <1>5 DEF MergedInv, LoopCall
<1>7. Merged(l, FALSE)'
  <2>1. DOMAIN hash = 1..Len(hash) /\ Len(hash) \in Nat
    BY HashesAssumption, LenProperties
  <2>2. Reached(l, FALSE) = {}
    BY <1>2, <2>1 DEF Reached
  <2>3. headers' = l.before
    BY <1>2, <1>4
  <2>4. QED
    BY <2>2, <2>3 DEF Merged, Reached
<1>8. HeadersMerged'
  <2>1. ASSUME NEW d \in Callers, loop'[d] # None
        PROVE  Merged(loop[d], running[d] # 0)'
    <3>1. CASE d = c
      BY <1>4, <1>5, <1>7, <3>1 DEF Merged, Reached
    <3>2. CASE d # c
      BY <1>4, <1>5, <2>1, <3>2, MergedSame DEF MergedInv, HeadersMerged
    <3>3. QED
      BY <3>1, <3>2
  <2>2. QED
    BY <2>1 DEF HeadersMerged
<1>9. QED
  BY <1>6, <1>8 DEF MergedInv

\* The Hash goes one pair on, and the call of that pair runs.
LEMMA MergedNext ==
    ASSUME TypeOK, Distinct, MergedInv, NEW c \in Callers, NextHeader(c)
    PROVE  MergedInv'
<1>1. PICK old, at : old = loop[c] /\ at = loop[c].at + 1
  OBVIOUS
<1>2. PICK args : args = HeaderArgs(old.hash[at])
  OBVIOUS
<1>3. old # None /\ running[c] = 0 /\ loop[c].at < Len(loop[c].hash) /\ old \in Loops
  BY <1>1 DEF NextHeader, InLoop, TypeOK, LoopType
<1>4. at \in DOMAIN old.hash /\ args \in Seq(Strings \cup Texts)
  BY <1>1, <1>2, <1>3, HeaderArgsType
<1>5. PICK st \in {"running", "raised"} :
          calls' = Append(calls, NewCall("set_header", args, st))
  BY <1>1, <1>2 DEF NextHeader
<1>6. PICK new : new = Len(calls) + 1
  OBVIOUS
<1>7. /\ calls'[new] = NewCall("set_header", args, st) /\ new # 0 /\ new \notin DOMAIN calls
      /\ \A k \in DOMAIN calls : calls'[k] = calls[k]
  BY <1>4, <1>5, <1>6, NewCallType, AddCall
<1>8. UNCHANGED <<text, headers>>
  BY DEF NextHeader
<1>9. ASSUME NEW d \in Callers, d # c
      PROVE  /\ UNCHANGED <<loop[d], running[d]>>
             /\ running[d] # 0 => calls'[running[d]] = calls[running[d]]
  BY <1>7, <1>9 DEF NextHeader, TypeOK, LoopType, RunningType
<1>10. \/ loop'[c] = None
       \/ running'[c] = new /\ loop'[c] = [old EXCEPT !.at = @ + 1]
  BY <1>1, <1>6 DEF NextHeader, TypeOK, LoopType, RunningType
<1>11. ASSUME loop'[c] # None
       PROVE  /\ running'[c] = new /\ loop'[c].at = at /\ loop'[c].hash = old.hash
              /\ loop'[c].before = old.before /\ loop'[c].mixed = old.mixed
              /\ loop'[c] \in Loops
  <2>1. running'[c] = new /\ loop'[c] = [old EXCEPT !.at = @ + 1]
    BY <1>10, <1>11
  <2>2. old.at \in Nat /\ at = old.at + 1
    BY <1>1, <1>3, LoopsType
  <2>3. QED
    BY <1>3, <2>1, <2>2 DEF Loops
<1>12. LoopCall'
  <2>1. /\ calls'[new].op = "set_header" /\ calls'[new].args = args
        /\ calls'[new].changed = {}
    BY <1>7, NewCallIs
  <2>2. ASSUME NEW d \in Callers, loop'[d] # None, running'[d] # 0
        PROVE  /\ loop'[d].at \in DOMAIN loop'[d].hash
               /\ calls'[running'[d]].op = "set_header"
               /\ calls'[running'[d]].args = HeaderArgs(loop'[d].hash[loop'[d].at])
               /\ \/ loop'[d].hash[loop'[d].at].value \notin calls'[running'[d]].changed
                  \/ NameOf[loop'[d].hash[loop'[d].at].key] \in loop'[d].mixed
    <3>1. CASE d = c
      BY <1>2, <1>4, <1>11, <2>1, <2>2, <3>1
    <3>2. CASE d # c
      BY <1>9, <2>2, <3>2 DEF MergedInv, LoopCall
    <3>3. QED
      BY <3>1, <3>2
  <2>3. QED
    BY <2>2 DEF LoopCall
<1>13. ASSUME NEW l, l = loop'[c], l # None
       PROVE  Merged(l, TRUE)'
  <2>1. /\ l.at = at /\ l.hash = old.hash /\ l.before = old.before
        /\ l.mixed = old.mixed /\ l \in Loops
    BY <1>11, <1>13
  <2>2. Merged(old, FALSE)
    BY <1>1, <1>3, <2>1 DEF MergedInv, HeadersMerged
  <2>3. Reached(l, TRUE) = Reached(old, FALSE)
    <3>1. old.at \in Nat /\ at = old.at + 1
      BY <1>1, <1>3, LoopsType
    <3>2. DOMAIN old.hash = 1..Len(old.hash) /\ Len(old.hash) \in Nat
      BY <1>3, LoopsType
    <3>3. \A j \in DOMAIN old.hash : j < at <=> j < old.at \/ j = old.at
      BY <3>1, <3>2
    <3>4. \A j \in DOMAIN old.hash : j \in Reached(l, TRUE) <=> j \in Reached(old, FALSE)
      BY <2>1, <3>3 DEF Reached
    <3>5. Reached(l, TRUE) \subseteq DOMAIN old.hash
          /\ Reached(old, FALSE) \subseteq DOMAIN old.hash
      BY <2>1 DEF Reached
    <3>6. QED
      BY <3>4, <3>5
  <2>4. Merged(l, TRUE)
    <3> SUFFICES ASSUME NEW n \in Texts \ l.mixed
                 PROVE  LET given == {j \in Reached(l, TRUE) : NameOf[l.hash[j].key] = n}
                        IN  \/ given = {} /\ headers[n] = l.before[n]
                            \/ \E last \in given :
                                   /\ \A j \in given : j <= last
                                   /\ headers[n] = Value(l.hash[last].value)
      BY DEF Merged
    <3> DEFINE given == {j \in Reached(old, FALSE) : NameOf[old.hash[j].key] = n}
    <3>1. \/ given = {} /\ headers[n] = old.before[n]
          \/ \E last \in given :
                 /\ \A j \in given : j <= last
                 /\ headers[n] = Value(old.hash[last].value)
      BY <2>1, <2>2 DEF Merged
    <3>2. {j \in Reached(l, TRUE) : NameOf[l.hash[j].key] = n} = given
      BY <2>1, <2>3
    <3> HIDE DEF given
    <3>3. QED
      BY <2>1, <3>1, <3>2
  <2>5. \A y : Value(y)' = Value(y)
    BY <1>8 DEF Value
  <2>6. QED
    BY <1>8, <2>4 DEF Merged, Reached, Value
<1>14. HeadersMerged'
  <2>1. ASSUME NEW d \in Callers, loop'[d] # None
        PROVE  Merged(loop[d], running[d] # 0)'
    <3>1. CASE d = c
      <4>1. PICK l : l = loop'[c]
        OBVIOUS
      <4>2. running'[c] = new /\ Merged(l, TRUE)'
        BY <1>11, <1>13, <2>1, <3>1, <4>1
      <4>3. QED
        BY <1>7, <3>1, <4>1, <4>2 DEF Merged, Reached
    <3>2. CASE d # c
      BY <1>8, <1>9, <2>1, <3>2, MergedSame DEF MergedInv, HeadersMerged
    <3>3. QED
      BY <3>1, <3>2
  <2>2. QED
    BY <2>1 DEF HeadersMerged
<1>15. QED
  BY <1>12, <1>14 DEF MergedInv

LEMMA MergedEnd ==
    ASSUME TypeOK, MergedInv, NEW c \in Callers, EndHeaders(c)
    PROVE  MergedInv'
<1>1. loop'[c] = None /\ \A d \in Callers : d # c => UNCHANGED loop[d]
  BY DEF EndHeaders, TypeOK, LoopType
<1>2. UNCHANGED <<text, calls, running, headers>>
  BY DEF EndHeaders
<1>3. LoopCall'
  BY <1>1, <1>2 DEF MergedInv, LoopCall
<1>4. HeadersMerged'
  <2>1. ASSUME NEW d \in Callers, loop'[d] # None
        PROVE  Merged(loop[d], running[d] # 0)'
    <3>1. d # c /\ UNCHANGED loop[d]
      BY <1>1, <2>1
    <3>2. loop[d] # None => Merged(loop[d], running[d] # 0)
      BY DEF MergedInv, HeadersMerged
    <3>3. UNCHANGED <<loop[d], running[d], headers, text>>
      BY <1>2, <3>1
    <3>4. QED
      BY <2>1, <3>2, <3>3, MergedSame
  <2>2. QED
    BY <2>1 DEF HeadersMerged
<1>5. QED
  BY <1>3, <1>4 DEF MergedInv

LEMMA MergedChange ==
    ASSUME TypeOK, MergedInv, NEW s \in Strings, NEW x \in Texts, Change(s, x)
    PROVE  MergedInv'
<1>1. /\ \A k \in DOMAIN calls :
            /\ calls'[k].args = calls[k].args /\ calls'[k].op = calls[k].op
            /\ calls'[k].changed = IF calls[k].status = "running"
                                   THEN calls[k].changed \cup {s} ELSE calls[k].changed
  BY ChangeCalls
<1>2. /\ text' = [text EXCEPT ![s] = x] /\ text \in [Strings -> Texts]
      /\ UNCHANGED <<running, headers>>
  BY DEF Change, TypeOK, TextType
<1>3. \A y : y # s => Value(y)' = Value(y)
  BY <1>2 DEF Value
<1>4. ASSUME NEW d \in Callers, loop'[d] # None
      PROVE  /\ loop[d] # None /\ loop[d] \in Loops /\ loop'[d] \in Loops
             /\ loop'[d].hash = loop[d].hash /\ loop'[d].at = loop[d].at
             /\ loop'[d].before = loop[d].before
             /\ loop'[d].mixed = loop[d].mixed \cup NamesOf(loop[d].hash, s)
  BY <1>4, ChangeLoops DEF TypeOK, LoopType
<1>5. LoopCall'
  <2>1. ASSUME NEW d \in Callers, loop'[d] # None, running'[d] # 0
        PROVE  /\ loop'[d].at \in DOMAIN loop'[d].hash
               /\ calls'[running'[d]].op = "set_header"
               /\ calls'[running'[d]].args = HeaderArgs(loop'[d].hash[loop'[d].at])
               /\ \/ loop'[d].hash[loop'[d].at].value \notin calls'[running'[d]].changed
                  \/ NameOf[loop'[d].hash[loop'[d].at].key] \in loop'[d].mixed
    <3>1. PICK k : k = running[d]
      OBVIOUS
    <3>2. k \in DOMAIN calls /\ running'[d] = k /\ loop[d] # None
      BY <1>2, <1>4, <2>1, <3>1 DEF TypeOK, RunningType
    <3>3. /\ loop[d].at \in DOMAIN loop[d].hash
          /\ calls[k].op = "set_header"
          /\ calls[k].args = HeaderArgs(loop[d].hash[loop[d].at])
          /\ \/ loop[d].hash[loop[d].at].value \notin calls[k].changed
             \/ NameOf[loop[d].hash[loop[d].at].key] \in loop[d].mixed
      BY <1>2, <2>1, <3>1, <3>2 DEF MergedInv, LoopCall
    <3>4. \/ loop'[d].hash[loop'[d].at].value \notin calls'[k].changed
          \/ NameOf[loop'[d].hash[loop'[d].at].key] \in loop'[d].mixed
      <4>1. PICK at, hash : at = loop[d].at /\ hash = loop[d].hash
        OBVIOUS
      <4>2. /\ loop'[d].at = at /\ loop'[d].hash = hash /\ at \in DOMAIN hash
            /\ loop'[d].mixed = loop[d].mixed \cup NamesOf(hash, s)
            /\ hash[at].value \notin calls[k].changed \/ NameOf[hash[at].key] \in loop[d].mixed
        BY <1>4, <2>1, <3>3, <4>1
      <4>3. CASE hash[at].value = s
        BY <4>2, <4>3 DEF NamesOf
      <4>4. CASE hash[at].value # s
        BY <1>1, <3>2, <4>2, <4>4
      <4>5. QED
        BY <4>3, <4>4
    <3>5. QED
      BY <1>1, <1>4, <2>1, <3>2, <3>3, <3>4
  <2>2. QED
    BY <2>1 DEF LoopCall
<1>6. ASSUME NEW d \in Callers, NEW l, NEW old, l = loop'[d], old = loop[d], l # None
      PROVE  Merged(l, running[d] # 0)'
  <2>1. /\ old # None /\ l.at = old.at /\ l.hash = old.hash /\ l.before = old.before
        /\ l.mixed = old.mixed \cup NamesOf(old.hash, s)
    BY <1>4, <1>6
  <2>2. PICK busy : busy = (running[d] # 0)
    OBVIOUS
  <2>3. Merged(old, busy)
    BY <1>6, <2>1, <2>2 DEF MergedInv, HeadersMerged
  <2>4. ASSUME NEW j \in DOMAIN l.hash, NameOf[l.hash[j].key] \notin l.mixed
        PROVE  Value(l.hash[j].value)' = Value(l.hash[j].value)
    <3>1. l.hash[j].value # s
      BY <2>1, <2>4 DEF NamesOf
    <3>2. QED
      BY <1>3, <3>1
  <2>5. headers' = headers
    BY <1>2
  <2>6. Merged(l, busy)'
    BY <2>1, <2>3, <2>4, <2>5, MergedMore
  <2>7. busy = (running'[d] # 0)
    BY <1>2, <2>2
  <2>8. QED
    BY <2>6, <2>7 DEF Merged, Reached
<1>7. HeadersMerged'
  <2>1. ASSUME NEW d \in Callers, loop'[d] # None
        PROVE  Merged(loop[d], running[d] # 0)'
    <3>1. PICK l, old : l = loop'[d] /\ old = loop[d]
      OBVIOUS
    <3>2. Merged(l, running[d] # 0)'
      BY <1>6, <2>1, <3>1
    <3>3. QED
      BY <3>1, <3>2 DEF Merged, Reached
  <2>2. QED
    BY <2>1 DEF HeadersMerged
<1>8. QED
  BY <1>5, <1>7 DEF MergedInv

LEMMA MergedUnchanged ==
    ASSUME MergedInv, UNCHANGED <<loop, running, calls, headers, text>>
    PROVE  MergedInv'
<1>1. LoopCall'
  BY DEF MergedInv, LoopCall
<1>2. HeadersMerged'
  BY DEF MergedInv, HeadersMerged, Merged, Reached, Value
<1>3. QED
  BY <1>1, <1>2 DEF MergedInv

LEMMA MergedStep == TypeOK /\ Distinct /\ ToldInv /\ MergedInv /\ [Next]_vars => MergedInv'
<1> SUFFICES ASSUME TypeOK, Distinct, ToldInv, MergedInv, [Next]_vars PROVE MergedInv'
  OBVIOUS
<1>1. CASE UNCHANGED vars
  BY <1>1, MergedUnchanged DEF vars
<1>2. CASE Next
  BY <1>2, MergedCalls, MergedTell, MergedRaise, MergedBegin, MergedNext, MergedEnd,
     MergedChange DEF Next
<1>3. QED
  BY <1>1, <1>2

\* headers= merges its Hash into the headers of the node, also when it is ended half
\* way, unless another thread comes between (node.rb:58-63).
THEOREM HeadersAreMerged == Spec => []HeadersMerged
<1>1. Init => TypeOK /\ Distinct /\ ToldInv /\ MergedInv
  BY TypeInit, ToldInit DEF Init, Distinct, MergedInv, LoopCall, HeadersMerged
<1>2. TypeOK /\ Distinct /\ ToldInv /\ MergedInv /\ [Next]_vars
        => (TypeOK /\ Distinct /\ ToldInv /\ MergedInv)'
  BY TypeStep, DistinctStep, ToldStep, MergedStep
<1>3. MergedInv => HeadersMerged
  BY DEF MergedInv
<1>4. QED
  BY <1>1, <1>2, <1>3, PTL DEF Spec

=============================================================================
