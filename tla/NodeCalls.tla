------------------------------ MODULE NodeCalls ------------------------------
(***************************************************************************)
(* The methods of a Zyre::Node that tell libzyre something: the setters,   *)
(* set_header and headers=, the gossip methods, start, stop, join, leave,  *)
(* whisper and shout.  Each takes C pointers to its String arguments.      *)
(* Most then run Ruby code, the logger or the to_str of message parts,     *)
(* before they hand the pointers to libzyre: in that time other threads    *)
(* change strings and call methods of the same node, and an exception can  *)
(* end the call.                                                           *)
(*                                                                         *)
(* The arguments themselves lie on the interpreter's stack, so none is     *)
(* collected during its call.                                              *)
(***************************************************************************)
EXTENDS Integers, Sequences

CONSTANTS
    Callers,    \* the threads that call methods of the node
    Strings,    \* Strings that the program can change
    Texts,      \* what a String can hold
    Unfit,      \* the texts that are no C string, for a NUL byte in them
    Keys,       \* the keys of Hashes of headers: Symbols and Strings
    NameOf,     \* the header name that a key becomes
    Hashes,     \* the arguments of headers=, as pairs in their order
    None,       \* no value, no call
    Ops,        \* the methods the program calls
    ArgLists,   \* the arguments it gives to them
    MaxCalls,   \* bound: calls of methods
    MaxChanges  \* bound: changes of Strings

\* These go to libzyre at once, ...
AtOnce == {"name=", "port=", "evasive_timeout=", "silent_timeout=", "expired_timeout=",
           "interval=", "interface=", "endpoint=", "verbose!"}
\* ... these log first, ...
Logging == {"set_header", "gossip_bind", "gossip_connect", "start", "stop", "join",
            "leave"}
\* ... and these convert the parts of a message first.
Sending == {"whisper", "shout"}

ASSUME CallersAssumption == None \notin Callers
ASSUME TextsAssumption ==
    /\ Unfit \subseteq Texts
    /\ Strings \cap Texts = {}
    /\ None \notin Texts
ASSUME KeysAssumption == NameOf \in [Keys -> Texts]
ASSUME OpsAssumption == Ops \subseteq AtOnce \cup Logging \cup Sending
ASSUME ArgListsAssumption == ArgLists \subseteq Seq(Strings)
ASSUME HashesAssumption == Hashes \subseteq Seq([key : Keys, value : Strings \cup Texts])
ASSUME BoundsAssumption == MaxCalls \in Nat /\ MaxChanges \in Nat

VARIABLES
    text,     \* what each String holds
    calls,    \* history: the calls of methods, in the order they began
    running,  \* the call of each thread that is in Ruby code, or 0
    loop,     \* the headers= of each thread, or None; with the headers from before, and
              \* the names it may mix with what others set, as history
    told,     \* what libzyre was told, in order
    headers,  \* libzyre's headers of the node
    changes

vars == <<text, calls, running, loop, told, headers, changes>>

-----------------------------------------------------------------------------
Count(op) ==
    CASE op = "set_header" -> 2
      [] op \in {"name=", "interface=", "endpoint=", "gossip_bind", "gossip_connect",
                 "join", "leave", "whisper", "shout"} -> 1
      [] OTHER -> 0

\* An argument is a String of the program, or one that nobody else has.
Value(x) == IF x \in Strings THEN text[x] ELSE x
Values(args) == [k \in DOMAIN args |-> Value(args[k])]

\* StringValueCStr raises ArgumentError otherwise.
Fit(args) == \A k \in DOMAIN args : Value(args[k]) \notin Unfit

Free(c) == running[c] = 0 /\ loop[c] = None

\* A call with its arguments, and what they hold now.
NewCall(op, args, status) ==
    [op |-> op, args |-> args, asked |-> Values(args), changed |-> {},
     status |-> status]

\* libzyre keeps one value for each header.
Effect(op, texts) ==
    headers' = IF op = "set_header" THEN [headers EXCEPT ![texts[1]] = texts[2]]
               ELSE headers

\* The thread c sets a header between those of another thread's headers=.
Mix(c, name) ==
    [d \in Callers |->
        IF loop[d] # None /\ d # c THEN [loop[d] EXCEPT !.mixed = @ \cup {name}]
        ELSE loop[d]]

Init ==
    /\ text \in [Strings -> Texts]
    /\ calls = <<>>
    /\ running = [c \in Callers |-> 0]
    /\ loop = [c \in Callers |-> None]
    /\ told = <<>>
    /\ headers = [n \in Texts |-> None]
    /\ changes = 0

\* A setter without log output has its effect before anyone else runs.
CallAtOnce(c, op, args) ==
    /\ Free(c) /\ op \in AtOnce
    /\ Len(calls) < MaxCalls /\ Fit(args)
    /\ calls' = Append(calls, NewCall(op, args, "returned"))
    /\ told' = Append(told, [call |-> Len(calls) + 1, texts |-> Values(args)])
    /\ UNCHANGED <<text, running, loop, headers, changes>>

\* An argument is refused before anything is logged or told.
CallRefused(c, op, args) ==
    /\ Free(c)
    /\ Len(calls) < MaxCalls /\ ~Fit(args)
    /\ calls' = Append(calls, NewCall(op, args, "raised"))
    /\ UNCHANGED <<text, running, loop, told, headers, changes>>

\* Mutant: the node is told first, and the log is written afterwards.
CallTellsFirst(c, op, args) ==
    /\ Free(c) /\ op \in Logging \cup Sending
    /\ Len(calls) < MaxCalls /\ Fit(args)
    /\ calls' = Append(calls, NewCall(op, args, "running"))
    /\ told' = Append(told, [call |-> Len(calls) + 1, texts |-> Values(args)])
    /\ running' = [running EXCEPT ![c] = Len(calls) + 1]
    /\ UNCHANGED <<text, loop, headers, changes>>

\* The pointers are taken; Ruby code runs next.
Call(c, op, args) ==
    /\ Free(c) /\ op \in Logging \cup Sending
    /\ Len(calls) < MaxCalls /\ Fit(args)
    /\ calls' = Append(calls, NewCall(op, args, "running"))
    /\ running' = [running EXCEPT ![c] = Len(calls) + 1]
    /\ UNCHANGED <<text, loop, told, headers, changes>>

\* Mutant: the pointers of a call are taken to be one.
PointedFirst(call) ==
    {t \in [DOMAIN call.args -> Texts] :
        \A k \in DOMAIN t : call.args[k] \in call.changed \/ t[k] = Value(call.args[1])}

\* What the pointers of a call give: its arguments, but of a String that was
\* changed meanwhile anything, for its memory may be another's by then.
Pointed(call) ==
    {t \in [DOMAIN call.args -> Texts] :
        \A k \in DOMAIN t : call.args[k] \in call.changed \/ t[k] = Value(call.args[k])}

\* The Ruby code returns, and the call tells libzyre.
Tell(c) ==
    /\ running[c] # 0
    /\ LET call == calls[running[c]] IN
        \E texts \in Pointed(call) :
            /\ told' = Append(told, [call |-> running[c], texts |-> texts])
            /\ Effect(call.op, texts)
            /\ loop' = IF call.op = "set_header" THEN Mix(c, texts[1]) ELSE loop
    /\ calls' = [calls EXCEPT ![running[c]].status = "returned"]
    /\ running' = [running EXCEPT ![c] = 0]
    /\ UNCHANGED <<text, changes>>

\* Mutant: the exception is lost, and the call goes on.
RaiseLost(c) ==
    /\ running[c] # 0
    /\ calls' = [calls EXCEPT ![running[c]].status = "raised"]
    /\ UNCHANGED <<text, running, loop, told, headers, changes>>

\* The Ruby code raises: the logger, a to_str, or an interrupt of the thread.  A
\* headers= that made the call ends with it.
Raise(c) ==
    /\ running[c] # 0
    /\ calls' = [calls EXCEPT ![running[c]].status = "raised"]
    /\ running' = [running EXCEPT ![c] = 0]
    /\ loop' = [loop EXCEPT ![c] = None]
    /\ UNCHANGED <<text, told, headers, changes>>

-----------------------------------------------------------------------------
(* headers=                                                                *)

BeginHeaders(c, hash) ==
    /\ Free(c)
    /\ loop' = [loop EXCEPT ![c] = [hash |-> hash, at |-> 0, before |-> headers,
                                    mixed |-> {}]]
    /\ UNCHANGED <<text, calls, running, told, headers, changes>>

\* The next pair: to_s of its key is a String of its own, but to_s of a value that
\* is a String is that String.
HeaderArgs(pair) == <<NameOf[pair.key], pair.value>>

InLoop(c) == running[c] = 0 /\ loop[c] # None

\* Mutant: a value that set_header refuses is passed over.
NextHeaderOrSkip(c) ==
    /\ InLoop(c) /\ loop[c].at < Len(loop[c].hash)
    /\ Len(calls) < MaxCalls
    /\ LET args == HeaderArgs(loop[c].hash[loop[c].at + 1]) IN
        /\ calls' = Append(calls, NewCall("set_header", args,
                                          IF Fit(args) THEN "running" ELSE "raised"))
        /\ running' = [running EXCEPT ![c] = IF Fit(args) THEN Len(calls) + 1 ELSE 0]
        /\ loop' = [loop EXCEPT ![c].at = @ + 1]
    /\ UNCHANGED <<text, told, headers, changes>>

\* set_header of the next pair; a value it refuses ends the loop.
NextHeader(c) ==
    /\ InLoop(c) /\ loop[c].at < Len(loop[c].hash)
    /\ Len(calls) < MaxCalls
    /\ LET args == HeaderArgs(loop[c].hash[loop[c].at + 1]) IN
        IF Fit(args)
        THEN /\ calls' = Append(calls, NewCall("set_header", args, "running"))
             /\ running' = [running EXCEPT ![c] = Len(calls) + 1]
             /\ loop' = [loop EXCEPT ![c].at = @ + 1]
        ELSE /\ calls' = Append(calls, NewCall("set_header", args, "raised"))
             /\ loop' = [loop EXCEPT ![c] = None]
             /\ UNCHANGED running
    /\ UNCHANGED <<text, told, headers, changes>>

EndHeaders(c) ==
    /\ InLoop(c) /\ loop[c].at = Len(loop[c].hash)
    /\ loop' = [loop EXCEPT ![c] = None]
    /\ UNCHANGED <<text, calls, running, told, headers, changes>>

-----------------------------------------------------------------------------
(* The rest of the program.                                                *)

\* The names that a Hash gives the String s to.
NamesOf(hash, s) == {NameOf[hash[j].key] : j \in {j \in DOMAIN hash : hash[j].value = s}}

\* A String is changed in place, or gets new memory.
Change(s, x) ==
    /\ x # text[s] /\ changes < MaxChanges
    /\ text' = [text EXCEPT ![s] = x]
    /\ calls' = [k \in DOMAIN calls |->
                    IF calls[k].status = "running"
                    THEN [calls[k] EXCEPT !.changed = @ \cup {s}] ELSE calls[k]]
    /\ loop' = [c \in Callers |->
                   IF loop[c] # None
                   THEN [loop[c] EXCEPT !.mixed = @ \cup NamesOf(loop[c].hash, s)]
                   ELSE None]
    /\ changes' = changes + 1
    /\ UNCHANGED <<running, told, headers>>

Arguments(op) == {args \in ArgLists : Len(args) = Count(op)}

Next ==
    \/ \E c \in Callers :
        \/ \E op \in Ops : \E args \in Arguments(op) :
               CallAtOnce(c, op, args) \/ CallRefused(c, op, args) \/ Call(c, op, args)
        \/ \E hash \in Hashes : BeginHeaders(c, hash)
        \/ Tell(c) \/ Raise(c) \/ NextHeader(c) \/ EndHeaders(c)
    \/ \E s \in Strings, x \in Texts : Change(s, x)

Spec == Init /\ [][Next]_vars

-----------------------------------------------------------------------------
(* Properties.                                                             *)

CallRecords ==
    [op : Ops \cup {"set_header"}, args : Seq(Strings \cup Texts), asked : Seq(Texts),
     changed : SUBSET Strings, status : {"running", "returned", "raised"}]
Loops == [hash : Hashes, at : Nat, before : [Texts -> Texts \cup {None}],
          mixed : SUBSET Texts]

CallsType ==
    /\ calls \in Seq(CallRecords)
    /\ \A k \in DOMAIN calls : Len(calls[k].args) = Count(calls[k].op)
RunningType ==
    /\ running \in [Callers -> Nat]
    /\ \A c \in Callers : running[c] # 0 =>
           running[c] \in DOMAIN calls /\ calls[running[c]].status = "running"
LoopType ==
    /\ loop \in [Callers -> Loops \cup {None}]
    /\ \A c \in Callers : loop[c] # None => loop[c].at <= Len(loop[c].hash)
ToldType ==
    /\ told \in Seq([call : Nat, texts : Seq(Texts)])
    /\ \A j \in DOMAIN told : told[j].call \in DOMAIN calls
TextType ==
    text \in [Strings -> Texts] /\ headers \in [Texts -> Texts \cup {None}] /\ changes \in Nat

\* Every variable has the shape its comment gives it, and a thread in Ruby code is
\* in a call that runs.
TypeOK == CallsType /\ RunningType /\ LoopType /\ ToldType /\ TextType

\* libzyre is told what a call was given, though it reads it only after Ruby code
\* has run, unless one of its Strings was changed in that time (node.c:366-370,
\* 390-394, 413-417, 480-484, 501-505, 545-548, 572-575).
ToldAsAsked ==
    \A j \in DOMAIN told :
        calls[told[j].call].changed = {} => told[j].texts = calls[told[j].call].asked

\* The times libzyre was told for the call k.
Times(k) == {j \in DOMAIN told : told[j].call = k}

\* A call that raises, for an argument or out of the logger or a to_str, has told
\* libzyre nothing, and one that returns has told it once.
ToldOnceIfReturned ==
    \A k \in DOMAIN calls :
        IF calls[k].status = "returned" THEN \E j \in DOMAIN told : Times(k) = {j}
        ELSE Times(k) = {}

\* The headers that headers= has come to, which are all of them when it ends, and
\* those before the first that raises.
Reached(l, busy) ==
    {j \in DOMAIN l.hash : j < l.at \/ (j = l.at /\ ~busy)}

\* The node has the value of headers= for each name it reached, the last one where
\* several keys become one name, and the other headers as they were.
Merged(l, busy) ==
    \A n \in Texts \ l.mixed :
        LET given == {j \in Reached(l, busy) : NameOf[l.hash[j].key] = n}
        IN  \/ given = {} /\ headers[n] = l.before[n]
            \/ \E last \in given :
                   /\ \A j \in given : j <= last
                   /\ headers[n] = Value(l.hash[last].value)

\* headers= merges its Hash into the headers of the node; an exception half way
\* leaves exactly the headers before it (node.rb:58-63).  What threads set meanwhile
\* may mix, but name by name: only the names that another thread set, and those whose
\* values were changed, can have anything else.
HeadersMerged ==
    \A c \in Callers : loop[c] # None => Merged(loop[c], running[c] # 0)

=============================================================================
