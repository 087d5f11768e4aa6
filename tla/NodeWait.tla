------------------------------ MODULE NodeWait ------------------------------
(***************************************************************************)
(* The consumers of one Zyre::Node: #recv, #each_event and #wait_for (with *)
(* and without a timeout), over the node's inbox, the poller that wait_for *)
(* creates and the two places where the extension gives up the GVL.        *)
(*                                                                         *)
(* A caller is an activation of one of these methods, one for each level   *)
(* of a thread: a call is made by the program, or by the block that the    *)
(* call one level out is running.  A thread goes by its outermost caller.  *)
(* Interrupts (Thread#raise, Thread#kill, a signal with a trap handler)    *)
(* may reach a thread at any time; the code notices them at the points the *)
(* interpreter and rb_thread_call_without_gvl2 check them.                 *)
(*                                                                         *)
(* Time is counted in ticks, Ms of them to the millisecond, so that        *)
(* deadlines between two milliseconds exist.  A local variable is back at  *)
(* 0 once the code does not read it again.                                 *)
(***************************************************************************)
EXTENDS Integers, Sequences, ZyreEvent

CONSTANTS
    Callers,        \* activations of the consuming methods
    Host,           \* Host[c]: the outermost caller of c's thread
    Level,          \* Level[c]: how deep in its thread c is
    Main,           \* the caller of the main thread, where trap handlers run
    Modes,          \* Modes[c]: the methods c may be an activation of
    Events,         \* what libzyre may deliver
    Wants,          \* the type and criteria given to wait_for
    Durations,      \* the timeouts given to wait_for, in ticks
    Ms,             \* ticks in a millisecond
    IntMax,         \* the largest int, in milliseconds
    Kinds,          \* the interrupts that may happen
    MaxTime,        \* bound: the clock stops here
    MaxEvents,      \* bound: deliveries
    MaxInterrupts   \* bound: interrupts

Methods == {"recv", "each", "wait", "timed"}

ASSUME HostAssumption ==
    /\ Host \in [Callers -> Callers]
    /\ \A c \in Callers : Host[Host[c]] = Host[c]
ASSUME LevelAssumption ==
    /\ Level \in [Callers -> Nat]
    /\ \A c \in Callers : Level[Host[c]] <= Level[c]
    /\ \A c, d \in Callers : Host[c] = Host[d] /\ Level[c] = Level[d] => c = d
ASSUME MainAssumption == Main \in Callers
ASSUME ModesAssumption == Modes \in [Callers -> SUBSET Methods]
ASSUME KindsAssumption == Kinds \subseteq {"trap", "raise"}
ASSUME WantsAssumption == Wants # {}
ASSUME NumbersAssumption ==
    /\ Durations \subseteq Nat
    /\ Ms \in Nat \ {0}
    /\ IntMax \in Nat
    /\ MaxTime \in Nat
    /\ MaxEvents \in Nat
    /\ MaxInterrupts \in Nat

VARIABLES
    arrived,    \* everything libzyre put into the inbox, and when
    log,        \* what became of each event read, in the order of reading
    now,        \* the monotonic clock
    pc,         \* where each caller is
    call,       \* the arguments of each caller's last call
    timeout,    \* the local of wait_for_with_timeout
    until,      \* when the caller's poll gives up
    cur,        \* the local "event": its position in log, 0 for nil
    pending,    \* the interrupt each thread has not noticed yet
    interrupts, \* how many interrupts there were
    out,        \* how each caller's last call ended
    aborted     \* an assertion of the extension killed the process

vars == <<arrived, log, now, pc, call, timeout, until, cur, pending,
          interrupts, out, aborted>>

-----------------------------------------------------------------------------
Forever == -1
Points == {"idle", "loop", "poll", "polling", "recv", "reading", "hand",
           "block"}
\* hand: held by its reader; result: returned to the caller of the method;
\* block: given to the block; nowhere: dropped; lost: dropped by an exception.
Fates == {"hand", "result", "block", "nowhere", "lost"}
Outcomes == {"none", "event", "nil", "ended", "raised", "broke"}

NoCall ==
    [mode |-> "recv", want |-> CHOOSE w \in Wants : TRUE, deadline |-> 0,
     block |-> FALSE, from |-> 0, disturbed |-> FALSE]

Read == Len(log)
InboxEmpty == Len(arrived) = Read

Thread(c) == Host[c]
Stack(c) == {d \in Callers : Thread(d) = Thread(c)}
Outer(c) == {d \in Stack(c) : Level[d] < Level[c]}
Inner(c) == {d \in Stack(c) : Level[d] > Level[c]}
Idle(c) == pc[c] = "idle"
\* c is on top of its thread's stack: no call made from its block is running.
OnTop(c) == \A d \in Inner(c) : Idle(d)
Runs(c) == ~aborted /\ OnTop(c)
Interrupted(c) == pending[Thread(c)] # "none"

\* The arguments of a call of method m by c.
Call(c, m, w, d, b) ==
    [mode |-> m, want |-> w, deadline |-> now + d, block |-> b,
     from |-> Len(log), disturbed |-> Interrupted(c)]

\* Points of a caller where Ruby code runs, which checks for interrupts.
RubyPoints == {"loop", "poll", "recv", "hand", "block"}

\* The top of the loop each method runs.
LoopTop(m) == CASE m = "timed" -> "loop"
                [] m = "wait"  -> "poll"
                [] OTHER       -> "recv"

Goto(c, p) == pc' = [pc EXCEPT ![c] = p]

\* c holds the event it read: it has not decided yet what to do with it.
Holds(c) == pc[c] = "hand" /\ cur[c] # 0

\* What becomes of the event c holds, if it holds one.
Settle(c, fate) ==
    log' = IF Holds(c) THEN [log EXCEPT ![cur[c]].to = fate] ELSE log

-----------------------------------------------------------------------------
(* Ends of a call.                                                         *)

\* The locals of the calls in S, which end.
Forget(S) ==
    /\ timeout' = [d \in Callers |-> IF d \in S THEN 0 ELSE timeout[d]]
    /\ until' = [d \in Callers |-> IF d \in S THEN 0 ELSE until[d]]
    /\ cur' = [d \in Callers |-> IF d \in S THEN 0 ELSE cur[d]]

\* An exception raised by an interrupt leaves every call of the thread's stack;
\* the event in the hand of the top one is lost with its local variable.
Unwind(c) ==
    /\ pc' = [d \in Callers |-> IF d \in Stack(c) THEN "idle" ELSE pc[d]]
    /\ out' = [d \in Callers |->
                  IF d \in Stack(c) /\ ~Idle(d) THEN "raised" ELSE out[d]]
    /\ Settle(c, "lost")
    /\ Forget(Stack(c))

\* The method returns.  Returning checks for interrupts: a trap handler runs
\* first, and an exception takes the place of the result.
Finish(c, outcome, fate) ==
    /\ pending' = [pending EXCEPT ![Thread(c)] = "none"]
    /\ IF pending[Thread(c)] = "raise"
       THEN Unwind(c)
       ELSE /\ Goto(c, "idle")
            /\ out' = [out EXCEPT ![c] = outcome]
            /\ Settle(c, fate)
            /\ Forget({c})

-----------------------------------------------------------------------------
Init ==
    /\ arrived = <<>>
    /\ log = <<>>
    /\ now = 0
    /\ pc = [c \in Callers |-> "idle"]
    /\ call = [c \in Callers |-> NoCall]
    /\ timeout = [c \in Callers |-> 0]
    /\ until = [c \in Callers |-> 0]
    /\ cur = [c \in Callers |-> 0]
    /\ pending = [c \in Callers |-> "none"]
    /\ interrupts = 0
    /\ out = [c \in Callers |-> "none"]
    /\ aborted = FALSE

\* libzyre delivers an event to the inbox.
Arrive(e) ==
    /\ ~aborted
    /\ Len(arrived) < MaxEvents
    /\ arrived' = Append(arrived, [what |-> e, at |-> now])
    /\ UNCHANGED <<log, now, pc, call, timeout, until, cur, pending,
                   interrupts, out, aborted>>

PollExpired(c) == until[c] # Forever /\ now >= until[c]

\* Time passes, up to the bound and to the end of the polls begun within it.
Tick ==
    /\ ~aborted
    /\ \/ now < MaxTime
       \/ \E c \in Callers :
              pc[c] = "polling" /\ until[c] # Forever /\ ~PollExpired(c)
    /\ now' = now + 1
    /\ UNCHANGED <<arrived, log, pc, call, timeout, until, cur, pending,
                   interrupts, out, aborted>>

\* A signal, or another thread's Thread#raise or Thread#kill, reaches thread t.
Interrupt(t, k) ==
    /\ ~aborted
    /\ interrupts < MaxInterrupts
    /\ Thread(t) = t /\ ~Idle(t)
    /\ pending[t] = "none"
    /\ k = "trap" => t = Main
    /\ pending' = [pending EXCEPT ![t] = k]
    /\ interrupts' = interrupts + 1
    /\ call' = [c \in Callers |->
                   IF Thread(c) = t /\ ~Idle(c)
                   THEN [call[c] EXCEPT !.disturbed = TRUE] ELSE call[c]]
    /\ UNCHANGED <<arrived, log, now, pc, timeout, until, cur, out, aborted>>

\* A call of the method m.  Only wait_for has a timeout; the deadline of a call
\* lies within the bound on time.
Begin(c, m, w, d, b) ==
    /\ Idle(c) /\ m \in Modes[c]
    /\ d \in IF m = "timed" THEN Durations ELSE {0}
    /\ m = "recv" => ~b
    /\ m = "each" => b
    /\ now + d <= MaxTime
    /\ Runs(c) /\ \A o \in Outer(c) : pc[o] = "block"
    /\ Goto(c, LoopTop(m))
    /\ call' = [call EXCEPT ![c] = Call(c, m, w, d, b)]
    /\ out' = [out EXCEPT ![c] = "none"]
    /\ UNCHANGED <<arrived, log, now, timeout, until, cur, pending, interrupts,
                   aborted>>

-----------------------------------------------------------------------------
(* The loop of wait_for and its poll.                                      *)

\* The time left, read from the clock into the local "timeout".
TimeLeft(c) == call[c].deadline - now

\* Mutant: while without its test.
AlwaysKeepWaiting(c) ==
    /\ pc[c] = "loop" /\ Runs(c)
    /\ timeout' = [timeout EXCEPT ![c] = TimeLeft(c)]
    /\ Goto(c, "poll")
    /\ UNCHANGED <<arrived, log, now, call, until, cur, pending, interrupts,
                   out, aborted>>

\* timeout = timeout_at - get_monotime, and the test of the while loop.
KeepWaiting(c) ==
    /\ pc[c] = "loop" /\ Runs(c)
    /\ TimeLeft(c) > 0
    /\ timeout' = [timeout EXCEPT ![c] = TimeLeft(c)]
    /\ Goto(c, "poll")
    /\ UNCHANGED <<arrived, log, now, call, until, cur, pending, interrupts,
                   out, aborted>>

\* Mutant: the last millisecond does not count.
TimeIsAlmostUp(c) ==
    /\ pc[c] = "loop" /\ Runs(c)
    /\ TimeLeft(c) <= Ms
    /\ Finish(c, "nil", "nowhere")
    /\ UNCHANGED <<arrived, now, call, interrupts, aborted>>

TimeIsUp(c) ==
    /\ pc[c] = "loop" /\ Runs(c)
    /\ TimeLeft(c) <= 0
    /\ Finish(c, "nil", "nowhere")
    /\ UNCHANGED <<arrived, now, call, interrupts, aborted>>

\* Mutant: seconds taken for milliseconds.
NoPollTimeout(c) == {timeout[c] \div (1000 * Ms)}

\* The int that "timeout = floor( seconds * 1000 )" may leave: whole
\* milliseconds, and for a value no int holds what the processor's conversion
\* instruction gives, the smallest int or the largest one.
PollTimeouts(c) ==
    LET ms == timeout[c] \div Ms
    IN  IF ms <= IntMax THEN {ms} ELSE {-IntMax - 1, IntMax}

\* Mutant: wait_for polls without the timeout it was given.
PollCallForever(c) ==
    /\ pc[c] = "poll" /\ Runs(c) /\ ~Interrupted(c)
    /\ until' = [until EXCEPT ![c] = Forever]
    /\ timeout' = [timeout EXCEPT ![c] = 0]
    /\ Goto(c, "polling")
    /\ UNCHANGED <<arrived, log, now, call, cur, pending, interrupts, out,
                   aborted>>

\* poller.wait gives up the GVL.
PollCall(c) ==
    /\ pc[c] = "poll" /\ Runs(c) /\ ~Interrupted(c)
    /\ IF call[c].mode = "wait"
       THEN until' = [until EXCEPT ![c] = Forever]
       ELSE \E ms \in PollTimeouts(c) :
                until' = [until EXCEPT
                             ![c] = IF ms < 0 THEN Forever ELSE now + ms * Ms]
    /\ timeout' = [timeout EXCEPT ![c] = 0]
    /\ Goto(c, "polling")
    /\ UNCHANGED <<arrived, log, now, call, cur, pending, interrupts, out,
                   aborted>>

\* Mutant: the answer of the poller does not count.
PollReadyAnyway(c) ==
    /\ pc[c] = "polling" /\ Runs(c)
    /\ until' = [until EXCEPT ![c] = 0]
    /\ Goto(c, "recv")
    /\ UNCHANGED <<arrived, log, now, call, timeout, cur, pending, interrupts,
                   out, aborted>>
\* Mutant: one event is not enough.
PollReadyLate(c) ==
    /\ pc[c] = "polling" /\ Runs(c)
    /\ Len(arrived) > Read + 1
    /\ until' = [until EXCEPT ![c] = 0]
    /\ Goto(c, "recv")
    /\ UNCHANGED <<arrived, log, now, call, timeout, cur, pending, interrupts,
                   out, aborted>>

PollReady(c) ==
    /\ pc[c] = "polling" /\ Runs(c)
    /\ ~InboxEmpty
    /\ until' = [until EXCEPT ![c] = 0]
    /\ Goto(c, "recv")
    /\ UNCHANGED <<arrived, log, now, call, timeout, cur, pending, interrupts,
                   out, aborted>>

\* poller.wait returns nil: both loops of wait_for end, and so does the call.
\* Its wait expired, a signal interrupted it, or it found an interrupt pending
\* and did not wait at all.
PollNil(c) ==
    /\ \/ pc[c] = "polling" /\ InboxEmpty /\ PollExpired(c)
       \/ pc[c] = "polling" /\ InboxEmpty /\ Interrupted(c)
       \/ pc[c] = "poll" /\ Interrupted(c)
    /\ Runs(c)
    /\ Finish(c, "nil", "nowhere")
    /\ UNCHANGED <<arrived, now, call, interrupts, aborted>>

-----------------------------------------------------------------------------
(* The read: Zyre::Event.from_node.                                        *)

RecvCall(c) ==
    /\ pc[c] = "recv" /\ Runs(c) /\ ~Interrupted(c)
    /\ Goto(c, "reading")
    /\ UNCHANGED <<arrived, log, now, call, timeout, until, cur, pending,
                   interrupts, out, aborted>>

\* An interrupt is pending: the read is not tried, and recv returns nil.
RecvSkipped(c) ==
    /\ pc[c] = "recv" /\ Runs(c) /\ Interrupted(c)
    /\ cur' = [cur EXCEPT ![c] = 0]
    /\ Goto(c, "hand")
    /\ UNCHANGED <<arrived, log, now, call, timeout, until, pending,
                   interrupts, out, aborted>>

\* Mutants: the read does not wait for an event, or leaves it in the inbox.
ReadAnyway(c) ==
    /\ pc[c] = "reading" /\ Runs(c)
    /\ log' = Append(log, [by |-> c, to |-> "hand"])
    /\ cur' = [cur EXCEPT ![c] = Read + 1]
    /\ Goto(c, "hand")
    /\ UNCHANGED <<arrived, now, call, timeout, until, pending, interrupts, out,
                   aborted>>
PeekEvent(c) ==
    /\ pc[c] = "reading" /\ Runs(c)
    /\ ~InboxEmpty
    /\ cur' = [cur EXCEPT ![c] = Read + 1]
    /\ Goto(c, "hand")
    /\ UNCHANGED <<arrived, log, now, call, timeout, until, pending, interrupts,
                   out, aborted>>

ReadEvent(c) ==
    /\ pc[c] = "reading" /\ Runs(c)
    /\ ~InboxEmpty
    /\ log' = Append(log, [by |-> c, to |-> "hand"])
    /\ cur' = [cur EXCEPT ![c] = Read + 1]
    /\ Goto(c, "hand")
    /\ UNCHANGED <<arrived, now, call, timeout, until, pending, interrupts, out,
                   aborted>>

\* A signal ends the blocking read: zyre_event_new returns NULL, and the
\* assertion that it does not ends the process.
ReadInterrupted(c) ==
    /\ pc[c] = "reading" /\ Runs(c)
    /\ InboxEmpty /\ Interrupted(c)
    /\ aborted' = TRUE
    /\ UNCHANGED <<arrived, log, now, pc, call, timeout, until, cur, pending,
                   interrupts, out>>

-----------------------------------------------------------------------------
(* What a method does with what it read.                                   *)

HasEvent(c) == cur[c] # 0
Event(c) == arrived[cur[c]].what
\* Mutant: any event will do.
GotAny(c) == HasEvent(c)
GotWanted(c) == HasEvent(c) /\ IsWanted(Event(c), call[c].want)
Waits(c) == call[c].mode \in {"wait", "timed"}

\* Mutant: the outcome does not tell whether there was an event.
ReturnAnyway(c) ==
    /\ pc[c] = "hand" /\ Runs(c)
    /\ \/ call[c].mode = "recv"
       \/ Waits(c) /\ GotWanted(c)
    /\ Finish(c, "event", "result")
    /\ UNCHANGED <<arrived, now, call, interrupts, aborted>>

\* recv returns what it read; wait_for returns the event it waits for.
Return(c) ==
    /\ pc[c] = "hand" /\ Runs(c)
    /\ \/ call[c].mode = "recv"
       \/ Waits(c) /\ GotWanted(c)
    /\ Finish(c, IF HasEvent(c) THEN "event" ELSE "nil", "result")
    /\ UNCHANGED <<arrived, now, call, interrupts, aborted>>

\* The while of each_event ends with the first nil.
EachEnds(c) ==
    /\ pc[c] = "hand" /\ Runs(c)
    /\ call[c].mode = "each" /\ ~HasEvent(c)
    /\ Finish(c, "ended", "nowhere")
    /\ UNCHANGED <<arrived, now, call, interrupts, aborted>>

\* Mutants: the block also gets the event that wait_for returns, or no event.
PassAllOn(c) ==
    /\ pc[c] = "hand" /\ Runs(c) /\ ~Interrupted(c)
    /\ call[c].mode # "recv"
    /\ Settle(c, IF call[c].block THEN "block" ELSE "nowhere")
    /\ cur' = [cur EXCEPT ![c] = IF call[c].block THEN cur[c] ELSE 0]
    /\ Goto(c, IF call[c].block THEN "block" ELSE LoopTop(call[c].mode))
    /\ UNCHANGED <<arrived, now, call, timeout, until, pending, interrupts, out,
                   aborted>>
PassNothingOn(c) ==
    /\ pc[c] = "hand" /\ Runs(c) /\ ~Interrupted(c)
    /\ \/ call[c].mode = "each" /\ HasEvent(c)
       \/ Waits(c) /\ ~GotWanted(c)
    /\ Settle(c, "nowhere")
    /\ cur' = [cur EXCEPT ![c] = 0]
    /\ Goto(c, LoopTop(call[c].mode))
    /\ UNCHANGED <<arrived, now, call, timeout, until, pending, interrupts, out,
                   aborted>>

\* each_event yields the event; wait_for gives what it does not want to its
\* block (a nil too), or drops it.  The branch to either one checks for
\* interrupts.
PassOn(c) ==
    /\ pc[c] = "hand" /\ Runs(c) /\ ~Interrupted(c)
    /\ \/ call[c].mode = "each" /\ HasEvent(c)
       \/ Waits(c) /\ ~GotWanted(c)
    /\ Settle(c, IF call[c].block THEN "block" ELSE "nowhere")
    /\ cur' = [cur EXCEPT ![c] = IF call[c].block THEN cur[c] ELSE 0]
    /\ Goto(c, IF call[c].block THEN "block" ELSE LoopTop(call[c].mode))
    /\ UNCHANGED <<arrived, now, call, timeout, until, pending, interrupts, out,
                   aborted>>

BlockReturn(c) ==
    /\ pc[c] = "block" /\ Runs(c)
    /\ cur' = [cur EXCEPT ![c] = 0]
    /\ Goto(c, LoopTop(call[c].mode))
    /\ UNCHANGED <<arrived, log, now, call, timeout, until, pending, interrupts,
                   out, aborted>>

\* The block ends the call: break, or an exception of its own.
BlockBreak(c) ==
    /\ pc[c] = "block" /\ Runs(c)
    /\ Goto(c, "idle")
    /\ out' = [out EXCEPT ![c] = "broke"]
    /\ Forget({c})
    /\ UNCHANGED <<arrived, log, now, call, pending, interrupts, aborted>>

\* The interpreter notices a pending interrupt.
CheckInterrupts(c) ==
    /\ pc[c] \in RubyPoints /\ Runs(c) /\ Interrupted(c)
    /\ pending' = [pending EXCEPT ![Thread(c)] = "none"]
    /\ IF pending[Thread(c)] = "raise"
       THEN Unwind(c)
       ELSE UNCHANGED <<pc, out, log, timeout, until, cur>>
    /\ UNCHANGED <<arrived, now, call, interrupts, aborted>>

-----------------------------------------------------------------------------
Step(c) ==
    \/ KeepWaiting(c) \/ TimeIsUp(c)
    \/ PollCall(c) \/ PollReady(c) \/ PollNil(c)
    \/ RecvCall(c) \/ RecvSkipped(c) \/ ReadEvent(c) \/ ReadInterrupted(c)
    \/ Return(c) \/ EachEnds(c) \/ PassOn(c)
    \/ CheckInterrupts(c)

BlockEnds(c) == BlockReturn(c) \/ BlockBreak(c)

Next ==
    \/ \E e \in Events : Arrive(e)
    \/ Tick
    \/ \E t \in Callers, k \in Kinds : Interrupt(t, k)
    \/ \E c \in Callers, m \in Methods, w \in Wants,
          d \in Durations \cup {0}, b \in BOOLEAN : Begin(c, m, w, d, b)
    \/ \E c \in Callers : Step(c) \/ BlockEnds(c)

\* A thread that can run is scheduled, time passes, and a block that makes calls
\* of its own makes finitely many of them.  Nothing makes events, interrupts or
\* calls happen.
Fairness ==
    /\ WF_vars(Tick)
    /\ \A c \in Callers : WF_vars(Step(c)) /\ SF_vars(BlockEnds(c))

Spec == Init /\ [][Next]_vars
FairSpec == Spec /\ Fairness

-----------------------------------------------------------------------------
(* Properties.                                                             *)

Calls ==
    [mode : Methods, want : Wants, deadline : Nat, block : BOOLEAN,
     from : Nat, disturbed : BOOLEAN]

\* Every variable has the shape its comment gives it.
TypeOK ==
    /\ arrived \in Seq([what : Events, at : Nat])
    /\ log \in Seq([by : Callers, to : Fates])
    /\ now \in Nat
    /\ pc \in [Callers -> Points]
    /\ call \in [Callers -> Calls]
    /\ timeout \in [Callers -> Nat]
    /\ until \in [Callers -> Nat \cup {Forever}]
    /\ cur \in [Callers -> Nat]
    /\ pending \in [Callers -> Kinds \cup {"none"}]
    /\ interrupts \in Nat
    /\ out \in [Callers -> Outcomes]
    /\ aborted \in BOOLEAN

\* Each event read is in one place: the one still undecided is in the hand of
\* the caller that read it, and nothing is read twice or before it arrived
\* (node.rb:99, 120; event.c:101).
Custody ==
    /\ Read <= Len(arrived)
    /\ \A c \in Callers : Holds(c) => /\ cur[c] \in DOMAIN log
                                      /\ log[cur[c]] = [by |-> c, to |-> "hand"]
    /\ \A i \in DOMAIN log :
           log[i].to = "hand" => Holds(log[i].by) /\ cur[log[i].by] = i

\* The events a caller has read in its last call.
ReadBy(c) == {i \in DOMAIN log : i > call[c].from /\ log[i].by = c}

\* wait_for decides each event by its criteria alone: the wanted one is the last
\* it reads, and is never given to the block nor dropped; every other one goes
\* to the block if there is one (node.rb:99-103, 121-125).
WaitTakesFirstWanted ==
    \A c \in Callers : Waits(c) =>
        \A i \in ReadBy(c) :
            IF IsWanted(arrived[i].what, call[c].want)
            THEN /\ log[i].to \in {"hand", "result", "lost"}
                 /\ \A j \in ReadBy(c) : j <= i
                 /\ Idle(c) \/ (pc[c] = "hand" /\ cur[c] = i)
            ELSE log[i].to \in {"hand", "lost",
                                IF call[c].block THEN "block" ELSE "nowhere"}

\* No event disappears: what a call has read is its result if it returns an event,
\* and then its last; a block gets all the others, unless wait_for has none; and one
\* is lost only with the exception that ends its call (node.rb:84-88, 99-103,
\* 121-125; event.c:101).
NothingDisappears ==
    \A c \in Callers :
        LET read == ReadBy(c)
        IN  /\ \A i \in read :
                   /\ log[i].to = "hand" => out[c] = "none"
                   /\ log[i].to = "result" => out[c] = "event"
                   /\ log[i].to = "lost" => out[c] = "raised"
                   /\ log[i].to = "block" => call[c].mode # "recv" /\ call[c].block
                   /\ log[i].to = "nowhere" => Waits(c) /\ ~call[c].block
                   /\ log[i].to \notin {"block", "nowhere"} => \A j \in read : j <= i
            /\ out[c] = "event" => \E i \in read : log[i].to = "result"
            /\ out[c] = "raised" => call[c].disturbed

\* All calls are made by one thread.
OneThread == \A c, d \in Callers : Thread(c) = Thread(d)

\* If one thread uses the node, the recv in wait_for, which knows no timeout, finds
\* the event that the poll saw, whatever the blocks read between two polls
\* (node.rb:97-98, 117-119).
PolledReadFindsEvent ==
    OneThread =>
        \A c \in Callers : Waits(c) /\ pc[c] \in {"recv", "reading"} => ~InboxEmpty

\* Without an interrupt, only wait_for with a timeout ends without an event, and
\* not before the last millisecond of its timeout (node.rb:82-90, 95-105, 111-133).
NilIsExplained ==
    \A c \in Callers :
        /\ Idle(c) /\ ~call[c].disturbed
        /\ out[c] \in {"nil", "ended", "raised"}
        => call[c].mode = "timed" /\ now + Ms > call[c].deadline

\* The calls as EventDelivery sees them.
Active == {c \in Callers : ~Idle(c)}
Hand == [c \in Callers |-> IF Holds(c) THEN cur[c] ELSE 0]
Delivery == INSTANCE EventDelivery WITH active <- Active, hand <- Hand

\* The poller, the read and the interrupts only ever make the steps of
\* EventDelivery: an event goes from the inbox to one call, which decides it by
\* its criteria, and a call ends without one for a reason (node.rb:22-135).
DeliversEvents == Delivery!Spec

\* A call of wait_for with a timeout ends (node.rb:32-34).
TimedCallReturns ==
    \A c \in Callers :
        (~Idle(c) /\ call[c].mode = "timed") ~> (Idle(c) \/ aborted)

WantedInInbox(c) ==
    \E i \in DOMAIN arrived :
        i > Read /\ IsWanted(arrived[i].what, call[c].want)

\* wait_for without a timeout takes an event it waits for that has arrived,
\* whatever stands before it in the inbox, unless a call from its block does
\* (node.rb:93-105).
WantedIsFound ==
    \A c \in Callers :
        (~Idle(c) /\ call[c].mode = "wait" /\ WantedInInbox(c))
            ~> (Idle(c) \/ aborted \/ ~WantedInInbox(c))

-----------------------------------------------------------------------------
(* What an assertion of the code says, and the code does not keep.         *)

\* event.c:81, assert( event_ptr ).
ReadGetsEvent == ~aborted

=============================================================================
