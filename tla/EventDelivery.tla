---------------------------- MODULE EventDelivery ----------------------------
(***************************************************************************)
(* What the consuming methods of a Zyre::Node promise, without the poller, *)
(* the read and the GVL: each event is taken by one call, which answers    *)
(* with it, gives it to its block or drops it, by the call's criteria      *)
(* alone; and a call ends without an event only for a reason its caller    *)
(* knows of.                                                               *)
(***************************************************************************)
EXTENDS Integers, Sequences, ZyreEvent

CONSTANTS
    Callers,    \* activations of the consuming methods
    Events,     \* what may arrive
    Wants,      \* what wait_for may be asked for
    Ms          \* how early, in ticks, a timeout may end

VARIABLES
    arrived,    \* the events, with the time of their arrival
    log,        \* who took each event, and what for
    now,        \* the clock
    call,       \* the arguments of each caller's last call
    active,     \* the callers whose call has not ended
    hand,       \* the position in log of the event a caller decides about, or 0
    out         \* how each caller's last call ended

vars == <<arrived, log, now, call, active, hand, out>>

Methods == {"recv", "each", "wait", "timed"}
Calls == [mode : Methods, want : Wants, deadline : Nat, block : BOOLEAN,
          from : Nat, disturbed : BOOLEAN]

Init ==
    /\ arrived = <<>>
    /\ log = <<>>
    /\ now = 0
    /\ call \in [Callers -> Calls]
    /\ active = {}
    /\ hand = [c \in Callers |-> 0]
    /\ out = [c \in Callers |-> "none"]

Arrive(e) ==
    /\ arrived' = Append(arrived, [what |-> e, at |-> now])
    /\ UNCHANGED <<log, now, call, active, hand, out>>

Tick ==
    /\ now' = now + 1
    /\ UNCHANGED <<arrived, log, call, active, hand, out>>

\* Something from outside, an interrupt, reaches the calls in S.
Disturb(S) ==
    /\ S \subseteq active
    /\ call' = [c \in Callers |->
                   IF c \in S THEN [call[c] EXCEPT !.disturbed = TRUE]
                              ELSE call[c]]
    /\ UNCHANGED <<arrived, log, now, active, hand, out>>

Begin(c) ==
    /\ c \notin active
    /\ call'[c] \in Calls
    /\ call'[c].from = Len(log) /\ call'[c].deadline >= now
    /\ call' = [call EXCEPT ![c] = call'[c]]
    /\ active' = active \cup {c}
    /\ out' = [out EXCEPT ![c] = "none"]
    /\ UNCHANGED <<arrived, log, now, hand>>

Take(c) ==
    /\ c \in active /\ hand[c] = 0
    /\ Len(log) < Len(arrived)
    /\ log' = Append(log, [by |-> c, to |-> "hand"])
    /\ hand' = [hand EXCEPT ![c] = Len(log) + 1]
    /\ UNCHANGED <<arrived, now, call, active, out>>

Decides(c) == c \in active /\ hand[c] # 0
Wanted(c) == IsWanted(arrived[hand[c]].what, call[c].want)

Decide(c, fate) ==
    /\ log' = [log EXCEPT ![hand[c]].to = fate]
    /\ hand' = [hand EXCEPT ![c] = 0]

\* The call ends with the event: any event answers recv, a wanted one wait_for.
Answer(c) ==
    /\ Decides(c)
    /\ call[c].mode # "each"
    /\ call[c].mode # "recv" => Wanted(c)
    /\ Decide(c, "result")
    /\ active' = active \ {c}
    /\ out' = [out EXCEPT ![c] = "event"]
    /\ UNCHANGED <<arrived, now, call>>

\* The call goes on: the block gets any event of each_event, and those that
\* wait_for does not want.
Pass(c) ==
    /\ Decides(c)
    /\ call[c].mode # "recv"
    /\ call[c].mode # "each" => ~Wanted(c)
    /\ Decide(c, IF call[c].block THEN "block" ELSE "nowhere")
    /\ UNCHANGED <<arrived, now, call, active, out>>

\* The call ends without an event: its time is up, or it was disturbed.
GiveUp(c) ==
    /\ c \in active /\ hand[c] = 0
    /\ \/ call[c].disturbed
       \/ call[c].mode = "timed" /\ now + Ms > call[c].deadline
    /\ active' = active \ {c}
    /\ out' = [out EXCEPT ![c] = IF call[c].mode = "each" THEN "ended" ELSE "nil"]
    /\ UNCHANGED <<arrived, log, now, call, hand>>

\* The block ends the call.
BreakOut(c) ==
    /\ c \in active /\ hand[c] = 0 /\ call[c].block
    /\ active' = active \ {c}
    /\ out' = [out EXCEPT ![c] = "broke"]
    /\ UNCHANGED <<arrived, log, now, call, hand>>

\* An exception ends the calls in S, which all were disturbed; what they held is
\* lost.
Raise(S) ==
    /\ S # {} /\ S \subseteq active
    /\ \A c \in S : call[c].disturbed
    /\ log' = [i \in DOMAIN log |->
                  IF log[i].to = "hand" /\ log[i].by \in S
                  THEN [log[i] EXCEPT !.to = "lost"] ELSE log[i]]
    /\ hand' = [c \in Callers |-> IF c \in S THEN 0 ELSE hand[c]]
    /\ active' = active \ S
    /\ out' = [c \in Callers |-> IF c \in S THEN "raised" ELSE out[c]]
    /\ UNCHANGED <<arrived, now, call>>

Next ==
    \/ \E e \in Events : Arrive(e)
    \/ Tick
    \/ \E S \in SUBSET active : Disturb(S) \/ Raise(S)
    \/ \E c \in Callers :
           \/ Begin(c) \/ Take(c) \/ Answer(c) \/ Pass(c)
           \/ GiveUp(c) \/ BreakOut(c)

Spec == Init /\ [][Next]_vars

=============================================================================
