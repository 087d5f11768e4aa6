------------------------------ MODULE ZmsgBuild ------------------------------
(***************************************************************************)
(* rzyre_make_zmsg_from: the zmsg that #whisper, #shout and                *)
(* Event.synthesize make from an array of message parts.  The arguments of *)
(* the loop that adds the frames lie in a static variable, one for all the *)
(* threads of the process; a part that is not a String is converted by its *)
(* own to_str, which is Ruby code and may give up the GVL.                 *)
(*                                                                         *)
(* A worker is an activation of rzyre_make_zmsg_from with the method that  *)
(* called it.  A call that a to_str makes itself is a worker that runs     *)
(* while the first one is converting.                                      *)
(***************************************************************************)
EXTENDS Integers, Sequences

CONSTANTS
    Workers,    \* activations of rzyre_make_zmsg_from
    Nobody,     \* no worker
    Parts,      \* message parts
    Converting, \* the parts whose conversion runs Ruby code
    Bad,        \* the parts whose conversion raises
    Messages,   \* the arrays of parts that are sent
    MaxCalls    \* bound: calls of rzyre_make_zmsg_from

ASSUME WorkersAssumption == Nobody \notin Workers
ASSUME PartsAssumption ==
    /\ Parts # {}
    /\ Converting \subseteq Parts
    /\ Bad \subseteq Parts
    /\ Messages \subseteq Seq(Parts)
ASSUME BoundAssumption == MaxCalls \in Nat

VARIABLES
    gvl,        \* the worker that holds the GVL
    static,     \* the static add_frames_to_zmsg_call_t: its msg and msg_parts
    msgs,       \* every zmsg made, with the parts it was asked to hold
    pc,         \* where each worker is
    own,        \* the zmsg each worker made, its local "msg"
    dest,       \* what the caller does with it: "sent" or "kept" by an event
    i,          \* the local "i"; the first part is 1 here
    part,       \* the local "msg_part"
    target,     \* the zmsg argument of zmsg_addstr, if read before the other
    overlapped, \* history: the zmsgs made while another was being made
    stray       \* history: the zmsgs whose call gave a frame to a zmsg that no
                \* longer existed

vars == <<gvl, static, msgs, pc, own, dest, i, part, target, overlapped, stray>>

-----------------------------------------------------------------------------
Points == {"idle", "loop", "convert", "converting", "converted"}
\* building: made and not finished; sent: given to libzyre, which destroyed it;
\* kept: in an event; freed: destroyed when a part could not be converted.
States == {"building", "sent", "kept", "freed"}
Exists(m) == msgs[m].state \in {"building", "kept"}

\* The zmsg is read from the static variable after the conversion.
Later == 0

AnyPart == CHOOSE p \in Parts : TRUE

Holding(w) == gvl = w
Running == {w \in Workers : pc[w] # "idle"}
Goto(w, p) == pc' = [pc EXCEPT ![w] = p]

Init ==
    /\ gvl = Nobody
    /\ static = [msg |-> Later, parts |-> <<>>]
    /\ msgs = <<>>
    /\ pc = [w \in Workers |-> "idle"]
    /\ own = [w \in Workers |-> 0]
    /\ dest = [w \in Workers |-> "sent"]
    /\ i = [w \in Workers |-> 1]
    /\ part = [w \in Workers |-> AnyPart]
    /\ target = [w \in Workers |-> Later]
    /\ overlapped = {}
    /\ stray = {}

\* Mutant: the static is filled once, as a static initializer would do.
StartOnce(w, parts, d) ==
    /\ gvl = Nobody /\ pc[w] = "idle"
    /\ Len(msgs) < MaxCalls
    /\ gvl' = w
    /\ msgs' = Append(msgs, [frames |-> <<>>, state |-> "building",
                             asked |-> parts])
    /\ own' = [own EXCEPT ![w] = Len(msgs) + 1]
    /\ static' = [msg |-> IF static.msg = 0 THEN Len(msgs) + 1 ELSE static.msg,
                  parts |-> parts]
    /\ dest' = [dest EXCEPT ![w] = d]
    /\ i' = [i EXCEPT ![w] = 1]
    /\ overlapped' = IF Running = {} THEN overlapped
                     ELSE overlapped \cup {own[v] : v \in Running} \cup {Len(msgs) + 1}
    /\ Goto(w, "loop")
    /\ UNCHANGED <<part, target, stray>>

\* whisper, shout and synthesize up to the loop.
Start(w, parts, d) ==
    /\ gvl = Nobody /\ pc[w] = "idle"
    /\ Len(msgs) < MaxCalls
    /\ gvl' = w
    /\ msgs' = Append(msgs, [frames |-> <<>>, state |-> "building",
                             asked |-> parts])
    /\ own' = [own EXCEPT ![w] = Len(msgs) + 1]
    /\ static' = [msg |-> Len(msgs) + 1, parts |-> parts]
    /\ dest' = [dest EXCEPT ![w] = d]
    /\ i' = [i EXCEPT ![w] = 1]
    /\ overlapped' = IF Running = {} THEN overlapped
                     ELSE overlapped \cup {own[v] : v \in Running} \cup {Len(msgs) + 1}
    /\ Goto(w, "loop")
    /\ UNCHANGED <<part, target, stray>>

\* The test of the loop, and the fetch of a part.  C leaves open whether the
\* first argument of zmsg_addstr is read before the second is converted.
Fetch(w) ==
    /\ Holding(w) /\ pc[w] = "loop"
    /\ i[w] <= Len(static.parts)
    /\ part' = [part EXCEPT ![w] = static.parts[i[w]]]
    /\ \E m \in {static.msg, Later} : target' = [target EXCEPT ![w] = m]
    /\ Goto(w, "convert")
    /\ UNCHANGED <<gvl, static, msgs, own, dest, i, overlapped, stray>>

\* Mutant: one part too few.
FinishEarly(w) ==
    /\ Holding(w) /\ pc[w] = "loop"
    /\ i[w] >= Len(static.parts)
    /\ msgs' = [msgs EXCEPT ![own[w]].state = dest[w]]
    /\ gvl' = Nobody
    /\ Goto(w, "idle")
    /\ UNCHANGED <<static, own, dest, i, part, target, overlapped, stray>>

\* The loop is done: the caller sends the zmsg, which destroys it, or puts it
\* into its event.
Finish(w) ==
    /\ Holding(w) /\ pc[w] = "loop"
    /\ i[w] > Len(static.parts)
    /\ msgs' = [msgs EXCEPT ![own[w]].state = dest[w]]
    /\ gvl' = Nobody
    /\ Goto(w, "idle")
    /\ UNCHANGED <<static, own, dest, i, part, target, overlapped, stray>>

\* to_str gives up the GVL, and gets it back.
Release(w) ==
    /\ Holding(w) /\ pc[w] = "convert"
    /\ part[w] \in Converting
    /\ gvl' = Nobody
    /\ Goto(w, "converting")
    /\ UNCHANGED <<static, msgs, own, dest, i, part, target, overlapped, stray>>

Resume(w) ==
    /\ gvl = Nobody /\ pc[w] = "converting"
    /\ gvl' = w
    /\ Goto(w, "converted")
    /\ UNCHANGED <<static, msgs, own, dest, i, part, target, overlapped, stray>>

Converted(w) ==
    /\ Holding(w)
    /\ \/ pc[w] = "convert"
       \/ pc[w] = "converted"

\* Mutant: the exception passes without rb_protect.
RaiseUnprotected(w) ==
    /\ Converted(w) /\ part[w] \in Bad
    /\ gvl' = Nobody
    /\ Goto(w, "idle")
    /\ UNCHANGED <<static, msgs, own, dest, i, part, target, overlapped, stray>>

\* The conversion raises: rb_protect catches it, the worker destroys its zmsg
\* and raises it again.
Raise(w) ==
    /\ Converted(w) /\ part[w] \in Bad
    /\ msgs' = [msgs EXCEPT ![own[w]].state = "freed"]
    /\ gvl' = Nobody
    /\ Goto(w, "idle")
    /\ UNCHANGED <<static, own, dest, i, part, target, overlapped, stray>>

Target(w) == IF target[w] = Later THEN static.msg ELSE target[w]

\* Mutant: the index runs the wrong way.
AddFrameAgain(w) ==
    /\ Converted(w) /\ part[w] \notin Bad
    /\ msgs' = [msgs EXCEPT ![Target(w)].frames = Append(@, part[w])]
    /\ i' = [i EXCEPT ![w] = i[w] - 1]
    /\ Goto(w, "loop")
    /\ UNCHANGED <<gvl, static, own, dest, part, target, overlapped, stray>>

AddFrame(w) ==
    /\ Converted(w) /\ part[w] \notin Bad
    /\ IF Exists(Target(w))
       THEN /\ msgs' = [msgs EXCEPT
                           ![Target(w)].frames = Append(@, part[w])]
            /\ UNCHANGED stray
       ELSE stray' = stray \cup {own[w]} /\ UNCHANGED msgs
    /\ i' = [i EXCEPT ![w] = i[w] + 1]
    /\ Goto(w, "loop")
    /\ UNCHANGED <<gvl, static, own, dest, part, target, overlapped>>

Next ==
    \E w \in Workers :
        \/ \E parts \in Messages, d \in {"sent", "kept"} : Start(w, parts, d)
        \/ Fetch(w) \/ Finish(w) \/ Release(w) \/ Resume(w)
        \/ Raise(w) \/ AddFrame(w)

Spec == Init /\ [][Next]_vars

-----------------------------------------------------------------------------
(* Properties.                                                             *)

Zmsgs == [frames : Seq(Parts), state : States, asked : Messages]

\* Every variable has the shape its comment gives it.
TypeOK ==
    /\ gvl \in Workers \cup {Nobody}
    /\ static \in [msg : Nat, parts : Seq(Parts)]
    /\ msgs \in Seq(Zmsgs)
    /\ pc \in [Workers -> Points]
    /\ own \in [Workers -> Nat]
    /\ dest \in [Workers -> {"sent", "kept"}]
    /\ i \in [Workers -> Nat \ {0}]
    /\ part \in [Workers -> Parts]
    /\ target \in [Workers -> Nat]
    /\ overlapped \subseteq Nat /\ stray \subseteq Nat

\* A zmsg that no other call came in between has one frame for each part, in
\* order, when it is sent, and in an event for as long as the event lives: what an
\* earlier call left in the static block, or a later one puts there, is never seen
\* (zyre_ext.c:102, 110-114).
AloneFramesMatch ==
    \A m \in DOMAIN msgs \ overlapped :
        msgs[m].state \in {"sent", "kept"} => msgs[m].frames = msgs[m].asked

\* Only a call that another came in between can give a frame to a zmsg that
\* libzyre, or the handler of an exception, has destroyed (zyre_ext.c:94, 119;
\* node.c:548, 575).
StrayMeansOverlap == stray \subseteq overlapped

\* A zmsg that is not finished belongs to one call that still runs: an exception
\* in a conversion leaves none behind (zyre_ext.c:116-121).
NoOrphan ==
    \A m \in DOMAIN msgs : msgs[m].state = "building" =>
        \E w \in Workers :
            /\ pc[w] # "idle" /\ own[w] = m
            /\ \A v \in Workers \ {w} : pc[v] = "idle" \/ own[v] # m

-----------------------------------------------------------------------------
(* What a comment of the code says, and the code does not always do.       *)

\* zyre_ext.c:102, "with one frame per object in messages".
FramesMatchParts ==
    \A m \in DOMAIN msgs :
        msgs[m].state \in {"sent", "kept"} => msgs[m].frames = msgs[m].asked

=============================================================================
