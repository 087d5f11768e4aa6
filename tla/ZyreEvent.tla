------------------------------ MODULE ZyreEvent ------------------------------
(***************************************************************************)
(* What an event is to the code that waits for one: a value of a subclass  *)
(* of Zyre::Event whose readers (peer_name, group, ...) return the fields  *)
(* libzyre filled in.  An event is a record with a field "type" and one    *)
(* field for each reader; a criteria hash is a function whose domain is    *)
(* the set of its keys.                                                    *)
(***************************************************************************)

\* event.is_a?( event_class ): every event class is a leaf of Zyre::Event, so
\* the class of an event is the one its type names.
KindOf(event, type) == event.type = type

\* event.match( criteria ): all the keys name a reader of the event that returns
\* the value the criteria ask for.  An unknown key matches nothing; no key at
\* all matches everything.
Match(event, criteria) ==
    \A key \in DOMAIN criteria :
        /\ key \in DOMAIN event
        /\ event[key] = criteria[key]

\* The test that wait_for applies to each event it reads.
IsWanted(event, want) ==
    /\ KindOf(event, want.type)
    /\ Match(event, want.criteria)

=============================================================================
