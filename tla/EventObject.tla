----------------------------- MODULE EventObject -----------------------------
(***************************************************************************)
(* Zyre::Event.synthesize and the accessors of an event, with the          *)
(* EventFactory of lib/zyre/testing.rb that calls it.  An event is a C     *)
(* structure.  Its strings and its message are copies, but the values of   *)
(* its table of headers are pointers into Ruby strings, which the program  *)
(* can change and the garbage collector can free: an event has no mark     *)
(* function.                                                               *)
(***************************************************************************)
EXTENDS Integers, Sequences, Functions

CONSTANTS
    Strings,    \* the memory of Ruby strings
    Texts,      \* what a string can hold
    Keys,       \* the keys of a header Hash: Symbols and Strings
    Names,      \* the names of headers in Zyre
    NameOf,     \* transform_header_key, which can map two keys to a name
    Factories,  \* event factories
    Hashes,     \* header Hashes
    Default,    \* the Hash DEFAULT_HEADERS
    NameFrom,   \* the name made from a UUID: 'S-' and its first six characters
    None,       \* nil, and a field that was not given
    Messages,   \* values of :msg, as arrays of parts
    Settable,   \* bound: the fields of a factory that are set after it is made
    MaxEvents   \* bound: events made

ASSUME DefaultAssumption == Default \in Hashes
ASSUME KeysAssumption == NameOf \in [Keys -> Names]
ASSUME TextsAssumption == Texts # {}
ASSUME NameFromAssumption == NameFrom \in [Texts -> Texts]
ASSUME NoneAssumption ==
    None \notin Texts \cup Strings \cup Messages \cup Hashes \cup Nat
ASSUME MessagesAssumption == Messages \subseteq Seq(Texts)
ASSUME SettableAssumption == Settable \subseteq {"uuid", "name", "addr", "group"}

VARIABLES
    text,      \* what each string holds
    use,       \* "free" memory, a string that is "held", or "garbage"
    hashes,    \* the header Hashes: the pairs of each, in order of insertion
    last,      \* history: what was last set under each key of each Hash
    factory,   \* the Hash, the fields and the message of each factory
    events,    \* the events made
    touched    \* history: the headers, each as the place of an event and a name, whose
               \* strings have been changed or collected

vars == <<text, use, hashes, last, factory, events, touched>>

-----------------------------------------------------------------------------
(* Strings as the C structure has them: a copy, or a pointer.              *)

Copy(x) == [at |-> None, text |-> x]
Pointer(s) == [at |-> s, text |-> text[s]]
Nil == Copy(None)

\* What the accessor reads.
Get(v) == IF v.at = None THEN v.text ELSE text[v.at]

\* Mutant: the pointer is stored.
NotCopied(v) == v

\* rzyre_copy_string.
Copied(v) == Copy(v.text)

Held == {s \in Strings : use[s] = "held"}
Free == {s \in Strings : use[s] = "free"}

-----------------------------------------------------------------------------
(* Header Hashes.                                                          *)

Pairs == [key : Keys, value : Texts]
IndexOf(hash, k) == {j \in DOMAIN hash : hash[j].key = k}

\* hash[k] = x: a key that is there keeps its place.
Put(hash, k, x) ==
    IF IndexOf(hash, k) = {} THEN Append(hash, [key |-> k, value |-> x])
    ELSE [j \in DOMAIN hash |->
             IF hash[j].key = k THEN [key |-> k, value |-> x] ELSE hash[j]]

\* normalize_headers: of the keys that become one name the last one counts.
Normalize(hash) ==
    [n \in Names |->
        LET places == {j \in DOMAIN hash : NameOf[hash[j].key] = n}
        IN  IF places = {} THEN None
            ELSE hash[CHOOSE j \in places : \A k \in places : j >= k].value]

-----------------------------------------------------------------------------
(* synthesize.                                                             *)

\* The classes type_by_name finds.  Other names raise an error.
Types == {"ENTER", "EXIT", "JOIN", "LEAVE", "WHISPER", "SHOUT", "EVASIVE",
          "SILENT", "STOP"}

\* The fields that are strings.
Fields == {"uuid", "name", "addr", "group"}

\* What the structure of a type has.
Has(type) ==
    {"uuid", "name"}
      \cup (IF type = "ENTER" THEN {"addr", "headers"} ELSE {})
      \cup (IF type \in {"JOIN", "LEAVE", "SHOUT"} THEN {"group"} ELSE {})
      \cup (IF type \in {"WHISPER", "SHOUT"} THEN {"msg"} ELSE {})

\* Without one of these synthesize raises ArgumentError.
Required(type) == Has(type) \ {"name", "headers"}

IsGiven(given, field) ==
    IF field = "msg" THEN given.msg # None ELSE given.fields[field] # Nil

\* Mutant: the default name is given to every event.
PeerNameDefault(given) == Copy(NameFrom[given.fields["uuid"].text])

PeerName(given) ==
    IF given.fields["name"] # Nil THEN Copied(given.fields["name"])
    ELSE Copy(NameFrom[given.fields["uuid"].text])

\* The structure: the fields its type does not have are NULL.
Structure(type, given) ==
    [type |-> type,
     fields |-> [field \in Fields |->
                    IF field = "name" THEN PeerName(given)
                    ELSE IF field \in Has(type) THEN Copied(given.fields[field]) ELSE Nil],
     msg |-> IF "msg" \in Has(type) THEN given.msg ELSE None,
     headers |-> IF "headers" \in Has(type) THEN given.headers
                 ELSE [n \in Names |-> Nil]]

\* Event.synthesize; asked is what the caller, from, will expect to read.
Synthesize(type, given, asked, from) ==
    /\ \A field \in Required(type) : IsGiven(given, field)
    /\ events' = Append(events, [event |-> Structure(type, given), asked |-> asked,
                                  from |-> from])

-----------------------------------------------------------------------------
(* The accessors.                                                          *)

\* peer_uuid, peer_name, peer_addr and group.
Field(e, field) == Get(e.fields[field])

headers(e) == [n \in Names |-> Get(e.headers[n])]

multipart_msg(e) == IF e.msg = None THEN <<>> ELSE e.msg
msg_size(e) == IF e.msg = None THEN None ELSE Len(e.msg)
multipart(e) == msg_size(e) # None /\ msg_size(e) > 1

\* The first frame.  A message without one has no value here: zmsg_first gives NULL,
\* which zframe_strdup does not take.
msg(e) == IF e.msg = None THEN None ELSE e.msg[1]

-----------------------------------------------------------------------------
Init ==
    /\ text = [s \in Strings |-> CHOOSE x \in Texts : TRUE]
    /\ use = [s \in Strings |-> "free"]
    /\ hashes = [h \in Hashes |-> <<>>]
    /\ last = [h \in Hashes |-> [k \in Keys |-> None]]
    /\ factory = [f \in Factories |-> None]
    /\ events = <<>>
    /\ touched = {}

\* The headers whose values are pointers to a string.
Pointing(s) ==
    {header \in (DOMAIN events) \X Names :
        events[header[1]].event.headers[header[2]].at = s}

\* The program makes a string, changes it, and lets go of it.
NewString(s, x) ==
    /\ s \in Free
    /\ text' = [text EXCEPT ![s] = x]
    /\ use' = [use EXCEPT ![s] = "held"]
    /\ UNCHANGED <<hashes, last, factory, events, touched>>

Mutate(s, x) ==
    /\ s \in Held
    /\ text' = [text EXCEPT ![s] = x]
    /\ touched' = touched \cup Pointing(s)
    /\ UNCHANGED <<use, hashes, last, factory, events>>

Drop(s) ==
    /\ s \in Held
    /\ use' = [use EXCEPT ![s] = "garbage"]
    /\ UNCHANGED <<text, hashes, last, factory, events, touched>>

Collect(s) ==
    /\ use[s] = "garbage"
    /\ use' = [use EXCEPT ![s] = "free"]
    /\ touched' = touched \cup Pointing(s)
    /\ UNCHANGED <<text, hashes, last, factory, events>>

\* EventFactory.new: @headers is the Hash of its config, or DEFAULT_HEADERS; a name
\* that is not given is made from the UUID.
NewFactory(f, hash, fields, m, named) ==
    /\ factory[f] = None
    /\ factory' = [factory EXCEPT ![f] =
           [hash |-> hash, msg |-> m,
            fields |-> IF named THEN fields
                       ELSE [fields EXCEPT !["name"] = NameFrom[fields["uuid"]]]]]
    /\ UNCHANGED <<text, use, hashes, last, events, touched>>

\* factory.group = x, and so on.
SetField(f, field, x) ==
    /\ factory[f] # None
    /\ factory' = [factory EXCEPT ![f].fields[field] = x]
    /\ UNCHANGED <<text, use, hashes, last, events, touched>>

\* factory.headers = hash
SetHeaders(f, hash) ==
    /\ factory[f] # None
    /\ factory' = [factory EXCEPT ![f].hash = hash]
    /\ UNCHANGED <<text, use, hashes, last, events, touched>>

\* factory.headers[k] = x
SetHeader(f, k, x) ==
    /\ factory[f] # None
    /\ hashes' = [hashes EXCEPT ![factory[f].hash] = Put(@, k, x)]
    /\ last' = [last EXCEPT ![factory[f].hash][k] = x]
    /\ UNCHANGED <<text, use, factory, events, touched>>

\* Mutant: the headers are those of DEFAULT_HEADERS.
MergedDefault(f, over, x, m) ==
    [fields |-> [field \in Fields |-> IF field \in over THEN x
                                      ELSE factory[f].fields[field]],
     msg |-> IF m = None THEN factory[f].msg ELSE m,
     headers |-> Normalize(hashes[Default])]

\* What an event method passes on: the factory's values, and x for those of over.
Merged(f, over, x, m) ==
    [fields |-> [field \in Fields |-> IF field \in over THEN x
                                      ELSE factory[f].fields[field]],
     msg |-> IF m = None THEN factory[f].msg ELSE m,
     headers |-> Normalize(hashes[factory[f].hash])]

\* What was last set under the keys of a Hash that become the name n.
LastSet(hash, n) == {last[hash][k] : k \in {k \in Keys : NameOf[k] = n}} \ {None}

\* An event method of a factory, with overrides.  The values of the headers are new
\* strings that nothing refers to afterwards.
Generate(f, type, over, x, m) ==
    /\ factory[f] # None /\ type # "STOP"
    /\ LET merged == Merged(f, over, x, m)
           present == {n \in Names : "headers" \in Has(type) /\ merged.headers[n] # None}
       IN  \E new \in Injection(present, Free) :
            /\ text' = [s \in Strings |->
                           IF \E n \in present : new[n] = s
                           THEN merged.headers[CHOOSE n \in present : new[n] = s]
                           ELSE text[s]]
            /\ use' = [s \in Strings |->
                          IF \E n \in present : new[n] = s THEN "garbage" ELSE use[s]]
            /\ Synthesize(type,
                   [fields |-> [field \in Fields |-> Copy(merged.fields[field])],
                    msg |-> merged.msg,
                    headers |-> [n \in Names |->
                        IF n \in present THEN [at |-> new[n], text |-> merged.headers[n]]
                        ELSE Nil]],
                   [merged EXCEPT !.headers =
                       [n \in Names |-> LastSet(factory[f].hash, n)]], f)
    /\ UNCHANGED <<hashes, last, factory, touched>>

\* A call of synthesize with the program's own string s for the fields of own.
Direct(type, own, s, m, values) ==
    /\ "uuid" \in own
    /\ LET fields == [field \in Fields |-> IF field \in own THEN Pointer(s) ELSE Nil]
       IN  Synthesize(type, [fields |-> fields, msg |-> m, headers |-> values],
               [fields |-> [field \in Fields |-> fields[field].text], msg |-> m,
                headers |-> [n \in Names |-> {values[n].text} \ {None}]], None)
    /\ UNCHANGED <<text, use, hashes, last, factory, touched>>

\* At most one string is overridden in a call.
Overrides == {{}} \cup {{field} : field \in Fields}

OwnStrings == {Nil} \cup {Pointer(s) : s \in Held}

Next ==
    \/ \E s \in Strings : Drop(s) \/ Collect(s)
    \/ \E s \in Strings, x \in Texts : NewString(s, x) \/ Mutate(s, x)
    \/ \E f \in Factories, hash \in Hashes, x \in Texts, m \in Messages,
          named \in BOOLEAN : NewFactory(f, hash, [field \in Fields |-> x], m, named)
    \/ \E f \in Factories, field \in Settable, x \in Texts : SetField(f, field, x)
    \/ \E f \in Factories, hash \in Hashes : SetHeaders(f, hash)
    \/ \E f \in Factories, k \in Keys, x \in Texts : SetHeader(f, k, x)
    \/ /\ Len(events) < MaxEvents
       /\ \/ \E f \in Factories, type \in Types, over \in Overrides, x \in Texts,
                m \in Messages \cup {None} : Generate(f, type, over, x, m)
          \/ \E type \in Types, own \in SUBSET Fields, s \in Held,
                m \in Messages \cup {None}, values \in [Names -> OwnStrings] :
                Direct(type, own, s, m, values)

Spec == Init /\ [][Next]_vars

-----------------------------------------------------------------------------
(* Properties.                                                             *)

\* What a field of the structure, and what an event as it was made, can be.
Values == [at : Strings \cup {None}, text : Texts \cup {None}]
Copies == [at : {None}, text : Texts \cup {None}]

EventRecords == [type : Types, fields : [Fields -> Copies], msg : Messages \cup {None},
                 headers : [Names -> Values]]
AskedRecords == [fields : [Fields -> Texts \cup {None}], msg : Messages \cup {None},
                 headers : [Names -> SUBSET Texts]]
MadeRecords == [event : EventRecords, asked : AskedRecords,
                from : Factories \cup {None}]
FactoryRecords == [hash : Hashes, msg : Messages, fields : [Fields -> Texts]]

DistinctKeys(hash) == \A j, k \in DOMAIN hash : j # k => hash[j].key # hash[k].key

\* Every variable has the shape its comment gives it; the strings of an event are
\* copies, but for those of its headers; and the keys of a Hash are distinct.
TypeOK ==
    /\ text \in [Strings -> Texts]
    /\ use \in [Strings -> {"free", "held", "garbage"}]
    /\ hashes \in [Hashes -> Seq(Pairs)]
    /\ \A h \in Hashes : DistinctKeys(hashes[h])
    /\ last \in [Hashes -> [Keys -> Texts \cup {None}]]
    /\ factory \in [Factories -> FactoryRecords \cup {None}]
    /\ events \in Seq(MadeRecords)
    /\ touched \subseteq (DOMAIN events) \X Names

\* The accessors of an event give the fields of its type and no others, each as it was
\* given or as its factory had it, whatever becomes of the strings they were given
\* in; a name that was not given comes from the UUID, and what needs a group, an
\* address or a message has one (event.c:118-141, 231-265; testing.rb:131-232).
FieldsAreKept ==
    \A j \in DOMAIN events :
        LET e == events[j].event
            asked == events[j].asked
        IN  /\ \A field \in {"uuid", "addr", "group"} :
                   IF field \in Has(e.type)
                   THEN asked.fields[field] # None /\ Field(e, field) = asked.fields[field]
                   ELSE Field(e, field) = None
            /\ Field(e, "name") = IF asked.fields["name"] # None THEN asked.fields["name"]
                                  ELSE NameFrom[asked.fields["uuid"]]
            /\ IF "msg" \in Has(e.type)
               THEN /\ multipart_msg(e) = asked.msg /\ msg_size(e) = Len(asked.msg)
                    /\ multipart(e) <=> Len(asked.msg) > 1
                    /\ asked.msg # <<>> => msg(e) = Head(asked.msg)
               ELSE /\ multipart_msg(e) = <<>> /\ msg_size(e) = None
                    /\ ~multipart(e) /\ msg(e) = None

\* What a header should read, where a set of texts was asked for: one of them, and nil
\* if there is none.
IsAsked(x, asked) == IF asked = {} THEN x = None ELSE x \in asked

\* A header of an event reads as it was last set under a key of its name, in the Hash
\* its factory had by then, or as it was given to synthesize, and goes on to do so
\* until its own string is changed or collected: later headers of a Hash that other
\* factories share, events, and strings the program makes or lets go of take nothing
\* from it (event.c:143-171, 254-262; zyre.rb:37-51; testing.rb:75, 108-137).
HeadersKeptWhileIntact ==
    \A j \in DOMAIN events, n \in Names :
        LET e == events[j].event
            v == e.headers[n]
        IN  /\ "headers" \in Has(e.type)
            /\ v.at = None \/ <<j, n>> \notin touched
            => IsAsked(headers(e)[n], events[j].asked.headers[n])

-----------------------------------------------------------------------------
(* What a test of the repository says, and the code does not always do.    *)

\* spec/zyre/testing_spec.rb:61: an ENTER event of a factory has the headers that
\* it was made with.
HeadersAreKept ==
    \A j \in DOMAIN events :
        events[j].event.type = "ENTER" /\ events[j].from # None =>
            \A n \in Names :
                IsAsked(headers(events[j].event)[n], events[j].asked.headers[n])

=============================================================================
