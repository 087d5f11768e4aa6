-------------------------- MODULE EventObjectProofs --------------------------
(***************************************************************************)
(* What holds of EventObject for any strings, Hashes, factories, messages  *)
(* and number of events.                                                   *)
(***************************************************************************)
EXTENDS EventObject, SequenceTheorems, WellFoundedInduction, TLAPS

(***************************************************************************)
(* Header Hashes.                                                          *)
(***************************************************************************)

\* A set of places in a sequence that is not empty has a last one.
LEMMA LastPlace ==
    ASSUME NEW n \in Nat, NEW places \in SUBSET (1..n), places # {}
    PROVE  \E j \in places : \A k \in places : j >= k
<1> DEFINE Back == {n - j : j \in places}
<1>1. Back \subseteq Nat
  OBVIOUS
<1>2. Back # {}
  OBVIOUS
<1>3. PICK x \in Back : \A y \in Back : ~(<<y, x>> \in OpToRel(<, Nat))
  BY <1>1, <1>2, NatLessThanWellFounded, WFMin
<1>4. PICK j \in places : x = n - j
  OBVIOUS
<1>5. ASSUME NEW k \in places PROVE j >= k
  <2>1. n - k \in Back /\ n - k \in Nat /\ x \in Nat
    BY <1>1
  <2>2. ~(n - k < x)
    BY <2>1, <1>3 DEF OpToRel
  <2>3. QED
    BY <2>2, <1>4
<1>6. QED
  BY <1>5

\* A normalized Hash has a text for each name, or none.
LEMMA NormalizeType ==
    ASSUME NEW hash \in Seq(Pairs)
    PROVE  Normalize(hash) \in [Names -> Texts \cup {None}]
<1> SUFFICES ASSUME NEW n \in Names PROVE Normalize(hash)[n] \in Texts \cup {None}
  BY DEF Normalize
<1> DEFINE places == {j \in DOMAIN hash : NameOf[hash[j].key] = n}
           top == CHOOSE j \in places : \A k \in places : j >= k
<1>1. Normalize(hash)[n] = IF places = {} THEN None ELSE hash[top].value
  BY DEF Normalize
<1>2. CASE places = {}
  BY <1>1, <1>2
<1>3. CASE places # {}
  <2>1. Len(hash) \in Nat /\ places \in SUBSET (1..Len(hash))
    BY LenProperties
  <2>2. \E j \in places : \A k \in places : j >= k
    BY <2>1, <1>3, LastPlace
  <2>3. top \in places
    BY <2>2
  <2>4. hash[top] \in Pairs
    BY <2>1, <2>3, ElementOfSeq
  <2>5. QED
    BY <1>1, <1>3, <2>4 DEF Pairs
<1>4. QED
  BY <1>2, <1>3

\* A Hash stays a Hash with distinct keys when a key is set.
LEMMA PutType ==
    ASSUME NEW hash \in Seq(Pairs), NEW k \in Keys, NEW x \in Texts,
           DistinctKeys(hash)
    PROVE  Put(hash, k, x) \in Seq(Pairs) /\ DistinctKeys(Put(hash, k, x))
<1> DEFINE new == [key |-> k, value |-> x]
<1>1. new \in Pairs /\ new.key = k
  BY DEF Pairs
<1>2. Len(hash) \in Nat /\ DOMAIN hash = 1..Len(hash)
      /\ \A j \in 1..Len(hash) : hash[j] \in Pairs
  BY LenProperties, ElementOfSeq
<1> HIDE DEF new
<1>3. CASE IndexOf(hash, k) = {}
  <2>1. Put(hash, k, x) = Append(hash, new)
    BY <1>3 DEF Put, new
  <2>2. /\ Append(hash, new) \in Seq(Pairs) /\ DOMAIN Append(hash, new) = 1..(Len(hash) + 1)
        /\ Append(hash, new)[Len(hash) + 1] = new
        /\ \A j \in 1..Len(hash) : Append(hash, new)[j] = hash[j]
    BY <1>1, <1>2, AppendProperties
  <2>3. \A j \in 1..Len(hash) : hash[j].key # k
    BY <1>2, <1>3 DEF IndexOf
  <2>4. QED
    BY <1>1, <1>2, <2>1, <2>2, <2>3 DEF DistinctKeys
<1>4. CASE IndexOf(hash, k) # {}
  <2>1. Put(hash, k, x) = [j \in DOMAIN hash |-> IF hash[j].key = k THEN new ELSE hash[j]]
    BY <1>4 DEF Put, new
  <2>2. Put(hash, k, x) \in [1..Len(hash) -> Pairs]
    BY <1>1, <1>2, <2>1
  <2>3. \A j \in 1..Len(hash) : Put(hash, k, x)[j].key = hash[j].key
    BY <1>1, <1>2, <2>1
  <2>4. QED
    BY <1>2, <2>2, <2>3, SeqDef DEF DistinctKeys
<1>5. QED
  BY <1>3, <1>4

\* The value of a name is that of the last key that gives it.
LEMMA NormalizeAt ==
    ASSUME NEW hash \in Seq(Pairs), NEW n \in Names, NEW j \in DOMAIN hash,
           NameOf[hash[j].key] = n,
           \A i \in DOMAIN hash : NameOf[hash[i].key] = n => j >= i
    PROVE  Normalize(hash)[n] = hash[j].value
<1> DEFINE places == {i \in DOMAIN hash : NameOf[hash[i].key] = n}
           top == CHOOSE i \in places : \A k \in places : i >= k
<1>1. Normalize(hash)[n] = IF places = {} THEN None ELSE hash[top].value
  BY DEF Normalize
<1>2. j \in places /\ \A i \in places : j >= i
  OBVIOUS
<1>3. top \in places /\ \A i \in places : top >= i
  BY <1>2
<1>4. \A i \in places : i \in Nat
  BY LenProperties
<1> HIDE DEF places, top
<1>5. top >= j /\ j >= top /\ top \in Nat /\ j \in Nat
  BY <1>2, <1>3, <1>4
<1>6. top = j
  BY <1>5
<1>7. QED
  BY <1>1, <1>2, <1>6

\* A name that no key gives has no value.
LEMMA NormalizeNone ==
    ASSUME NEW hash, NEW n \in Names, \A j \in DOMAIN hash : NameOf[hash[j].key] # n
    PROVE  Normalize(hash)[n] = None
<1>1. {j \in DOMAIN hash : NameOf[hash[j].key] = n} = {}
  OBVIOUS
<1>2. QED
  BY <1>1 DEF Normalize

\* When a key is set its pair has the value, and the other pairs are those that were
\* there.
LEMMA PutPairs ==
    ASSUME NEW hash \in Seq(Pairs), NEW k \in Keys, NEW x \in Texts
    PROVE  LET put == Put(hash, k, x)
           IN  /\ \A j \in DOMAIN put :
                      \/ put[j].key = k /\ put[j].value = x
                      \/ put[j].key # k /\ j \in DOMAIN hash /\ put[j] = hash[j]
               /\ \E j \in DOMAIN put : put[j].key = k
               /\ \A j \in DOMAIN hash : j \in DOMAIN put /\ put[j].key = hash[j].key
<1> DEFINE new == [key |-> k, value |-> x]
           put == Put(hash, k, x)
<1>1. new \in Pairs /\ new.key = k /\ new.value = x
  BY DEF Pairs
<1>2. Len(hash) \in Nat /\ DOMAIN hash = 1..Len(hash)
  BY LenProperties
<1> HIDE DEF new
<1>3. CASE IndexOf(hash, k) = {}
  <2>1. put = Append(hash, new)
    BY <1>3 DEF Put, new
  <2>2. /\ DOMAIN put = 1..(Len(hash) + 1) /\ put[Len(hash) + 1] = new
        /\ \A j \in 1..Len(hash) : put[j] = hash[j]
    BY <1>1, <1>2, <2>1, AppendProperties
  <2>3. \A j \in DOMAIN hash : hash[j].key # k
    BY <1>3 DEF IndexOf
  <2> HIDE DEF put
  <2>4. Len(hash) + 1 \in DOMAIN put
    BY <1>2, <2>2
  <2>5. \A j \in DOMAIN put : j = Len(hash) + 1 \/ j \in DOMAIN hash
    BY <1>2, <2>2
  <2>6. QED
    BY <1>1, <1>2, <2>2, <2>3, <2>4, <2>5 DEF put
<1>4. CASE IndexOf(hash, k) # {}
  <2>1. put = [j \in DOMAIN hash |-> IF hash[j].key = k THEN new ELSE hash[j]]
    BY <1>4 DEF Put, new
  <2>2. \E j \in DOMAIN hash : hash[j].key = k
    BY <1>4 DEF IndexOf
  <2> HIDE DEF put
  <2>3. QED
    BY <1>1, <2>1, <2>2 DEF put
<1>5. QED
  BY <1>3, <1>4

(***************************************************************************)
(* The structure that synthesize makes.                                    *)
(***************************************************************************)

\* What FieldsAreKept says, with the copies in place of the accessors.
Kept(e, asked) ==
    /\ \A field \in {"uuid", "addr", "group"} :
           IF field \in Has(e.type)
           THEN asked.fields[field] # None /\ e.fields[field].text = asked.fields[field]
           ELSE e.fields[field].text = None
    /\ e.fields["name"].text = IF asked.fields["name"] # None THEN asked.fields["name"]
                               ELSE NameFrom[asked.fields["uuid"]]
    /\ IF "msg" \in Has(e.type) THEN asked.msg # None /\ e.msg = asked.msg
       ELSE e.msg = None

KeptInv == \A j \in DOMAIN events : Kept(events[j].event, events[j].asked)

\* The values a caller can give: a field that is nil has no text, and others have one.
GivenRecords ==
    [fields : [Fields -> Values], msg : Messages \cup {None}, headers : [Names -> Values]]

LEMMA StructureIs ==
    ASSUME NEW type, NEW given
    PROVE  LET e == Structure(type, given)
           IN  /\ e.type = type
               /\ e.msg = IF "msg" \in Has(type) THEN given.msg ELSE None
               /\ e.fields["name"] = PeerName(given)
               /\ \A field \in {"uuid", "addr", "group"} :
                      e.fields[field] = IF field \in Has(type)
                                        THEN Copied(given.fields[field]) ELSE Nil
  BY DEF Structure, Fields

LEMMA StructureType ==
    ASSUME NEW type \in Types, NEW given \in GivenRecords,
           given.fields["uuid"].text \in Texts
    PROVE  Structure(type, given) \in EventRecords
<1>1. /\ \A field \in Fields : given.fields[field] \in Values
      /\ given.msg \in Messages \cup {None} /\ given.headers \in [Names -> Values]
  BY DEF GivenRecords
<1>2. Nil \in Copies /\ Nil \in Values
  BY DEF Nil, Copy, Copies, Values
<1>3. \A field \in Fields : Copied(given.fields[field]) \in Copies
  BY <1>1 DEF Copied, Copy, Copies, Values
<1>4. PeerName(given) \in Copies
  BY <1>3, NameFromAssumption DEF PeerName, Copy, Copies, Fields
<1>5. Structure(type, given).fields \in [Fields -> Copies]
  BY <1>2, <1>3, <1>4 DEF Structure
<1>6. Structure(type, given).headers \in [Names -> Values]
  BY <1>1, <1>2 DEF Structure
<1>7. Structure(type, given).msg \in Messages \cup {None}
  BY <1>1 DEF Structure
<1>8. QED
  BY <1>5, <1>6, <1>7 DEF Structure, EventRecords

LEMMA StructureKeeps ==
    ASSUME NEW type \in Types, NEW given \in GivenRecords, NEW asked \in AskedRecords,
           \A field \in Fields : asked.fields[field] = given.fields[field].text,
           \A field \in Fields : given.fields[field] # Nil => given.fields[field].text \in Texts,
           asked.msg = given.msg,
           \A field \in Required(type) : IsGiven(given, field),
           given.fields["uuid"].text \in Texts
    PROVE  Kept(Structure(type, given), asked)
<1> DEFINE e == Structure(type, given)
<1>1. /\ e.type = type
      /\ e.msg = IF "msg" \in Has(type) THEN given.msg ELSE None
      /\ e.fields["name"] = PeerName(given)
      /\ \A field \in {"uuid", "addr", "group"} :
             e.fields[field] = IF field \in Has(type)
                               THEN Copied(given.fields[field]) ELSE Nil
  BY StructureIs
<1> HIDE DEF e
<1>2. {"uuid", "addr", "group", "name"} = Fields /\ None \notin Texts
  BY NoneAssumption DEF Fields
<1>3. ASSUME NEW field \in {"uuid", "addr", "group"}
      PROVE  IF field \in Has(type)
             THEN asked.fields[field] # None /\ e.fields[field].text = asked.fields[field]
             ELSE e.fields[field].text = None
  <2>1. CASE field \in Has(type)
    <3>1. field \in Required(type) /\ field # "msg"
      BY <2>1 DEF Required
    <3>2. given.fields[field] # Nil
      BY <3>1 DEF IsGiven
    <3>3. QED
      BY <1>1, <1>2, <2>1, <3>2 DEF Copied, Copy
  <2>2. CASE field \notin Has(type)
    BY <1>1, <2>2 DEF Nil, Copy
  <2>3. QED
    BY <2>1, <2>2
<1>4. e.fields["name"].text = IF asked.fields["name"] # None THEN asked.fields["name"]
                              ELSE NameFrom[asked.fields["uuid"]]
  <2>1. CASE given.fields["name"] = Nil
    <3>1. asked.fields["name"] = None
      BY <1>2, <2>1 DEF Nil, Copy
    <3>2. QED
      BY <1>1, <1>2, <2>1, <3>1 DEF PeerName, Copy
  <2>2. CASE given.fields["name"] # Nil
    BY <1>1, <1>2, <2>2 DEF PeerName, Copied, Copy
  <2>3. QED
    BY <2>1, <2>2
<1>5. IF "msg" \in Has(type) THEN asked.msg # None /\ e.msg = asked.msg ELSE e.msg = None
  <2>1. "msg" \in Has(type) => IsGiven(given, "msg")
    BY DEF Required
  <2>2. QED
    BY <1>1, <2>1 DEF IsGiven
<1>6. QED
  BY <1>1, <1>3, <1>4, <1>5 DEF Kept, e

\* synthesize adds an event whose fields are as they were given.
LEMMA SynthesizeKeeps ==
    ASSUME TypeOK, KeptInv,
           NEW type \in Types, NEW given \in GivenRecords, NEW asked \in AskedRecords,
           NEW from \in Factories \cup {None},
           Synthesize(type, given, asked, from),
           \A field \in Fields : asked.fields[field] = given.fields[field].text,
           \A field \in Fields : given.fields[field] # Nil => given.fields[field].text \in Texts,
           asked.msg = given.msg,
           given.fields["uuid"].text \in Texts
    PROVE  events' \in Seq(MadeRecords) /\ KeptInv' /\ DOMAIN events \subseteq DOMAIN events'
<1> DEFINE made == [event |-> Structure(type, given), asked |-> asked, from |-> from]
<1>1. events' = Append(events, made)
  BY DEF Synthesize
<1>2. made \in MadeRecords
  BY StructureType DEF MadeRecords
<1>3. Kept(made.event, made.asked)
  BY StructureKeeps DEF Synthesize
<1> HIDE DEF made
<1>4. events \in Seq(MadeRecords) /\ DOMAIN events = 1..Len(events) /\ Len(events) \in Nat
  BY LenProperties DEF TypeOK
<1>5. /\ events' \in Seq(MadeRecords) /\ DOMAIN events' = 1..(Len(events) + 1)
      /\ events'[Len(events) + 1] = made
      /\ \A j \in 1..Len(events) : events'[j] = events[j]
  BY <1>1, <1>2, <1>4, AppendProperties
<1>6. ASSUME NEW j \in DOMAIN events'
      PROVE  Kept(events'[j].event, events'[j].asked)
  <2>1. CASE j = Len(events) + 1
    BY <1>3, <1>5, <2>1
  <2>2. CASE j # Len(events) + 1
    BY <1>4, <1>5, <2>2 DEF KeptInv
  <2>3. QED
    BY <2>1, <2>2
<1>7. DOMAIN events \subseteq DOMAIN events'
  BY <1>4, <1>5
<1>8. QED
  BY <1>5, <1>6, <1>7 DEF KeptInv, Kept

(***************************************************************************)
(* The steps.                                                              *)
(***************************************************************************)

Inv == TypeOK /\ KeptInv

\* A step of the program or of a factory that makes no event.
LEMMA EventsStay ==
    ASSUME KeptInv, events' = events
    PROVE  KeptInv'
  BY DEF KeptInv, Kept

LEMMA PointerType ==
    ASSUME TypeOK, NEW s \in Strings
    PROVE  Pointer(s) \in Values /\ Pointer(s) # Nil /\ Pointer(s).text \in Texts
  BY NoneAssumption DEF TypeOK, Pointer, Values, Nil, Copy

\* What the Hash and the fields of a factory give to an event method.
LEMMA MergedType ==
    ASSUME TypeOK, NEW f \in Factories, factory[f] # None, NEW over \in Overrides,
           NEW x \in Texts, NEW m \in Messages \cup {None}
    PROVE  /\ Merged(f, over, x, m).fields \in [Fields -> Texts]
           /\ Merged(f, over, x, m).msg \in Messages
           /\ Merged(f, over, x, m).headers \in [Names -> Texts \cup {None}]
<1>1. /\ factory[f].hash \in Hashes /\ factory[f].msg \in Messages
      /\ factory[f].fields \in [Fields -> Texts]
  BY DEF TypeOK, FactoryRecords
<1>2. hashes[factory[f].hash] \in Seq(Pairs)
  BY <1>1 DEF TypeOK
<1>3. Normalize(hashes[factory[f].hash]) \in [Names -> Texts \cup {None}]
  BY <1>2, NormalizeType
<1>4. QED
  BY <1>1, <1>3 DEF Merged

LEMMA GenerateKeeps ==
    ASSUME Inv, NEW f \in Factories, NEW type \in Types, NEW over \in Overrides,
           NEW x \in Texts, NEW m \in Messages \cup {None}, Generate(f, type, over, x, m)
    PROVE  Inv'
<1> DEFINE merged == Merged(f, over, x, m)
           asked == [merged EXCEPT !.headers =
                        [n \in Names |-> LastSet(factory[f].hash, n)]]
           present == {n \in Names : "headers" \in Has(type) /\ merged.headers[n] # None}
<1>1. PICK new \in Injection(present, Free) :
         /\ text' = [s \in Strings |->
                        IF \E n \in present : new[n] = s
                        THEN merged.headers[CHOOSE n \in present : new[n] = s]
                        ELSE text[s]]
         /\ use' = [s \in Strings |->
                       IF \E n \in present : new[n] = s THEN "garbage" ELSE use[s]]
         /\ Synthesize(type,
                [fields |-> [field \in Fields |-> Copy(merged.fields[field])],
                 msg |-> merged.msg,
                 headers |-> [n \in Names |->
                     IF n \in present THEN [at |-> new[n], text |-> merged.headers[n]]
                     ELSE Nil]],
                asked, f)
  BY DEF Generate
<1> DEFINE given == [fields |-> [field \in Fields |-> Copy(merged.fields[field])],
                     msg |-> merged.msg,
                     headers |-> [n \in Names |->
                         IF n \in present THEN [at |-> new[n], text |-> merged.headers[n]]
                         ELSE Nil]]
<1>2. /\ merged.fields \in [Fields -> Texts] /\ merged.msg \in Messages
      /\ merged.headers \in [Names -> Texts \cup {None}]
  BY MergedType DEF Generate, Inv
<1>3. /\ asked \in AskedRecords /\ asked.fields = merged.fields /\ asked.msg = merged.msg
  <2>1. factory[f].hash \in Hashes
    BY DEF Generate, Inv, TypeOK, FactoryRecords
  <2>2. \A n \in Names : LastSet(factory[f].hash, n) \in SUBSET Texts
    BY <2>1 DEF LastSet, Inv, TypeOK
  <2>3. /\ asked.fields = merged.fields /\ asked.msg = merged.msg
        /\ asked = [fields |-> merged.fields, msg |-> merged.msg,
                    headers |-> [n \in Names |-> LastSet(factory[f].hash, n)]]
    <3>1. PICK fields, m1, h1 : merged = [fields |-> fields, msg |-> m1, headers |-> h1]
      BY DEF Merged
    <3> HIDE DEF merged
    <3>2. QED
      BY <3>1
  <2>4. QED
    BY <1>2, <2>2, <2>3 DEF AskedRecords
<1>4. Synthesize(type, given, asked, f)
  BY <1>1
<1>5. \A n \in present : new[n] \in Strings /\ merged.headers[n] \in Texts
  BY <1>2 DEF Injection, Free
<1>6. text' \in [Strings -> Texts]
  <2> SUFFICES ASSUME NEW s \in Strings PROVE text'[s] \in Texts
    BY <1>1
  <2>1. CASE \E n \in present : new[n] = s
    <3>1. (CHOOSE n \in present : new[n] = s) \in present
      BY <2>1
    <3>2. QED
      BY <1>1, <1>5, <2>1, <3>1
  <2>2. CASE ~\E n \in present : new[n] = s
    BY <1>1, <2>2 DEF Inv, TypeOK
  <2>3. QED
    BY <2>1, <2>2
<1>7. use' \in [Strings -> {"free", "held", "garbage"}]
  BY <1>1 DEF Inv, TypeOK
<1> HIDE DEF merged, present, asked
<1>8. /\ given.fields = [field \in Fields |-> Copy(merged.fields[field])]
      /\ given.msg = merged.msg
      /\ given.headers = [n \in Names |->
             IF n \in present THEN [at |-> new[n], text |-> merged.headers[n]] ELSE Nil]
  OBVIOUS
<1>9. given.fields \in [Fields -> Values] /\ given.headers \in [Names -> Values]
  BY <1>2, <1>5, <1>8 DEF Copy, Values, Nil
<1>10. given \in GivenRecords
  BY <1>2, <1>8, <1>9 DEF GivenRecords
<1>11. \A field \in Fields : /\ given.fields[field].text = merged.fields[field]
                             /\ merged.fields[field] \in Texts
  BY <1>2, <1>8 DEF Copy
<1>12. "uuid" \in Fields
  BY DEF Fields
<1> HIDE DEF given
<1>13. events' \in Seq(MadeRecords) /\ KeptInv' /\ DOMAIN events \subseteq DOMAIN events'
  BY <1>3, <1>4, <1>8, <1>10, <1>11, <1>12, SynthesizeKeeps DEF Inv
<1>14. QED
  BY <1>6, <1>7, <1>13 DEF Inv, TypeOK, Generate

LEMMA DirectKeeps ==
    ASSUME Inv, NEW type \in Types, NEW own \in SUBSET Fields, NEW s \in Held,
           NEW m \in Messages \cup {None}, NEW values \in [Names -> OwnStrings],
           Direct(type, own, s, m, values)
    PROVE  Inv'
<1> DEFINE fields == [field \in Fields |-> IF field \in own THEN Pointer(s) ELSE Nil]
           given == [fields |-> fields, msg |-> m, headers |-> values]
           asked == [fields |-> [field \in Fields |-> fields[field].text], msg |-> m,
                     headers |-> [n \in Names |-> {values[n].text} \ {None}]]
<1>1. Synthesize(type, given, asked, None) /\ "uuid" \in own
  BY DEF Direct
<1>2. \A z \in Held : Pointer(z) \in Values /\ Pointer(z) # Nil /\ Pointer(z).text \in Texts
  BY PointerType DEF Inv, Held
<1>3. Nil \in Values /\ Nil.text = None
  BY DEF Nil, Copy, Values
<1>4. values \in [Names -> Values]
  BY <1>2, <1>3 DEF OwnStrings
<1>5. fields \in [Fields -> Values]
      /\ \A field \in Fields : fields[field] # Nil => fields[field].text \in Texts
  BY <1>2, <1>3
<1>6. fields["uuid"].text \in Texts /\ "uuid" \in Fields
  BY <1>1, <1>2
<1> HIDE DEF fields
<1>7. /\ given.fields = fields /\ given.msg = m /\ given.headers = values
      /\ asked.fields = [field \in Fields |-> fields[field].text] /\ asked.msg = m
      /\ asked.headers = [n \in Names |-> {values[n].text} \ {None}]
  OBVIOUS
<1>8. given \in GivenRecords
  BY <1>4, <1>5 DEF GivenRecords
<1>9. /\ [field \in Fields |-> fields[field].text] \in [Fields -> Texts \cup {None}]
      /\ [n \in Names |-> {values[n].text} \ {None}] \in [Names -> SUBSET Texts]
  BY <1>4, <1>5 DEF Values
<1>10. asked \in AskedRecords
  BY <1>9 DEF AskedRecords
<1>11. \A field \in Fields : asked.fields[field] = given.fields[field].text
  BY <1>7
<1> HIDE DEF given, asked
<1>12. events' \in Seq(MadeRecords) /\ KeptInv' /\ DOMAIN events \subseteq DOMAIN events'
  BY <1>1, <1>5, <1>6, <1>7, <1>8, <1>10, <1>11, SynthesizeKeeps DEF Inv
<1>13. QED
  BY <1>12 DEF Inv, TypeOK, Direct

LEMMA NewFactoryKeeps ==
    ASSUME Inv, NEW f \in Factories, NEW hash \in Hashes, NEW x \in Texts,
           NEW m \in Messages, NEW named \in BOOLEAN,
           NewFactory(f, hash, [field \in Fields |-> x], m, named)
    PROVE  Inv'
<1> DEFINE fields == [field \in Fields |-> x]
           mine == IF named THEN fields
                   ELSE [fields EXCEPT !["name"] = NameFrom[fields["uuid"]]]
<1>1. mine \in [Fields -> Texts]
  BY NameFromAssumption DEF Fields
<1>2. factory' = [factory EXCEPT ![f] = [hash |-> hash, msg |-> m, fields |-> mine]]
  BY DEF NewFactory
<1> HIDE DEF mine
<1>3. [hash |-> hash, msg |-> m, fields |-> mine] \in FactoryRecords
  BY <1>1 DEF FactoryRecords
<1>4. factory' \in [Factories -> FactoryRecords \cup {None}]
  BY <1>2, <1>3 DEF Inv, TypeOK
<1>5. QED
  BY <1>4, EventsStay DEF Inv, TypeOK, NewFactory

LEMMA SetFieldKeeps ==
    ASSUME Inv, NEW f \in Factories, NEW field \in Settable, NEW x \in Texts,
           SetField(f, field, x)
    PROVE  Inv'
<1>1. factory[f] \in FactoryRecords
  BY DEF Inv, TypeOK, SetField
<1>2. [factory[f] EXCEPT !.fields[field] = x] \in FactoryRecords
  BY <1>1, SettableAssumption DEF FactoryRecords, Fields
<1>3. factory' \in [Factories -> FactoryRecords \cup {None}]
  BY <1>2 DEF Inv, TypeOK, SetField
<1>4. QED
  BY <1>3, EventsStay DEF Inv, TypeOK, SetField

LEMMA SetHeadersKeeps ==
    ASSUME Inv, NEW f \in Factories, NEW hash \in Hashes, SetHeaders(f, hash)
    PROVE  Inv'
<1>1. factory[f] \in FactoryRecords
  BY DEF Inv, TypeOK, SetHeaders
<1>2. [factory[f] EXCEPT !.hash = hash] \in FactoryRecords
  BY <1>1 DEF FactoryRecords
<1>3. factory' \in [Factories -> FactoryRecords \cup {None}]
  BY <1>2 DEF Inv, TypeOK, SetHeaders
<1>4. QED
  BY <1>3, EventsStay DEF Inv, TypeOK, SetHeaders

LEMMA SetHeaderKeeps ==
    ASSUME Inv, NEW f \in Factories, NEW k \in Keys, NEW x \in Texts, SetHeader(f, k, x)
    PROVE  Inv'
<1> DEFINE h == factory[f].hash
           new == Put(hashes[h], k, x)
<1>1. h \in Hashes
  BY DEF Inv, TypeOK, SetHeader, FactoryRecords
<1>2. hashes[h] \in Seq(Pairs) /\ DistinctKeys(hashes[h])
  BY <1>1 DEF Inv, TypeOK
<1>3. new \in Seq(Pairs) /\ DistinctKeys(new)
  BY <1>2, PutType
<1>4. hashes' = [hashes EXCEPT ![h] = new]
  BY DEF SetHeader
<1> HIDE DEF h, new
<1>5. hashes' \in [Hashes -> Seq(Pairs)]
  BY <1>1, <1>3, <1>4 DEF Inv, TypeOK
<1>6. \A g \in Hashes : hashes'[g] = IF g = h THEN new ELSE hashes[g]
  BY <1>1, <1>4 DEF Inv, TypeOK
<1>7. \A g \in Hashes : DistinctKeys(hashes'[g])
  BY <1>3, <1>6 DEF Inv, TypeOK
<1>8. TypeOK'
  <2>1. UNCHANGED <<text, use, factory, events, touched>>
    BY DEF SetHeader
  <2>2. last' = [last EXCEPT ![h][k] = x]
    BY DEF SetHeader, h
  <2>3. last' \in [Hashes -> [Keys -> Texts \cup {None}]]
    BY <1>1, <2>2 DEF Inv, TypeOK
  <2>4. QED
    BY <1>5, <1>7, <2>1, <2>3 DEF Inv, TypeOK
<1>9. KeptInv'
  BY EventsStay DEF Inv, SetHeader
<1>10. QED
  BY <1>8, <1>9 DEF Inv

LEMMA InitInv == Init => Inv
<1> SUFFICES ASSUME Init PROVE Inv
  OBVIOUS
<1>1. (CHOOSE x \in Texts : TRUE) \in Texts
  BY TextsAssumption
<1>2. TypeOK
  <2>1. <<>> \in Seq(Pairs) /\ <<>> \in Seq(MadeRecords) /\ DOMAIN <<>> = {}
    BY EmptySeq
  <2>2. \A h \in Hashes : hashes[h] = <<>>
    BY DEF Init
  <2>3. hashes \in [Hashes -> Seq(Pairs)]
    BY <2>1 DEF Init
  <2>4. \A h \in Hashes : DOMAIN hashes[h] = {}
    BY <2>1, <2>2
  <2>5. text \in [Strings -> Texts] /\ events \in Seq(MadeRecords)
    BY <1>1, <2>1 DEF Init
  <2>6. /\ use \in [Strings -> {"free", "held", "garbage"}]
        /\ last \in [Hashes -> [Keys -> Texts \cup {None}]]
        /\ factory \in [Factories -> FactoryRecords \cup {None}]
    BY DEF Init
  <2>7. touched \subseteq (DOMAIN events) \X Names
    BY DEF Init
  <2>8. QED
    BY <2>3, <2>4, <2>5, <2>6, <2>7 DEF TypeOK, DistinctKeys
<1>3. KeptInv
  BY DEF Init, KeptInv
<1>4. QED
  BY <1>2, <1>3 DEF Inv

LEMMA StepInv == Inv /\ [Next]_vars => Inv'
<1> SUFFICES ASSUME Inv, [Next]_vars PROVE Inv'
  OBVIOUS
<1>1. ASSUME NEW s \in Strings, Drop(s) \/ Collect(s) PROVE Inv'
  BY <1>1, EventsStay DEF Inv, TypeOK, Drop, Collect, Pointing
<1>2. ASSUME NEW s \in Strings, NEW x \in Texts, NewString(s, x) \/ Mutate(s, x)
      PROVE  Inv'
  BY <1>2, EventsStay DEF Inv, TypeOK, NewString, Mutate, Pointing
<1>3. ASSUME NEW f \in Factories, NEW hash \in Hashes, NEW x \in Texts, NEW m \in Messages,
             NEW named \in BOOLEAN, NewFactory(f, hash, [field \in Fields |-> x], m, named)
      PROVE  Inv'
  BY <1>3, NewFactoryKeeps
<1>4. ASSUME NEW f \in Factories, NEW field \in Settable, NEW x \in Texts,
             SetField(f, field, x)
      PROVE  Inv'
  BY <1>4, SetFieldKeeps
<1>5. ASSUME NEW f \in Factories, NEW k \in Keys, NEW x \in Texts, SetHeader(f, k, x)
      PROVE  Inv'
  BY <1>5, SetHeaderKeeps
<1>6. ASSUME NEW f \in Factories, NEW type \in Types, NEW over \in Overrides, NEW x \in Texts,
             NEW m \in Messages \cup {None}, Generate(f, type, over, x, m)
      PROVE  Inv'
  BY <1>6, GenerateKeeps
<1>7. ASSUME NEW type \in Types, NEW own \in SUBSET Fields, NEW s \in Held,
             NEW m \in Messages \cup {None}, NEW values \in [Names -> OwnStrings],
             Direct(type, own, s, m, values)
      PROVE  Inv'
  BY <1>7, DirectKeeps
<1>8. ASSUME NEW f \in Factories, NEW hash \in Hashes, SetHeaders(f, hash) PROVE Inv'
  BY <1>8, SetHeadersKeeps
<1>9. CASE UNCHANGED vars
  BY <1>9, EventsStay DEF Inv, TypeOK, vars
<1>10. QED
  BY <1>1, <1>2, <1>3, <1>4, <1>5, <1>6, <1>7, <1>8, <1>9 DEF Next

LEMMA Invariance == Spec => []Inv
  BY InitInv, StepInv, PTL DEF Spec

(***************************************************************************)
(* The theorems.                                                           *)
(***************************************************************************)

\* The state keeps its shape: no string of an event but those of its headers is a
\* pointer, and the keys of a header Hash stay distinct (event.c:118-141).
THEOREM TypeCorrect == Spec => []TypeOK
<1>1. Inv => TypeOK
  BY DEF Inv
<1>2. QED
  BY Invariance, <1>1, PTL

LEMMA MadeType ==
    ASSUME TypeOK, NEW j \in DOMAIN events
    PROVE  /\ events[j].event \in EventRecords
           /\ \A field \in Fields : events[j].event.fields[field].at = None
<1>1. events[j] \in MadeRecords
  BY ElementOfSeq, LenProperties DEF TypeOK
<1>2. events[j].event \in EventRecords
  BY <1>1 DEF MadeRecords
<1>3. QED
  BY <1>2 DEF EventRecords, Copies

\* The accessors give the fields of an event's type as they were given, whatever the
\* program and the collector do to the strings, for any number of factories, events,
\* strings and overrides (event.c:118-141, 231-265; testing.rb:131-232).
THEOREM FieldsKept == Spec => []FieldsAreKept
<1>1. Inv => FieldsAreKept
  <2> SUFFICES ASSUME Inv, NEW j \in DOMAIN events
               PROVE  LET e == events[j].event
                          asked == events[j].asked
                      IN  /\ \A field \in {"uuid", "addr", "group"} :
                                 IF field \in Has(e.type)
                                 THEN /\ asked.fields[field] # None
                                      /\ Field(e, field) = asked.fields[field]
                                 ELSE Field(e, field) = None
                          /\ Field(e, "name") = IF asked.fields["name"] # None
                                                THEN asked.fields["name"]
                                                ELSE NameFrom[asked.fields["uuid"]]
                          /\ IF "msg" \in Has(e.type)
                             THEN /\ multipart_msg(e) = asked.msg
                                  /\ msg_size(e) = Len(asked.msg)
                                  /\ multipart(e) <=> Len(asked.msg) > 1
                                  /\ asked.msg # <<>> => msg(e) = Head(asked.msg)
                             ELSE /\ multipart_msg(e) = <<>> /\ msg_size(e) = None
                                  /\ ~multipart(e) /\ msg(e) = None
    BY DEF FieldsAreKept
  <2> DEFINE e == events[j].event
             asked == events[j].asked
  <2>1. Kept(e, asked)
    BY DEF Inv, KeptInv
  <2>2. \A field \in Fields : Field(e, field) = e.fields[field].text
    BY MadeType DEF Inv, Field, Get
  <2>3. {"uuid", "addr", "group", "name"} = Fields
    BY DEF Fields
  <2> HIDE DEF e, asked
  <2>4. \A field \in {"uuid", "addr", "group"} :
            IF field \in Has(e.type)
            THEN asked.fields[field] # None /\ Field(e, field) = asked.fields[field]
            ELSE Field(e, field) = None
    BY <2>1, <2>2, <2>3 DEF Kept
  <2>5. Field(e, "name") = IF asked.fields["name"] # None THEN asked.fields["name"]
                           ELSE NameFrom[asked.fields["uuid"]]
    BY <2>1, <2>2, <2>3 DEF Kept
  <2>6. IF "msg" \in Has(e.type)
        THEN /\ multipart_msg(e) = asked.msg /\ msg_size(e) = Len(asked.msg)
             /\ multipart(e) <=> Len(asked.msg) > 1
             /\ asked.msg # <<>> => msg(e) = Head(asked.msg)
        ELSE /\ multipart_msg(e) = <<>> /\ msg_size(e) = None
             /\ ~multipart(e) /\ msg(e) = None
    <3>1. CASE "msg" \in Has(e.type)
      <4>1. e.msg # None /\ asked.msg = e.msg
        BY <2>1, <3>1 DEF Kept
      <4>2. e.msg \in Seq(Texts)
        BY <4>1, MadeType, MessagesAssumption DEF Inv, EventRecords, e
      <4>3. /\ Len(e.msg) \in Nat /\ Len(e.msg) # None
            /\ e.msg # <<>> => Head(e.msg) = e.msg[1]
        BY <4>2, LenProperties, HeadTailProperties, NoneAssumption
      <4>4. /\ multipart_msg(e) = e.msg /\ msg_size(e) = Len(e.msg)
            /\ msg(e) = e.msg[1]
        BY <4>1 DEF multipart_msg, msg_size, msg
      <4>5. QED
        BY <3>1, <4>1, <4>3, <4>4 DEF multipart
    <3>2. CASE "msg" \notin Has(e.type)
      BY <2>1, <3>2 DEF Kept, multipart_msg, msg_size, multipart, msg
    <3>3. QED
      BY <3>1, <3>2
  <2>7. QED
    BY <2>4, <2>5, <2>6 DEF e, asked
<1>2. QED
  BY Invariance, <1>1, PTL

(***************************************************************************)
(* Headers.                                                                *)
(***************************************************************************)

\* The history of the Hashes is right: a pair has what was last set under its key, and
\* every key that was set has a pair.
LastInv ==
    \A h \in Hashes :
        /\ \A j \in DOMAIN hashes[h] : last[h][hashes[h][j].key] = hashes[h][j].value
        /\ \A k \in Keys : last[h][k] # None =>
               \E j \in DOMAIN hashes[h] : hashes[h][j].key = k

LEMMA LastSetHeader ==
    ASSUME TypeOK, LastInv, NEW f \in Factories, NEW k \in Keys, NEW x \in Texts,
           SetHeader(f, k, x)
    PROVE  LastInv'
<1>1. PICK g : g = factory[f].hash
  OBVIOUS
<1>2. g \in Hashes
  BY <1>1 DEF TypeOK, SetHeader, FactoryRecords
<1>3. PICK put : put = Put(hashes[g], k, x)
  OBVIOUS
<1>4. /\ \A j \in DOMAIN put :
            \/ put[j].key = k /\ put[j].value = x
            \/ put[j].key # k /\ j \in DOMAIN hashes[g] /\ put[j] = hashes[g][j]
      /\ \E j \in DOMAIN put : put[j].key = k
      /\ \A j \in DOMAIN hashes[g] : j \in DOMAIN put /\ put[j].key = hashes[g][j].key
  BY <1>2, <1>3, PutPairs DEF TypeOK
<1>5. put \in Seq(Pairs)
  BY <1>2, <1>3, PutType DEF TypeOK
<1>6. \A j \in DOMAIN put : put[j].key \in Keys
  <2>1. \A j \in DOMAIN put : put[j] \in Pairs
    BY <1>5, ElementOfSeq, LenProperties
  <2>2. QED
    BY <2>1 DEF Pairs
<1>7. hashes' = [hashes EXCEPT ![g] = put] /\ last' = [last EXCEPT ![g][k] = x]
  BY <1>1, <1>3 DEF SetHeader
<1>8. /\ hashes'[g] = put /\ last'[g][k] = x
      /\ \A o \in Keys : o # k => last'[g][o] = last[g][o]
      /\ \A h \in Hashes : h # g => hashes'[h] = hashes[h] /\ last'[h] = last[h]
  BY <1>2, <1>7 DEF TypeOK
<1> SUFFICES ASSUME NEW h \in Hashes
             PROVE  /\ \A j \in DOMAIN hashes'[h] :
                          last'[h][hashes'[h][j].key] = hashes'[h][j].value
                    /\ \A o \in Keys : last'[h][o] # None =>
                          \E j \in DOMAIN hashes'[h] : hashes'[h][j].key = o
  BY DEF LastInv
<1>9. CASE h = g
  <2>1. ASSUME NEW j \in DOMAIN put PROVE last'[g][put[j].key] = put[j].value
    <3>1. CASE put[j].key = k
      BY <1>4, <1>8, <3>1
    <3>2. CASE put[j].key # k
      <4>1. j \in DOMAIN hashes[g] /\ put[j] = hashes[g][j]
        BY <1>4, <3>2
      <4>2. last[g][put[j].key] = put[j].value
        BY <1>2, <4>1 DEF LastInv
      <4>3. QED
        BY <1>6, <1>8, <3>2, <4>2
    <3>3. QED
      BY <3>1, <3>2
  <2>2. ASSUME NEW o \in Keys, last'[g][o] # None PROVE \E j \in DOMAIN put : put[j].key = o
    <3>1. CASE o = k
      BY <1>4, <3>1
    <3>2. CASE o # k
      <4>1. PICK j \in DOMAIN hashes[g] : hashes[g][j].key = o
        BY <1>2, <1>8, <2>2, <3>2 DEF LastInv
      <4>2. QED
        BY <1>4, <4>1
    <3>3. QED
      BY <3>1, <3>2
  <2>3. QED
    BY <1>8, <1>9, <2>1, <2>2
<1>10. CASE h # g
  BY <1>8, <1>10 DEF LastInv
<1>11. QED
  BY <1>9, <1>10

LEMMA LastStep == TypeOK /\ LastInv /\ [Next]_vars => LastInv'
<1> SUFFICES ASSUME TypeOK, LastInv, [Next]_vars PROVE LastInv'
  OBVIOUS
<1>1. ASSUME UNCHANGED <<hashes, last>> PROVE LastInv'
  BY <1>1 DEF LastInv
<1>2. ASSUME NEW f \in Factories, NEW k \in Keys, NEW x \in Texts, SetHeader(f, k, x)
      PROVE  LastInv'
  BY <1>2, LastSetHeader
<1>3. ASSUME NEW f \in Factories, NEW type \in Types, NEW over \in Overrides, NEW x \in Texts,
             NEW m \in Messages \cup {None}, Generate(f, type, over, x, m)
      PROVE  LastInv'
  BY <1>1, <1>3 DEF Generate
<1>4. ASSUME NEW type \in Types, NEW own \in SUBSET Fields, NEW s \in Held,
             NEW m \in Messages \cup {None}, NEW values \in [Names -> OwnStrings],
             Direct(type, own, s, m, values)
      PROVE  LastInv'
  BY <1>1, <1>4 DEF Direct
<1>5. QED
  BY <1>1, <1>2, <1>3, <1>4 DEF Next, vars, Drop, Collect, NewString, Mutate, NewFactory,
     SetField, SetHeaders

\* A normalized Hash has for each name what was last set under a key of it.
LEMMA NormalizeIsLast ==
    ASSUME TypeOK, LastInv, NEW h \in Hashes, NEW n \in Names
    PROVE  IsAsked(Normalize(hashes[h])[n], LastSet(h, n))
<1>1. PICK hash : hash = hashes[h]
  OBVIOUS
<1>2. hash \in Seq(Pairs)
  BY <1>1 DEF TypeOK
<1>3. \A j \in DOMAIN hash : hash[j].key \in Keys /\ hash[j].value \in Texts
  <2>1. \A j \in DOMAIN hash : hash[j] \in Pairs
    BY <1>2, ElementOfSeq, LenProperties
  <2>2. QED
    BY <2>1 DEF Pairs
<1> DEFINE places == {j \in DOMAIN hash : NameOf[hash[j].key] = n}
<1>4. CASE places = {}
  <2>1. Normalize(hash)[n] = None
    BY <1>4, NormalizeNone
  <2>2. \A k \in Keys : NameOf[k] = n => last[h][k] = None
    BY <1>1, <1>4 DEF LastInv
  <2>3. LastSet(h, n) = {}
    BY <2>2 DEF LastSet
  <2>4. QED
    BY <1>1, <2>1, <2>3 DEF IsAsked
<1>5. CASE places # {}
  <2>1. Len(hash) \in Nat /\ places \in SUBSET (1..Len(hash))
    BY <1>2, LenProperties
  <2>2. PICK j \in places : \A i \in places : j >= i
    BY <1>5, <2>1, LastPlace
  <2>3. Normalize(hash)[n] = hash[j].value
    BY <1>2, <2>2, NormalizeAt
  <2>4. /\ j \in DOMAIN hash /\ hash[j].key \in Keys /\ NameOf[hash[j].key] = n
        /\ hash[j].value # None
    BY <1>3, <2>2, NoneAssumption
  <2>5. last[h][hash[j].key] = hash[j].value
    BY <1>1, <2>4 DEF LastInv
  <2>6. hash[j].value \in LastSet(h, n)
    BY <2>4, <2>5 DEF LastSet
  <2>7. QED
    BY <1>1, <2>3, <2>6 DEF IsAsked
<1>6. QED
  BY <1>4, <1>5

\* What HeadersKeptWhileIntact leaves out: the string of such a header has not been
\* freed.  Memory is taken for a new string only when it is free, so this is what
\* keeps the steps of others away from it.
IntactAt(j, n) ==
    LET v == events[j].event.headers[n]
        asked == events[j].asked.headers[n]
    IN  "headers" \in Has(events[j].event.type) =>
            /\ v.at = None => IsAsked(v.text, asked)
            /\ v.at # None /\ <<j, n>> \notin touched =>
                   use[v.at] # "free" /\ IsAsked(text[v.at], asked)

IntactInv == \A j \in DOMAIN events, n \in Names : IntactAt(j, n)

LEMMA HeaderType ==
    ASSUME TypeOK, NEW j \in DOMAIN events, NEW n \in Names
    PROVE  events[j].event.headers[n] \in Values
  BY MadeType DEF EventRecords

\* A step that makes no event keeps IntactInv when it changes or frees only strings
\* whose headers are touched then.
LEMMA StringsIntact ==
    ASSUME TypeOK, IntactInv, events' = events, touched \subseteq touched',
           \A s \in Strings : use[s] # "free" =>
               \/ use'[s] # "free" /\ text'[s] = text[s]
               \/ Pointing(s) \subseteq touched'
    PROVE  IntactInv'
<1> SUFFICES ASSUME NEW j \in DOMAIN events, NEW n \in Names PROVE IntactAt(j, n)'
  BY DEF IntactInv
<1> DEFINE v == events[j].event.headers[n]
<1>1. IntactAt(j, n)
  BY DEF IntactInv
<1>2. v.at \in Strings \cup {None}
  BY HeaderType DEF Values
<1>3. <<j, n>> \in Pointing(v.at)
  BY DEF Pointing
<1>4. v.at # None /\ <<j, n>> \notin touched' /\ use[v.at] # "free" =>
          use'[v.at] # "free" /\ text'[v.at] = text[v.at]
  BY <1>2, <1>3
<1> HIDE DEF v
<1>5. v' = v /\ events'[j] = events[j]
  BY DEF v
<1>6. QED
  BY <1>1, <1>4, <1>5 DEF IntactAt, v

\* synthesize keeps IntactInv when it writes to free memory only and the new headers
\* read as they were asked for.
LEMMA SynthesizeIntact ==
    ASSUME TypeOK, IntactInv, NEW type, NEW given, NEW asked, NEW from,
           Synthesize(type, given, asked, from), touched' = touched,
           \A s \in Strings : use[s] # "free" => use'[s] # "free" /\ text'[s] = text[s],
           \A n \in Names : "headers" \in Has(type) =>
               LET v == given.headers[n]
               IN  /\ v.at = None => IsAsked(v.text, asked.headers[n])
                   /\ v.at # None => /\ use'[v.at] # "free"
                                     /\ IsAsked(text'[v.at], asked.headers[n])
    PROVE  IntactInv'
<1> DEFINE made == [event |-> Structure(type, given), asked |-> asked, from |-> from]
<1>1. events' = Append(events, made)
  BY DEF Synthesize
<1>2. /\ made.event.type = type /\ made.asked = asked
      /\ "headers" \in Has(type) => made.event.headers = given.headers
  BY DEF Structure
<1> HIDE DEF made
<1>3. /\ DOMAIN events = 1..Len(events) /\ Len(events) \in Nat
      /\ DOMAIN events' = 1..(Len(events) + 1) /\ events'[Len(events) + 1] = made
      /\ \A j \in 1..Len(events) : events'[j] = events[j]
  BY <1>1, LenProperties, AppendProperties DEF TypeOK
<1> SUFFICES ASSUME NEW j \in DOMAIN events', NEW n \in Names PROVE IntactAt(j, n)'
  BY DEF IntactInv
<1>4. CASE j = Len(events) + 1
  BY <1>2, <1>3, <1>4 DEF IntactAt
<1>5. CASE j # Len(events) + 1
  <2>1. j \in DOMAIN events /\ events'[j] = events[j]
    BY <1>3, <1>5
  <2>2. IntactAt(j, n)
    BY <2>1 DEF IntactInv
  <2>3. events[j].event.headers[n].at \in Strings \cup {None}
    BY <2>1, HeaderType DEF Values
  <2>4. QED
    BY <2>1, <2>2, <2>3 DEF IntactAt
<1>6. QED
  BY <1>4, <1>5

LEMMA GenerateIntact ==
    ASSUME Inv, LastInv, IntactInv, NEW f \in Factories, NEW type \in Types, NEW over \in Overrides,
           NEW x \in Texts, NEW m \in Messages \cup {None}, Generate(f, type, over, x, m)
    PROVE  IntactInv'
<1> DEFINE merged == Merged(f, over, x, m)
           asked == [merged EXCEPT !.headers =
                        [n \in Names |-> LastSet(factory[f].hash, n)]]
           present == {n \in Names : "headers" \in Has(type) /\ merged.headers[n] # None}
<1>1. PICK new \in Injection(present, Free) :
         /\ text' = [s \in Strings |->
                        IF \E n \in present : new[n] = s
                        THEN merged.headers[CHOOSE n \in present : new[n] = s]
                        ELSE text[s]]
         /\ use' = [s \in Strings |->
                       IF \E n \in present : new[n] = s THEN "garbage" ELSE use[s]]
         /\ Synthesize(type,
                [fields |-> [field \in Fields |-> Copy(merged.fields[field])],
                 msg |-> merged.msg,
                 headers |-> [n \in Names |->
                     IF n \in present THEN [at |-> new[n], text |-> merged.headers[n]]
                     ELSE Nil]],
                asked, f)
  BY DEF Generate
<1> DEFINE given == [fields |-> [field \in Fields |-> Copy(merged.fields[field])],
                     msg |-> merged.msg,
                     headers |-> [n \in Names |->
                         IF n \in present THEN [at |-> new[n], text |-> merged.headers[n]]
                         ELSE Nil]]
<1>2. Synthesize(type, given, asked, f)
  BY <1>1
<1>3. /\ \A n \in present : new[n] \in Strings /\ use[new[n]] = "free"
      /\ \A n, o \in present : new[n] = new[o] => n = o
  BY DEF Injection, IsInjective, Free
<1>4. \A n \in Names \ present : "headers" \in Has(type) => merged.headers[n] = None
  OBVIOUS
<1>5. \A n \in Names : given.headers[n] =
          IF n \in present THEN [at |-> new[n], text |-> merged.headers[n]] ELSE Nil
  OBVIOUS
<1>0. ASSUME NEW n \in Names PROVE IsAsked(merged.headers[n], asked.headers[n])
  <2>1. factory[f].hash \in Hashes
    BY DEF Generate, Inv, TypeOK, FactoryRecords
  <2>2. IsAsked(Normalize(hashes[factory[f].hash])[n], LastSet(factory[f].hash, n))
    BY <2>1, NormalizeIsLast DEF Inv
  <2>3. /\ merged.headers = Normalize(hashes[factory[f].hash])
        /\ asked.headers = [o \in Names |-> LastSet(factory[f].hash, o)]
    BY DEF Merged
  <2>4. QED
    BY <2>2, <2>3
<1> HIDE DEF given, merged, present, asked
<1>6. ASSUME NEW n \in present
      PROVE  use'[new[n]] = "garbage" /\ text'[new[n]] = merged.headers[n]
  <2>1. (CHOOSE o \in present : new[o] = new[n]) \in present
        /\ new[CHOOSE o \in present : new[o] = new[n]] = new[n]
    OBVIOUS
  <2>2. (CHOOSE o \in present : new[o] = new[n]) = n
    BY <1>3, <2>1
  <2>3. QED
    BY <1>1, <1>3, <2>2
<1>7. ASSUME NEW s \in Strings, use[s] # "free"
      PROVE  use'[s] # "free" /\ text'[s] = text[s]
  BY <1>1, <1>3, <1>7
<1>8. ASSUME NEW n \in Names, "headers" \in Has(type)
      PROVE  LET v == given.headers[n]
             IN  /\ v.at = None => IsAsked(v.text, asked.headers[n])
                 /\ v.at # None => /\ use'[v.at] # "free"
                                   /\ IsAsked(text'[v.at], asked.headers[n])
  <2>1. CASE n \in present
    <3>1. given.headers[n] = [at |-> new[n], text |-> merged.headers[n]]
      BY <1>5, <2>1
    <3>2. /\ given.headers[n].at = new[n] /\ new[n] # None
          /\ use'[new[n]] = "garbage" /\ text'[new[n]] = merged.headers[n]
      BY <1>3, <1>6, <2>1, <3>1, NoneAssumption
    <3>3. QED
      BY <1>0, <3>2
  <2>2. CASE n \notin present
    <3>1. given.headers[n] = Nil /\ merged.headers[n] = None
      BY <1>4, <1>5, <1>8, <2>2
    <3>2. Nil.at = None /\ Nil.text = None
      BY DEF Nil, Copy
    <3>3. QED
      BY <1>0, <3>1, <3>2
  <2>3. QED
    BY <2>1, <2>2
<1>9. touched' = touched
  BY DEF Generate
<1>10. QED
  BY <1>2, <1>7, <1>8, <1>9, SynthesizeIntact DEF Inv

LEMMA DirectIntact ==
    ASSUME Inv, IntactInv, NEW type \in Types, NEW own \in SUBSET Fields, NEW s \in Held,
           NEW m \in Messages \cup {None}, NEW values \in [Names -> OwnStrings],
           Direct(type, own, s, m, values)
    PROVE  IntactInv'
<1> DEFINE fields == [field \in Fields |-> IF field \in own THEN Pointer(s) ELSE Nil]
           given == [fields |-> fields, msg |-> m, headers |-> values]
           asked == [fields |-> [field \in Fields |-> fields[field].text], msg |-> m,
                     headers |-> [n \in Names |-> {values[n].text} \ {None}]]
<1>1. Synthesize(type, given, asked, None) /\ UNCHANGED <<text, use, touched>>
  BY DEF Direct
<1>2. given.headers = values
      /\ \A n \in Names : asked.headers[n] = {values[n].text} \ {None}
  OBVIOUS
<1> HIDE DEF given, asked
<1>3. ASSUME NEW n \in Names
      PROVE  /\ values[n].at = None => IsAsked(values[n].text, asked.headers[n])
             /\ values[n].at # None => /\ use'[values[n].at] # "free"
                                       /\ IsAsked(text'[values[n].at], asked.headers[n])
  <2>1. CASE values[n] = Nil
    BY <1>2, <2>1 DEF Nil, Copy, IsAsked
  <2>2. CASE values[n] # Nil
    <3>1. PICK z \in Held : values[n] = Pointer(z)
      BY <2>2 DEF OwnStrings
    <3>2. values[n].at = z /\ values[n].text = text[z] /\ use[z] = "held" /\ z # None
      BY <3>1, NoneAssumption DEF Pointer, Held
    <3>3. text[z] \in Texts
      BY <3>1 DEF Held, Inv, TypeOK
    <3>4. asked.headers[n] = {text[z]}
      BY <1>2, <3>2, <3>3, NoneAssumption
    <3>5. text' = text /\ use' = use
      BY <1>1
    <3>6. QED
      BY <3>2, <3>4, <3>5 DEF IsAsked
  <2>3. QED
    BY <2>1, <2>2
<1>4. QED
  BY <1>1, <1>2, <1>3, SynthesizeIntact DEF Inv

LEMMA StepIntact == Inv /\ LastInv /\ IntactInv /\ [Next]_vars => IntactInv'
<1> SUFFICES ASSUME Inv, LastInv, IntactInv, [Next]_vars PROVE IntactInv'
  OBVIOUS
<1> USE DEF Inv
<1>1. ASSUME NEW s \in Strings, Drop(s) PROVE IntactInv'
  <2>1. \A z \in Strings : use[z] # "free" => use'[z] # "free" /\ text'[z] = text[z]
    BY <1>1 DEF Drop, TypeOK
  <2>2. QED
    BY <1>1, <2>1, StringsIntact DEF Drop
<1>2. ASSUME NEW s \in Strings, Collect(s) PROVE IntactInv'
  <2>1. \A z \in Strings \ {s} : use'[z] = use[z] /\ text'[z] = text[z]
    BY <1>2 DEF Collect, TypeOK
  <2>2. touched' = touched \cup Pointing(s) /\ events' = events
    BY <1>2 DEF Collect
  <2>3. QED
    BY <2>1, <2>2, StringsIntact
<1>3. ASSUME NEW s \in Strings, NEW x \in Texts, NewString(s, x) PROVE IntactInv'
  <2>1. \A z \in Strings : use[z] # "free" => use'[z] # "free" /\ text'[z] = text[z]
    BY <1>3 DEF NewString, Free, TypeOK
  <2>2. QED
    BY <1>3, <2>1, StringsIntact DEF NewString
<1>4. ASSUME NEW s \in Strings, NEW x \in Texts, Mutate(s, x) PROVE IntactInv'
  <2>1. \A z \in Strings \ {s} : use'[z] = use[z] /\ text'[z] = text[z]
    BY <1>4 DEF Mutate, TypeOK
  <2>2. touched' = touched \cup Pointing(s) /\ events' = events
    BY <1>4 DEF Mutate
  <2>3. QED
    BY <2>1, <2>2, StringsIntact
<1>5. ASSUME UNCHANGED <<text, use, events, touched>> PROVE IntactInv'
  BY <1>5, StringsIntact
<1>6. ASSUME NEW f \in Factories, NEW type \in Types, NEW over \in Overrides, NEW x \in Texts,
             NEW m \in Messages \cup {None}, Generate(f, type, over, x, m)
      PROVE  IntactInv'
  BY <1>6, GenerateIntact
<1>7. ASSUME NEW type \in Types, NEW own \in SUBSET Fields, NEW s \in Held,
             NEW m \in Messages \cup {None}, NEW values \in [Names -> OwnStrings],
             Direct(type, own, s, m, values)
      PROVE  IntactInv'
  BY <1>7, DirectIntact
<1>8. QED
  BY <1>1, <1>2, <1>3, <1>4, <1>5, <1>6, <1>7
     DEF Next, vars, NewFactory, SetField, SetHeaders, SetHeader

\* A header of an event reads as it was last set in the Hash of its factory, or as it
\* was given, until its string is changed or collected, for any number of events,
\* factories, Hashes, keys, names and strings: no other step of the program, of a
\* factory or of the collector reaches it
\* (event.c:143-171, 189-214, 254-262; zyre.rb:37-51).
THEOREM HeadersIntact == Spec => []HeadersKeptWhileIntact
<1>1. Init => IntactInv /\ LastInv
  BY EmptySeq DEF Init, IntactInv, LastInv
<1>2. Inv /\ LastInv /\ IntactInv /\ [Next]_vars => (LastInv /\ IntactInv)'
  BY StepIntact, LastStep DEF Inv
<1>3. Spec => [](LastInv /\ IntactInv)
  BY Invariance, <1>1, <1>2, PTL DEF Spec
<1>4. IntactInv => HeadersKeptWhileIntact
  BY DEF IntactInv, IntactAt, HeadersKeptWhileIntact, headers, Get
<1>5. QED
  BY <1>3, <1>4, PTL

=============================================================================
