# Formal models of ruby-zyre

ruby-zyre is a Ruby binding for libzyre. `ext/zyre_ext/*.c` wraps nodes, events and pollers; `lib/`
adds the waiting methods of a node, the event classes, and event factories for tests. The network
protocol itself is libzyre's. What this code has to get right is what lies between the two: who owns
a C object or a string, what happens while the extension has given up Ruby's global lock (the GVL),
and which event goes to whom.

Line numbers below are those of `ext/zyre_ext/` and `lib/`; `PROJECT.json` maps every definition to
its lines.

## The system

| Component | State | Operations | Interacts with |
|---|---|---|---|
| `Zyre::Node`, consuming (`lib/zyre/node.rb`, `node.c:511-524`, `event.c:71-115`) | the inbox (a libzyre socket); locals of each call | `recv`, `each_event`, `wait_for` | a private `Poller` per `wait_for`; `Event.from_node`; the caller's block |
| `Zyre::Node`, configuration, groups, sending (`node.c:66-508, 529-579`; `node.rb:48-63`) | in libzyre's actor; C pointers on the stack of each call | setters, `set_header`, `headers=`, `start`, `stop`, `join`, `leave`, `whisper`, `shout` | the logger and `to_str`, which run between taking a pointer and using it; libzyre |
| `Zyre::Node`, readers (`uuid`, `peers`, `own_groups`, ...; `node.c:580-771`) | none | ask libzyre | libzyre |
| Making messages (`zyre_ext.c:76-124`) | one static argument block for the process; zmsgs being built | `rzyre_make_zmsg_from` | called by `whisper`, `shout`, `synthesize`; calls `to_str` of the parts |
| `Zyre::Poller` (`poller.c`) | zpoller's list of sockets; the `@nodes` hash | `new`, `add`, `remove`, `nodes`, `wait` | nodes' sockets, the garbage collector, threads that share it |
| `Zyre::Event` (`event.c`) | a `zyre_event_t`: strings, a header zhash, a zmsg | `synthesize`, accessors | strings of the program; message building |
| Event types and matching (`event.rb`) | none | `type_by_name`, `type_name`, `match`, `multipart?` | used by `wait_for`, `from_node`, `synthesize` |
| Module functions (`zyre.rb`, `zyre_ext.c:127-192`) | none | `transform_header_key`, `normalize_headers`, `wait`, `interfaces` | header Hashes |
| `Zyre::Testing::EventFactory` (`testing.rb:15-233`) | a factory's fields; the constant Hash `DEFAULT_HEADERS` | setters, event methods with overrides | `Event.synthesize` |
| `Zyre::Testing` hooks (`testing.rb:236-320`) | `@gossip_endpoint`, `@started_zyre_nodes` | `started_node`, the `before` and `after` hooks, `check_fdmax` | the block of each call, which may call `started_node`; nodes; the collector |
| Observability (`observability/instrumentation/zyre.rb`), build files | none | declarations | |

What makes these hard:

* **Two calls without the GVL.** `poller.wait` (`poller.c:226`) and the read of an event
  (`event.c:101`) run while other threads of the program go on, and a signal or an exception from
  another thread can end them. Both can also find an interrupt pending and not run at all.
* **Check, then act.** `wait_for` learns from the poller that there is an event, and then calls a
  `recv` that blocks. `Poller#wait` learns a socket, and looks its endpoint up in a hash that others
  change in the meantime.
* **Ruby code in the middle.** A block may call the consuming methods of the same node again, or
  `started_node`. A part's `to_str` may let another message be built while the first one is half done.
  The logger runs after a method has taken the pointers of its arguments and before it uses them.
* **Half of a sequence.** `headers=`, `add`, `remove` and `started_node` do several things one after the
  other, and an exception can come between any two.
* **Memory.** Only Ruby references keep a node's socket from being destroyed. Header values of a
  synthesized event are pointers into strings that nothing refers to.
* **Time.** A timeout in seconds becomes an `int` of milliseconds, rounded down.

`PROJECT.json` lists each hazard at its line with the properties that watch it.

## The modules

### `ZyreEvent`, `NodeWait`, `EventDelivery`, `NodeWaitProofs`

`NodeWait` has one action per step of the consuming methods, between the points where another
thread, the clock, libzyre or an interrupt can step in. A *caller* is an activation of a method:
`Host[c]` is the outermost caller of its thread, `Level[c]` how many blocks of that thread's calls it
is inside of. One set of callers so describes nested calls of any depth, several threads, or both. A
caller can begin only when those further out are in their blocks (`Outer`) and those further in have
ended (`Inner`), and it runs only on top of its stack (`OnTop`).

| State | Code |
|---|---|
| `arrived`, `log` | the inbox, as everything delivered and a record of each read, so that properties can speak of the whole history; the inbox proper is `arrived` after the first `Len(log)` |
| `pc`, `timeout`, `cur`, `until` | the line a caller is at, its locals `timeout` and `event`, the time at which its poll gives up |
| `call`, `out` | the arguments of the call and how it ended |
| `pending`, `interrupts`, `aborted` | the interrupt of a thread, and the failed assertion at `event.c:81` |

| Action | Code |
|---|---|
| `Begin` | the call up to its loop (`node.rb:22-45`) |
| `KeepWaiting`, `TimeIsUp` | the clock and the `while` of `wait_for_with_timeout` (111-118, 130) |
| `PollCall`, `PollReady`, `PollNil` | `poller.wait` on the node's only socket |
| `RecvCall`, `RecvSkipped`, `ReadEvent`, `ReadInterrupted` | `recv`: `rb_thread_call_without_gvl2` does not call when an interrupt is pending; the read blocks; a signal ends it |
| `Return`, `EachEnds`, `PassOn` | what the method does with what it read |
| `BlockReturn`, `BlockBreak` | the block |
| `Arrive`, `Tick`, `Interrupt`, `CheckInterrupts` | libzyre, the clock, signals, the interpreter |

`EventDelivery` is what these methods promise: an event is taken by one call, which by its criteria
answers with it, gives it to its block or drops it, and a call ends without an event only when its
time is up or something disturbed it. `NodeWait!DeliversEvents` is the refinement: `active` and
`hand` are computed from `pc` and `cur`, everything else keeps its name. Two properties look at what a
single step cannot show: `NothingDisappears` relates what became of each event a call has read to how
the call ended, and `PolledReadFindsEvent` says that the `recv` behind a poll, which has no timeout,
has an event to read when one thread uses the node, whatever its blocks have read between two polls.

### `ZmsgBuild`, `ZmsgBuildProofs`

The loop of `rzyre_add_frames_to_zmsg` for any number of overlapping calls. `static` is the static
argument block, `own` the local `msg`, `msgs` every zmsg ever made with the parts it was asked for.
`Release` and `Resume` bracket a conversion that gives up the GVL. C leaves the order of the two
arguments of `zmsg_addstr` open: `Fetch` chooses whether the zmsg is read before or after the
conversion of the part. Two histories tell what the properties need: `overlapped`, the zmsgs whose
calls ran at the same time as another, and `stray`, those whose call added a frame to a zmsg that no
longer existed.

### `Poller`, `PollerProofs`

`polled` is zpoller's list, `nodes` the `@nodes` hash by node (a node has one socket and one
endpoint). `add` and `remove` are a step per node while their thread holds the GVL, so that a
`TypeError` half way (`EndLoop`) leaves the earlier nodes done. `remove` *sets* the hash entry it
could be expected to delete (`poller.c:171`), and `zlist_remove` takes out one occurrence of a socket.
`wait` is four steps: give up the GVL (`Wait`), zpoller reads its list (`ReadList`), it returns
(`PollReady`, `PollExpired`, `PollInterrupted`), and the endpoint is looked up (`Lookup`). `Read` is
the caller's `recv` on the node it got. `Drop` and `Collect` are the application's references and the
garbage collector, with `Reached` as its mark phase.

### `NodeCalls`, `NodeCallsProofs`

The methods that tell libzyre something. They come in three kinds, by what lies between the pointers
a method takes of its String arguments (`StringValueCStr`) and the call of libzyre that reads them:
nothing (`AtOnce`), a log line (`Logging`), or the conversion of a message (`Sending`).

| State | Code |
|---|---|
| `text` | what each String of the program holds |
| `calls` | every call with its arguments, what they held when it began, and which of them were changed while it ran |
| `running`, `loop` | the C call and the `headers=` of each thread; `loop` keeps the headers of the node from before |
| `told`, `headers` | what libzyre was told, and the headers it has by that |

`CallAtOnce` and `CallRefused` (`ArgumentError` for a NUL byte) are one step. `Call` is the part of a
method before its log output or conversion, `Tell` the part behind it, and `Raise` an exception out of
it. `NextHeader` is the `each` of `headers=`: one `set_header` for each pair, where `to_s` of a key is
a String of its own and `to_s` of a value that is a String is that String. `Change` is the program
changing a String: what a pointer into it gives afterwards is any text (`Pointed`). While a `headers=`
runs, `loop` also notes the names that `mixed`: those that another thread has told libzyre meanwhile
(`Mix`), and those whose values were changed (`NamesOf`). `HeadersMerged` speaks of every other name, so
two threads that set headers may mix their names, and never anything else.

### `StartedNodes`, `StartedNodesProofs`

An example of a test suite that uses `Zyre::Testing`. `stack` holds the `started_node` calls in
progress, one inside the block of the other, `at` the line each is at, `gossipEndpoint` and
`startedNodes` the two instance variables, `stops` how far the `after` hook is. `zyre`, `headers`,
`hub` and `entered` are libzyre's view of the nodes. `BlockEnds` is the test and the assignment of
`@gossip_endpoint` (`testing.rb:265-270`), `GossipBind`, `GossipConnect`, `Start` and `Return` the
calls after it, each a step because the log output of every method and the `sleep` let an exception
of another thread in (`Interrupt`). `BlockRaises` is an exception of the block, from which the code
around the call may recover. `Collect` is the garbage collector, `Discover` the threads of libzyre,
which send a HELLO with the headers of that moment between nodes that `CanMeet`. `StopsEachOnce` says
of the hook that what it has passed in its list is stopped and what is still to come runs, which fails
if a node is listed twice or is collected while it is listed. The module needs no `MC` module.

### `EventObject`, `EventObjectProofs`

`synthesize` for every type, the accessors of an event, and the factory that calls `synthesize`. `Has`
is what the structure of a type holds, `Required` what `synthesize` raises for if it is missing. A
string of a C structure is a copy or a pointer to the memory of a Ruby string, which can be changed,
dropped, collected and used again; a message is its parts. An event records what its maker expects to
read (`asked`), which the accessors must give: `FieldsAreKept` says so of the fields and of the readers
of a message. `Generate` is every event method of a factory, with a message, a string or nothing
overridden; `Direct` is `synthesize` with the program's own strings. A factory refers to a Hash of
headers, which others may share (`SetHeaders`, `SetHeader`). Two histories: `last`, what was last
set under each key of each Hash, by whichever factory, from which only the expectation of an event is
made, and `touched`, the headers whose own strings have been changed or freed, which no action reads.
`HeadersKeptWhileIntact` says that the headers that are not touched read as they were last set in the
Hash of the factory when the event was made, or as they were given to `synthesize`: the weakest
condition under which an event made from pointers is right, and the complement of
`EventObject_headers`. Where several keys become one name it asks for what was set under one of them.

`MCNodeWait`, `MCZmsgBuild`, `MCPoller`, `MCNodeCalls` and `MCEventObject` hold the values the `.cfg` files give to
constants. Definitions with the comment "Mutant" are wrong variants of the definition that follows
or precedes them; the specifications do not use them.

## What TLC checks

| Run | Question | Instance |
|---|---|---|
| `NodeWait_one` | type, `Custody`, `WaitTakesFirstWanted`, `NilIsExplained`, `NothingDisappears`, `PolledReadFindsEvent`, refinement `DeliversEvents` | a call of any method, with `recv` or a timed `wait_for` in its block; 2 events, one wanted; timeouts of 0 and 2 ticks, 2 ticks to the millisecond; one signal or exception |
| `NodeWait_two` | `Custody`, `WaitTakesFirstWanted`, `NothingDisappears`, refinement `DeliversEvents`, without interrupts | two threads, `each_event` or timed `wait_for` |
| `NodeWait_live` | `TimedCallReturns`, `WantedIsFound` under fairness | nested `wait_for`, one interrupt |
| `ZmsgBuild_two` | type, `AloneFramesMatch`, `StrayMeansOverlap`, `NoOrphan` | two workers, three calls, alone or overlapping; parts that convert and that raise |
| `Poller_nodes` | type, `SocketsAreLive`, `ReadyNodeIsReturned`, `AddedIsPolled`, `NotAllStuck`; `AllRead` under fairness; no deadlock | 2 nodes, 2 waiting threads with timeouts, one that changes the poller twice, with a node given twice and a list that raises half way; 2 events, one interrupted wait |
| `NodeCalls_two` | type, `ToldAsAsked`, `ToldOnceIfReturned`, `HeadersMerged` | 2 threads, 4 calls, a Hash of three pairs with two keys of one name, values that are refused, one String changed |
| `StartedNodes_example` | type, `EntersWithHeaders`, `HubServes`, `NoneLeftRunning`, `StopsEachOnce`; `NodesMeet` under fairness | 3 nodes, one header, one exception of another thread |
| `EventObject_fields` | type, `FieldsAreKept`, `HeadersKeptWhileIntact` | one string, 2 texts, messages of no, one and two parts, one factory and two Hashes, one event of any type |
| `NodeWait_abort`, `NodeWait_shared`, `ZmsgBuild_static`, `EventObject_headers` | the four disagreements below | the smallest instances that show them |

**Why the bounds are enough.** The interesting cases are: a wanted event behind one that is not
wanted (2 events), a race for one event (2 callers), a deadline between two milliseconds (2 ticks to
one), an interrupt in each of the places it can arrive (1 is enough, since the code treats them one
at a time), a node removed while one thread polls and another has polled (2 waiters, 2 changes), a
message built in the middle of another (2 workers) and one after another (3 calls: the static block
keeps what the last one left), a header set between two of another thread's `headers=` (2 threads,
3 pairs and a fourth call), a node that joins after the one that binds the hub and after one whose
block raised (3 nodes), a call nested in a call. An event is made from its strings once and never
written again, so one event, one string with two texts, and a message of each length that the readers
tell apart (no part, one, two) meet every case of its fields; calls with two overrides add nothing,
since each field is copied on its own, and one field is set in a factory after it is made (`Settable`),
since the setters are alike. Two Hashes with one key show whose headers an event has. Beyond this
instance, and shown by the theorem `HeadersIntact` only: factories that share a Hash, several keys of
one name, and that a second event takes nothing from the headers of the first. `EventObject_headers`
needs two strings. The properties the theorems cover hold
beyond the bounds. Symmetry is used for threads that are interchangeable, in runs without liveness.
Deadlock is not checked where the bounds, the end of an example, or a blocking `recv` without events
stop the system.

**Fairness.** `NodeWait!Fairness`: every thread that can run is scheduled (the GVL is handed on
after a time slice, and a poll that is ready or expired returns), time passes, and a block ends:
strongly, because it may make calls of its own which it has to finish first. Nothing obliges libzyre
to deliver, a program to call, or a signal to come. `Poller!Fairness`: threads in `wait` and loops in
progress go on; calls of `add` and `remove` need not come. `AllRead` needs timeouts (`TimedOnly`): a
thread that waits forever keeps polling the list it began with. `StartedNodes!FairSpec` is fair to
`Discover` only: libzyre's threads do not need the GVL, while the example may sit in a block, or end,
whenever it likes.

## What is proved

For all values of the constants, from the assumptions stated in each module:

* `NodeWaitProofs`: `TypeCorrect`, `EventsInCustody` (`Custody`), `WaitDecidesByCriteria`
  (`WaitTakesFirstWanted`), `EventsAccountedFor` (`NothingDisappears`) and `PolledReadIsNotEmpty`
  (`PolledReadFindsEvent`), for any number of threads and any depth of nesting. Assumed of the
  constants: levels are distinct within a thread and the outermost caller is at the lowest; the
  numbers are naturals. `Custody` needs that every caller below a running one is in its block and so
  holds nothing (`Stacks`); `WaitTakesFirstWanted` needs both. `NothingDisappears` is not inductive:
  `AccountOf` adds what a call that still runs knows (`Standing`): that it has no outcome yet, that
  what it holds was read after it began, that `each_event` has a block, and that an interrupt that
  waits for its thread has marked it. `PolledReadFindsEvent` rests on `Stacks` too: between the poll and the read of a caller
  no other caller of its thread runs, and there is no other thread.
  Under the hypothesis `ShortTimeouts`, that every timeout fits the `int` of `poller.c:218`, also
  `NilHasReason` (`NilIsExplained`) and `ImplementsDelivery`, the refinement `Spec => DeliversEvents`.
  Both rest on `Patience`: a poll of a timed call gives up no sooner than a millisecond before the
  deadline, and an interrupt that a call may notice is one it knows of. With a longer timeout the
  conversion may give the largest `int`, and the poll ends long before the deadline. The refinement
  takes each action by itself: a read is a `Take`, the end of a call an `Answer`, `GiveUp` or
  `BreakOut`, an exception one `Raise` of the whole stack, and the moves of the poller are not seen;
  `Blocks` says that only a call with a block is in one.
* `ZmsgBuildProofs`: `TypeCorrect`; `ExceptionsLeaveNoZmsg` (`NoOrphan`), from the invariant that the
  zmsgs of running workers are distinct and theirs, whatever the static block says; `AloneIsRight`
  (`AloneFramesMatch`) and `StraysOverlap` (`StrayMeansOverlap`), for any overlapping of calls, from
  `GoodInv`: a call that is not marked as overlapped is the only one, the static block is its own, and
  its zmsg has its first `i - 1` parts; and `FramesAreTheParts` (`FramesMatchParts`), which has a
  hypothesis: `OneAtATime`, no conversion gives up the GVL or there is only one worker. Without it the
  property is false (`ZmsgBuild_static`).
* `PollerProofs`: `TypeCorrect`; `LinksHold`, that what a waiting thread points to is in the hash and
  nothing in the hash is freed; from it `PolledSocketsLive` (`SocketsAreLive`) and `ReadyIsReturned`
  (`ReadyNodeIsReturned`); and `AddedArePolled` (`AddedIsPolled`), with the invariant that one thread
  at a time is in the loop of `add` or `remove` and what it has yet to remove counts as removed. The
  lemmas `RemoveFirstType` and `RemoveFirstKeeps` say what `zlist_remove` does to a list.
  `SocketsAreLive` depends on the entries that `remove` leaves in `@nodes`: the mutant that deletes
  them, as one would at first correct the code, frees a socket that a thread polls.
  `SomeThreadGoesOn` (`NotAllStuck`) assumes that some thread waits at all.
* `NodeCallsProofs`: `TypeCorrect`; `PointersHold` (`ToldAsAsked`), from the invariant that an argument
  of a running call that was not changed still holds what it held; `RaisedIsUntold`
  (`ToldOnceIfReturned`), from `ToldInv`, that libzyre is told of a call once and only of one that
  returned, with `Distinct`, that two threads are never in one call; and `HeadersAreMerged`
  (`HeadersMerged`), from `MergedInv`: but for the names that mix, the headers are those a `headers=`
  began with, overridden by the pairs it has passed. Its part `LoopCall` says that the call of a thread
  in `headers=` is that of the pair it has come to, and that a value changed during it is of a name
  that mixes; `MergedMore` is why the steps of other threads keep the rest. A name may be one that
  `set_header` refuses.
* `EventObjectProofs`: `TypeCorrect`, which includes that the fields of an event are copies and the
  keys of a Hash distinct; `FieldsKept` (`FieldsAreKept`), from `KeptInv`, that the structure of each
  event is the one `synthesize` made of what was asked; and `HeadersIntact`
  (`HeadersKeptWhileIntact`), from `LastInv`, that a pair of a Hash has what was last set under its key
  and every key that was set has a pair, and `IntactInv`, that the string of a header that is not
  touched has not been freed: new strings are made in free memory only, so no later event and no new
  string gets hold of it. What `normalize_headers` returns is in the lemmas `NormalizeAt`,
  `NormalizeNone` and `NormalizeIsLast`; `LastPlace` finds the last of the keys that become one name.
* `StartedNodesProofs`: `TypeCorrect`, `HeadersArrive` (`EntersWithHeaders`), `HubIsThere`
  (`HubServes`), `NoNodeRunsOn` (`NoneLeftRunning`) and `HookStopsEachOnce` (`StopsEachOnce`), for any number of nodes, depth of nesting and
  number of exceptions. The invariant says what the place of a call tells of its node (`Life`), that a
  started node is in its call, listed, or was interrupted (`Accounted`), that a peer is met only when
  started, with all its headers (`Known`), and that the hub is bound by the node that set
  `@gossip_endpoint` and by no other (`HubOf`, `HubInv`). `Once` adds that no node is listed twice,
  none both listed and in a call, and what the hook has passed is stopped. `ListedCanMeet` is the part
  of `NodesMeet` that needs no fairness: unless the call that was to bind the hub was interrupted, two
  listed nodes can meet throughout the example, so that only libzyre's threads are left to act. The
  lemmas `PushStack` and `PopStack` carry the nesting of calls.

Only model-checked: everything under fairness (`TimedCallReturns`, `WantedIsFound`, `AllRead`,
`NodesMeet`), which the prover cannot treat. Every other property of a passing run is a theorem.

## Where the code and what it says disagree

Shown by a run:

1. `NodeWait_abort`. `event.c:81` asserts that a read gets an event. A signal that arrives during a
   blocking `recv` ends the read with NULL, and the assertion ends the process.
2. `NodeWait_shared`. `node.rb:32-34` promises `nil` after the timeout. With two consumers of a node
   one can be in `recv`, without a timeout, for an event the other has taken.
3. `ZmsgBuild_static`. `zyre_ext.c:102` promises a frame for each part. When a `to_str` lets a second
   message be built, the frames of the two are mixed, or go to a message that libzyre has destroyed.
4. `EventObject_headers`. `spec/zyre/testing_spec.rb:61` expects the headers a factory was given. The
   event points into strings that may be collected.

Met while modelling, and described here only: the models have this behaviour, but no run asks about it.

* `wait_for` can return `nil` up to a millisecond early (`poller.c:218`), which is the bound that
  `NilIsExplained` states; and it can return `nil` with a wanted event in the inbox, when its time is
  used up by the events before it (`node.rb:130`).
* After an interrupt that a trap handler dealt with, `recv` returns `nil`: the block of `wait_for`
  gets it (`node.rb:103`), and `each_event` ends (`node.rb:86`).
* A timeout of more than about 24 days exceeds the `int` at `poller.c:218`.
* `Poller#nodes` contains removed nodes (`poller.c:134, 171`); `Poller#remove` takes one Array
  although its comment shows `remove( *nodes )` (`poller.c:148, 267`), and leaves a node that was
  added twice in the list; an interrupted `wait` returns `nil` where `poller.c:202-203` promises an
  Interrupt.
* `each_event` goes on after a STOP event, and waits for an event that will not come (`node.rb:84-88`).
* Factories without headers of their own share one Hash (`testing.rb:22, 48, 75`).
* A String that is changed while the log line or a `to_str` of a call runs is read through a pointer
  to memory it may no longer own (`node.c:366-370, 480-484, 545-548`): the case that `ToldAsAsked`
  excepts.
* `headers=` is no single step (`node.rb:58-63`): a value that is refused leaves the headers before it
  set, and two threads mix theirs, name by name.
* After an exception between `@gossip_endpoint = ...` and `gossip_bind` the later nodes of an example
  connect to a hub that nobody serves (`testing.rb:269-271`); one between `node.start` and `<<` leaves a
  node that the `after` hook does not stop (`testing.rb:277-278`).
* `Event#msg` of a message without parts passes NULL to `zframe_strdup` (`event.c:445-446`).
* `whisper` and `shout` return the negated result of libzyre, `false` for success, where their comments
  say `-> int` (`node.c:529, 550, 556, 577`).
* `endpoint` returns the endpoint of the node's inbox socket, not what `endpoint=` set
  (`node.c:325-332`).
* `interval=` puts a signed number into a `size_t` (`node.c:260`).
* `Zyre.wait` calls `wait2`, which does not exist (`zyre.rb:31`).

## Not modelled, and why

* libzyre and czmq, except for what the code sees of them: an inbox read one message at a time, a
  poller that reads its list in one step and returns the first ready socket, a node that keeps one
  value for each header, and peers that meet over a hub. Two threads that read one socket are outside
  ZeroMQ's contract; the model gives them whole messages. The poll set that czmq rebuilds inside
  `zpoller_wait` is its own.
* The code of trap handlers and blocks, beyond calls of the methods of a component.
* The Poller object itself is held for as long as it is used; the one of `wait_for` is local.
* `Enumerator#next` on `each_event`, which runs it in a Fiber.
* Lengths of strings (`BUFSIZ`, short UUIDs), encodings, log output, allocation failures. The numbers
  that setters pass on, and what libzyre answers.
* The readers of a node (`uuid`, `name`, `peers`, `peer_header_value`, ...) and `print`: they ask
  libzyre and change nothing. The methods that need a libzyre built with draft functions.
* An override of the headers of a factory, which replaces its Hash for one call (`SetHeaders` replaces
  it for all); random addresses and ports.
* `check_fdmax`, which reads and sets a limit of the process; Observability, which declares what another
  gem watches; build files and declarations.

## Plan

Done, in this order: `NodeWait` with its abstraction and first proofs; `ZmsgBuild`; `Poller`;
`NodeCalls`; `StartedNodes`; `EventObject` with messages and overrides; proofs of every safety property
and of the refinement, for any depth of nesting. Next, most important first:

1. The safety halves of the other liveness properties, as `ListedCanMeet` is of `NodesMeet`: what is
   always possible in `Poller` while an event is unread (`AllRead`), and in `NodeWait` for a call
   whose deadline has passed (`TimedCallReturns`).
2. An abstract `headers=` that `NodeCalls` implements while one thread sets headers.
3. `EventTypes`: `type_by_name`, `type_name` and `from_node` as operators over the constants of Ruby
   and the types libzyre delivers; composed with `NodeWait` for events without a class.
4. `EventObject`: lengths at `BUFSIZ`. `Poller` with `NodeWait`: a node that is both in a shared
   poller and waited for.
