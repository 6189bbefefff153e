# A TLA+ model of turnserver

`turnserver` is a TURN relay (WebRTC's `cricket::TurnServer`, which is not part
of this repository) with the management code around it: the server announces
itself to a worker manager, to a set of load-balancing servers (LBS) and, through
an edge load balancer (ELBS), to a statistics server. This directory models that
management code, the network, memory, packet, JSON and report classes under it,
checks the models with TLC and proves the central invariants with TLAPS.

Everything below refers to `src/turnserver/`.

## 1. The system

### Threads

| thread | runs | code |
|---|---|---|
| main | `cricket::TurnServer` | WebRTC |
| worker | an `rtc::Thread`: `Worker`, `ElbsConnection` | `turnserver_main.cc` |
| LBS | a libevent loop: `UniLbsClient`, its `UniLbsConnection`s, their `TcpClient`s and `TcpConnection`s | `lbs/`, `network/` |
| printing | prints counters every two seconds | `UniLbsWorker::WorkTest` |

The threads share the counters of the TURN server, which are read without a lock and only
reported, and the log, into which all of them print. Within a thread everything is a callback of an
event loop, so a step of a model is one callback, run to its end. What makes the
code hard is not parallelism but the order in which callbacks, timers, failures
and the owner's calls follow each other, callbacks that call back, objects that
are closed by the code they are calling, and conversions that two sides must do
in the same way.

### Components

| component | state | operations | talks to | what must hold |
|---|---|---|---|---|
| `TcpClient` | `pending_`, `conn_`, `connecting_`, three time stamps, back-off | `Connect`, `OnConnect`, `OnError`, `OnPacketReceived`, `OnTimer`, `Close`, setters | libevent; its owner by callbacks | assertions, no leak, spaced and endless retries, silent peers dropped |
| `TcpConnection` | `bev_`, `is_in_processing_`, libevent's buffers | `OnDataReady`, `OnEvent`, `CloseAndDestroy`, `Detach`, `SendPacket` | libevent; its owner by callbacks | framing over any chunking, no use after free, no leak |
| `TcpServer` | `conn_` (the listener), `callback_` | `ListenOn`, `RegisterCallback`, `AcceptConnection`, destruction | libevent; the owner of the accepted connection | the same of a connection that was accepted |
| `UniLbsConnection` | `joined_` | join, ping, full and delta channel list | a `TcpClient`; the LBS server; the visitor | the server knows the visitor's channels; the session comes back |
| `UniLbsClient`, `UniLbsWorker` | `connections_`, `service_id_`, `timer_`, `reloading_interval_` | `SetServiceInformation`, `UpdateLbsAddresses`, `AddToUniLbs`, the reload timer, channel events | the resolver; `UniLbsConnection` | one owned connection per listed address, each given every event |
| `Packer`, `Unpacker` | `position_`, `length_`, the buffer | `PushXxx`, `Pack`, `Reset`, `PopXxx` | everything that sends | what is framed is what was pushed |
| packets and structs | members | `Marshall`, `Unmarshall`, the orders | `Packer`, `Unpacker`, containers | read back as sent; fit as keys |
| addresses | ip, port, scope or path | conversions, serialisation, comparison, hashes | sockets, packets, containers | the same endpoint in every class |
| `MemBuf`, `MemSlice`, `MemSliceSpan` | reference counts, offsets, up to four blocks | copy, move, trim, clone, append | each other | exact counts, offsets in bounds, bytes kept |
| `Worker`, `WorkerTCPSocket` | `socket_`, the out buffer, counters, two timers | ping timer, bandwidth timer, connect, close, request | the worker manager; the TURN server's counters | announced first, whole messages, reconnecting |
| `JsonWrapper`, cJSON | `m_root`, `m_owner`, trees of nodes | setters, getters, assignment, release, merge, text, file | `Worker` | every node freed once, text and value agree |
| `ElbsConnection` | `socket_`, `socket_connecting_`, `connect_Addr_`, `last_connect_ts_` | join timer, answers of ELBS, edge connects and closes | ELBS servers; an edge server | at most one edge connection, redirections followed |
| report functions and items | members and `__isset` bits | setters, `write`, `read`, copying, comparison | Thrift's compact protocol and memory buffer; the collector | what was set is what arrives; a cut is noticed |
| `LogFile` | the log file and its copies | `backupLogFile`, called by a callback of `UniLbsWorker` | every thread that prints; the shell | no line lost unaccounted for |
| `main` | the step it is at, the threads | set-up, exit, starting the threads | all of the above | the components behave in the process as they do alone |
| `TurnFileAuth`, logging | | | | not modelled, see section 8 |

### What is hard to test

`PROJECT.json` lists each hazard with its line. They fall into seven groups:

* *a callback inside a callback*: a connect that fails before
  `bufferevent_socket_connect` returns, an owner that closes the connection whose
  packet it is handling;
* *a close that nobody is told of*: `TcpClient::OnTimer` drops an expired
  connection without a callback, so `joined_` outlives the session;
* *one of several things fails*: a message the kernel takes a part of, a lookup
  that fails, an edge server that cannot be dialled after its address was noted, a
  report cut off inside a list;
* *the edge of a range*: the length prefix at 15 bits, a list of 15 elements, the
  interval between two tries, offsets that wrap, a number beyond `int`;
* *repeated by hand*: member lists of packets, clauses of `operator<`, ids of report
  members, byte orders of four address classes, in each of which one line may be off;
* *who owns what*: nodes that move between JSON trees, slices that share a buffer,
  connections that move between maps;
* *something that must happen in the end*: dialling again, joining again,
  following a redirection, using the answer of the resolver.

## 2. Modules

| module | models | extends |
|---|---|---|
| `TcpClient` | `network/tcp_client.cpp` | |
| `UniLbsConnection` | `lbs/uni_lbs_connection.cpp` composed with `TcpClient` | `TcpClient` |
| `LbsPool` | abstract: what `UniLbsClient` promises of its connections | |
| `UniLbsClient` | `lbs/uni_lbs_client.cpp`, the calls of `UniLbsWorker`; implements `LbsPool` | |
| `LengthPrefix` | the variable-length integer, written and read | |
| `PacketCodec` | the positions in `base/packer.h` | `LengthPrefix` |
| `PacketTypes` | the macros of `base/packet_helper.h` and `base/declare_struct.h` and the packets declared with them, as tables | |
| `PackerBytes` | the bytes that `Packer` writes and `Unpacker` reads | `LengthPrefix`, `PacketTypes` |
| `Packets` | `base/packet.h`, and the operators of `base/packer.h` and `base/unpacker.h` for every type | `PacketCodec`, `PackerBytes` |
| `Addresses` | `network/address_types.*`, and keys of containers | `PackerBytes` |
| `Wire` | packets and addresses together | `Packets`, `Addresses` |
| `TcpConnection` | `network/tcp_connection.cpp` | `LengthPrefix` |
| `TcpServer` | `network/tcp_server.cpp` composed with the connection it accepts | `TcpConnection` |
| `MemSliceSpan` | `memory/` | |
| `Worker` | `Worker` and `WorkerTCPSocket` of `turnserver_main.cc` | |
| `LogFile` | `LogFile` and `OnEdgeServerPerformanceRequired` of `turnserver_main.cc` | |
| `TurnServerMain` | `main` and the threads it starts, composing `Worker` and `LogFile` | `Worker`, `LogFile` |
| `Cjson` | `new_elbs/cJSON.cc`: values and their text | |
| `JsonWrapper` | `new_elbs/json_wrapper.cc` | `Cjson` |
| `WorkerMessages` | the JSON that `Worker` builds and reads | `JsonWrapper` |
| `ElbsConnection` | `ElbsConnection` of `turnserver_main.cc` | |
| `MemoryBuffer` | `TMemoryBuffer` of Thrift | |
| `CompactProtocol` | `TCompactProtocol` of Thrift | `MemoryBuffer` |
| `ReportTypes` | the classes of `thrift/gen-cpp/report_item_types.*`, as tables | |
| `Reports` | reading and writing of the items, the report functions of `turnserver_main.cc` | `ReportTypes`, `CompactProtocol` |
| `PacketCodecProofs` | theorems about the packer, addresses and keys | `PacketCodec`, `Addresses`, `TLAPS` |
| `TcpClientProofs`, `TcpConnectionProofs`, `ElbsConnectionProofs`, `MemSliceSpanProofs`, `UniLbsClientProofs` | theorems | the module named (`TcpServer` in the case of `TcpConnectionProofs`), `TLAPS` |
| `UniLbsConnectionProofs` | theorems | `UniLbsConnection`, `TcpClientProofs` |
| `TurnServerMainProofs` | theorems about `Worker`, `LogFile` and the process | `TurnServerMain`, `TLAPS` |
| `MC...` | instances for TLC | the module named |

Variables carry the names of the fields they model; a trailing underscore is the
code's. Variables marked *external* stand for libevent, the kernel, a server or the
resolver, those marked *history* record something a property speaks of and guard no
action. An operator called *mutant* is a variant of the definition that follows it
with a plausible mistake in it; none is used by a specification, and each breaks
one property when put in the definition's place, which shows that the property
depends on that line of the code.

### TcpClient

Instants are kept as differences to the present (`try_age`, `active_age`,
`next_try_in`), which is all the code compares; an age stops growing once no
comparison can tell it from a larger one. Time is therefore unbounded and the state
finite. `dialing` and `open` are the bufferevents libevent holds. `Connect` has three
outcomes, each an action: it fails before a bufferevent exists for good
(`ConnectFailsLocally`), libevent reports the failure from inside the call
(`ConnectFailsAtOnce`), or it is under way (`ConnectPends`). `OnTimer` is split by the
branch it takes. The timer may be late by any time.

### UniLbsConnection

The handlers run inside the handlers of `TcpClient`, so each action conjoins an
action of `TcpClient` with the handler it calls. Expiry by `OnTimer` calls nobody
(`NotNotified`); the `catch` of `OnPacketReceived` is compiled away (section 7). The LBS server and the visitor are
external: the server may accept, refuse or ignore a join and vanish at any time until
`Recover`; it answers the pings of a joined service. The visitor in this program lists
no channels and nobody announces any; the model checks the contract of the class, with
a visitor that has some.

### UniLbsClient and LbsPool

`ReloadLbsAddresses` is translated address by address: `LoadAddress` is a round of its loop,
in which an address found in `connections_` leaves a null pointer behind and one listed twice
must not be moved twice, and `Swap` is its end, where what is left over is destroyed. `caller` says
who called it and so what follows: the timer of `SetServiceInformation` (`ServiceIsSet`), the list of
`AddToUniLbs` (`AddressesFollow`), or nothing (`Reloaded`). The loop runs to its end before anything
else happens to the client. `LbsPool` says what should come of it; under the refinement mapping
`Current` a connection that was moved already is still the connection of its address, so a round is
a stuttering step of the pool and the swap is a step of it. The allocator may return any free object.
A connection is known here by its object and by the channel events it was given. In the program
`AddToUniLbs` calls `SetServiceInformation` with a host name that does not resolve, which
connects to the loopback address, and `UpdateLbsAddresses` right after it, on a client it
has just made and with the clock as the service id; the clock wraps, so that the id may be
zero, with which the list is not taken.

### LengthPrefix, PacketCodec, PackerBytes, Packets, Addresses and Wire

`PacketCodec` counts sizes and positions at their real widths; `PackerBytes` adds the bytes, which
are written as they lie in memory, the lowest first, for numbers of up to four bytes (no packet has
longer ones). `Packets` reads and writes whole packets with it. `PacketTypes` holds, for every number
of members, what the macro of that number initialises, writes, reads, compares and copies,
each as the macro spells it out and none derived from another, so that a slip in one of them
shows. Reading goes by the class of the receiver. Calls beyond `kMaxPacketSize`, of which
`CheckSize` only warns, and packets that end early are outside the model.

`Addresses` takes an endpoint through the classes: network order in `SocketAddress4`, host
order in `NewSockAddress4`, the port of an IPv6 address in network order, `sockaddr`
structures, packets. The same module inserts addresses and declared structs into a
`std::set`, step by step with the `operator<` of the code, and compares what their hashes are
taken of. `Wire` joins the two: a behaviour is about a packer and its packets, or about an address,
or about a set. `Addresses` needs no recursion, and so is apart from `Packets`, which does.

### TcpConnection and TcpServer

The loop of `OnDataReady` runs step by step because the owner is called from inside it
and may close or detach the connection there. Bytes are positions in the
peer's stream; the prefix of a packet is `EncodeLength` of its length, and anywhere else
the bytes may decode to anything. The loop reads the length with bit operations of its own
(`PacketLength`), not with the `Unpacker`'s, so that `PacketsAsSent` compares it with `EncodeLength`. A packet is a record of its first position and its length, and
so is what the owner is given, so that `PacketsAsSent` compares the two. `TcpServer` starts with no connection: its owner listens,
sets and removes the callback and destroys the server, before and after the accept. What
the peer sends before it is accepted waits in the kernel. Without a callback the accepted
descriptor is dropped.

### MemSliceSpan

Buffers with reference counts, the slices that refer to them (slots of spans, a variable of
the caller, the parameter and the result of a call) and the bytes each span should show. All
constructors and assignments of slices and spans are there, between two different spans (onto itself
a span returns at once); only `Clone` and
`ToSingleBlock`, which return a new span, are also assigned to the span they were called on. A loop over the blocks of a span is written as its four rounds, the most there can be, each
with the test of the loop. `fault` is set by a use of a freed buffer or a pointer out of its bounds.

### LogFile and TurnServerMain

The log is the lines `emptied + 1` to `printed`; other threads print at any point of the backup, which
is modelled up to each chunk of the copy. Opening, reading (also in the middle of the
log, `CopyBreaks`), writing and the shell command may fail, and the code does not look at the result
of any of them. Sizes are in lines. Copies made within the same second
would have one name; this takes a shell that failed and is not told apart.

`TurnServerMain` is `main`, step by step with the steps that end the process. `GetExternIP` asks a web
service for the address; the argument `ext-ip` of the usage line is not looked at. The worker
thread's messages wait from before the thread starts. `Explored` says which components a behaviour
follows; the theorems hold for any value of it, also when it has both at once.

### Worker and ElbsConnection

One `rtc::Thread` dispatches socket events and delayed messages, those in the order of
their due times and possibly late. Sockets are WebRTC's: closed, connecting or connected,
with an out buffer that holds the rest of a message the kernel took a part of. A
`WorkerTCPSocket` is never deleted by the code; the models use the name of a closed one
again. The size check of `Send` never applies to the short messages sent here. `Stalls` assumes that
the empty buffer of a new connection takes at least the first bytes of the first message; were it
to take none, `Send` would drop the message (`turnserver_main.cc:279`) and nobody would repeat it.

### Cjson, JsonWrapper and WorkerMessages

`Cjson` has values as trees, and texts as sequences of characters in which a whole number, `null`,
`true` and `false` are one symbol each; escapes are modelled, as strings are where printing
and parsing can disagree. `JsonWrapper` puts the trees on a heap of nodes with addresses, because
its hazard is ownership: handles own a tree or borrow a node, merging moves nodes from one tree
to the other, and `release` gives a tree to the caller. The caller of the model keeps to what the
class asks for without checking it (named at the head of the module). `WorkerMessages` builds the
three messages of the worker with the same operators; the variables that `OnWorkerManagerPacket`
leaves uninitialised hold any value.

### MemoryBuffer, CompactProtocol, ReportTypes and Reports

`ReportTypes` is a table per class: members, setters, the cases of `read`, the sequence of `write`,
what comparison looks at and what copying takes along. The file says that it is generated, but
parts of it are edited by hand, so no table is derived from another. `Reports` is the code around
the tables, the same for every class. The protocol is modelled byte by byte, since its field
headers depend on the field before: ids as distances, booleans inside the header, sizes of lists
packed up to 14. Exceptions are switched off in this build: a failed read sets a flag and the
callers go on. A list whose head could not be read gets the length that an uninitialised variable
holds (`Strays`, chosen by the step), up to one there is no memory for, which aborts the collector
(phase `aborted`). The collector is external; it runs the same generated code, of this version or of
one that lacks a member, on all of an item or on its first bytes, and the item may come from a
sender with a member more.

## 3. Runs

| run | states | shows |
|---|---|---|
| `tcp_client` | 38,746 | assertions, ownership and spacing of retries; retries never end; a vanished peer is dropped |
| `lbs_session` | 84,984 | the server's channels follow the visitor's; an unjoined connection ends; joined for good after recovery; `joined_` is stale only after an expiry, which nobody is told of |
| `lbs_client` | 383,952 | ownership of connections and the events they get, a list stays in force, the resolver is followed, `LbsPool` is implemented |
| `packet_codec` | 481,379 | prefix and body fit together at and around 15 bits; buffer large enough; every packet is read back as sent; an address stays the same endpoint; orders and hashes are fit for containers |
| `tcp_connection` | 397,716 | an accepted connection: framing over any chunking, deferred destruction, everything delivered |
| `span` | 192,346 | reference counts, bounds and bytes, within the limits the findings leave |
| `worker` | 266,245 | the process: one socket, connect first, whole messages, counters before pings, registered in the end; no line of the log is lost unaccounted for |
| `elbs` | 540,492 | one edge connection, which ends only by its server or for one that is up; redirections are followed and leave no other socket open |
| `reports` | 819,612 | every class of item is read as it was set, by collectors of other versions too; a cut is noticed, unless the collector aborts over a list size that was never read |
| `json` | 88,541 | every node has one owner; text and value agree; merging; setters and getters; requests are echoed |
| `span_trim`, `reports_connect` | | violations, see section 7 |

All invariants and temporal properties of the passing runs hold. Deadlock is checked
except where the bounded number of calls or packets ends the run by itself
(`lbs_client`, `span`, `tcp_connection`, `json`) and in `worker`, where `main` may exit. `TypeOK` of `TcpClient`, `Worker` and
`ElbsConnection` is part of the inductive invariants that are proved (section 4), so no run
repeats it.

### Bounds

* `tcp_client`: the constants of `tcp_client.cpp` (3 s, 10 s, 60 s, 300 s, 5 s) scaled down in
  the same order; two addresses of bufferevents, so that one can be reused while another
  is current; back-off factors 3/2 and 2, which reach the cap; two calls of the owner. The
  proofs remove all of these bounds.
* `lbs_session`: one channel (the channels do not interact), up to two deltas in flight
  and two replies, which is enough for a create and a destroy around a join's answer.
* `lbs_client`: two hosts and the loopback address; lists with repetitions, in both orders, and
  empty; four objects, one more than the addresses, since an address that is listed twice has two for
  a moment; one channel; service ids zero and not; four calls of the owner.
* `packet_codec`: real widths; three pushes whose sizes land on, below and above the
  boundary and near the limit (the proofs hold for every size); every packet of the protocols and
  one of each number of members, with members of different sizes and values, so that no exchange of
  two goes unnoticed; endpoints whose swapped form is another one; keys that differ in one member each, three
  in a container.
* `tcp_connection`: three packets with lengths below the minimum, at it, and on both sides of
  the two-byte prefix (scaled to 8), in chunks of every size; three calls of the server's owner.
* `span`: two spans, four buffers, six calls: enough to fill a span, copy it, trim it and
  release it again.
* `worker`: real delays in units of 500 ms, up to 3.5 s of lateness, which lets both timers be
  overdue in both orders; two sockets, as the old one must be closed before a new one is made. A log of up to
  eight lines that is copied from three on, in chunks of two, so that a copy has several rounds and an
  incomplete one, and there may be a second backup. A behaviour follows the worker or the log
  (`Explored`), which share nothing.
* `elbs`: two ELBS servers, two edge servers and three sockets to them (in use, dialled,
  dialled before that).
* `reports`: every pair of members of every class; numbers of one and of two bytes, of both signs;
  lists of 0, 1, 14 and 15 elements, the two sides of the packed size; a default buffer of four
  bytes, which has to grow; every cut; uninitialised sizes of no element, of some and of more than
  the collector has memory for; a further member of each type of Thrift, in front and
  behind. Integers stay far from 32 bits, where the shifts of the zigzag code would wrap.
* `json`: two handles, which are alike (symmetry), and four calls, enough to build, copy, merge
  and release; names that differ in case only; `int` scaled to 255, with numbers at and beyond it; a
  string of a quote and a backslash. A behaviour exchanges a message or uses handles, never both.

### Fairness

Weak fairness only, on what an event loop does (in `worker` once `main` has started the thread, which is
`MainFairSpec` of `TurnServerMain`): time passes, a due timer is
dispatched, a connect is answered (by the kernel's own timeout at the latest), data that
arrived is read, a callback or a loop comes to its end. Calls of an owner,
failures and what peers send are not fair. Properties about recovery (`JoinedForGood`,
`TracksResolver`, `Registered`, `FollowsElbs`) start when an external variable says that the other
side works for good, and then also rely on that side: the LBS server reads and answers, ELBS
answers and closes the connections that the client leaves open. `JoinedForGood` assumes in
addition (`Prompt`) that packets and timers are then handled within the second; a client that is
late by more than the timeout expires its own connection.

## 4. Theorems

Each is proved for every value of the constants that satisfies the module's assumptions;
TLC evaluates the assumptions in the runs.

* **`TcpClientProofs`** (`TypeCorrect`, `AssertionsNeverFail`, `BuffereventsAreOwned`,
  `WaitIsBounded`, `RetriesAreSpaced`). The inductive invariant joins types, ownership and
  timing. Ownership (`dialing` is what `pending_` points to, `open` what `conn_` points to, not
  both, and `connecting_` exactly while `pending_`) is inductive by itself. Spacing is
  not: from `next_try_in` and `try_age` alone a tick could bring the next try nearer
  than it was scheduled. The invariant adds that after a failure of the remote end their sum
  is at least `MinTimeout`, and that the interval is never below it, which needs that a
  back-off factor is at least one and that the configured timeout is at least
  `MinTimeout` and at most `MaxTimeout`. The code checks neither upper bound nor factor; the
  assumptions `ConstantsAreOrdered` and `BackoffsGrow` say so.
* **`PacketCodecProofs`**. *Packer* (`RoundTrip`, `PacketsAreFramed`, `BufferIsLargeEnough`): `RoundTrip` is
  arithmetic on quotient and remainder. The invariant
  says where `position_` stands before and after `Pack`, so that the two ways of finding the
  size of the prefix, from the position and from the length, can be compared.
  *Addresses* (`AddressesStand`): the property is about what `operator==` and `GetPort` say, the
  invariant `AddressInv` that the object is the representation of its endpoint to the last field.
  Each conversion keeps a valid address as it is: swapping the bytes of 16 or 32 bits twice
  gives the number back (`SwapTwo`, `SwapFour`), a number is read from wherever its bytes lie
  (`FourRead`, `TwoRead`), and the reader finds every field of the packet where the writer put it
  (`FourSerialized`, `SixSerialized`, `UnixSerialized`). `EndpointAssumption` says that numbers have the
  width of their fields and that a path has no zero byte, is shorter than `sun_path` and than the
  longest length a prefix can hold; a path that fills `sun_path` would be cut, see section 7.
  *Keys* (`SetsAreSorted`): the invariant `KeysInv` says that the sequence holds each inserted key
  once and that positions are in the order of `operator<`. An insertion keeps it because
  `operator<` is a strict total order: for structs, the clauses of the macro of each size, as they are
  written, amount to the lexicographic order of all members (`StructsComplete`, `StructLessIs`);
  for addresses the version and the members decide, which leave no two addresses alike
  (`LessIrreflexive`, `LessTransitive`, `LessTotal`). Equal hashed bytes mean equal addresses because the
  fields lie side by side with fixed widths (`HashTells`, `HashersTell`). `KeyAssumption` gives a struct one to
  nine numbers, the sizes the macros are there for.
* **`TcpConnectionProofs`** (`NobodyUsesAfterFree`, `NothingLeaks`, `AcceptedConnectionsAreSafe`,
  `PacketsArriveAsSent`, `AcceptedStreamsAreKept`). The invariant ties `is_in_processing_` to the place of the
  thread, and the life of the object to the bufferevent and to that flag: a closed connection
  lives exactly as long as `OnDataReady` is on the stack. It holds whatever the peer sends and
  however it is cut. The third theorem is about `TcpServer`: the invariant holds without a
  connection, accepting one establishes the first state of `TcpConnection`, and no call of the
  server's owner touches it.
  `PacketsAsSent` needs an invariant of its own, `StreamInv`: the packets of the peer lie one behind
  the other, no two begin at the same place, and the input buffer begins where the packet begins
  that is next (`InStep`). From these, with a header in the buffer, `HeadLengths` has one element, the
  length of that packet, because the bit operations of `OnDataReady` undo the encoding below
  `Half * Upper` (`LengthRoundTrip`) and lengths are positive. Without `InStep` the loop could start inside a payload and read anything.
* **`UniLbsConnectionProofs`** (`SessionInvariance`, `StaleJoinsExplained`, `ChannelsAgree`).
  `ChannelsInSync` speaks of the moment when nothing is in flight. The invariant speaks of every
  moment: the last packet in flight that mentions a channel says whether the channel exists now, and
  where none mentions it a server that has the full list knows the truth (`Current`). It needs that
  nothing of a stream outlives its connection and that no channel is sent before the join is answered.
  The types and ownership of `TcpClient` come from `TcpClientProofs`.
* **`UniLbsClientProofs`** (`ConnectionsAreOwned`, `ListIsInForce`, `PoolIsImplemented`). The properties
  speak of the time between reloads; the invariant of every round of the loop: the new map has
  exactly the addresses already passed, an entry of the old map is null exactly if its address is
  in the new one (`Progress`), every live object is in exactly one place of one map (`Owned`) and has
  been given every event. `PoolIsImplemented` is the refinement: initial states map to initial
  states, a round of the loop leaves `Current` as it is because what becomes null in one map is found
  in the other (`LoadAddressStutters`), and the swap is a `Relist` of `LbsPool` (`SwapRelists`). The loop is a
  sequence of steps, so lists of any length are covered by induction over the behaviour.
* **`MemSliceSpanProofs`** (`MemoryInvariance`, `SlicesStaySound`, `BytesInvariance`,
  `SpansKeepTheirBytes`). Within a call there are buffers that
  no slice holds yet, so the invariant that every operation on slices keeps carries their set:
  every count is the number of slices on the buffer, what has a slice is live, and every slice lies
  in its buffer. On top of it, between calls, temporaries are empty and blocks lie in the
  slots below `block_count_` only. A loop is shown to keep it by its rounds, and a call by its
  loops.
  `SpansHoldTheirBytes` speaks of the spans at rest and of what `CloneSpannedMem` returns for those its
  assertion admits (`Spannable`), `BytesInv` of the blocks of every span between calls: read one after
  the other they are the text of the span, and `size_` is its length. That a call on one span
  leaves the bytes of the others alone rests on the counts: a buffer that a slice still holds is
  not freed, and so not reused (`ReadsSame`), and a new buffer is one that no slice holds
  (`FilledReads`). The invariant adds that no buffer is larger than `MaxText`, so that with `MaxText`
  at most `SliceLimit` (`TextsFit`) a slice made of a buffer covers all of it. The two theorems
  assume `TrimBlocks` at most 2; with 3 the property is false of the code (`span_trim`).
* **`TurnServerMainProofs`**. *Worker* (`TypeCorrect`, `OnlyOneSocket`, `ConnectIsFirst`, `NeverTorn`,
  `PingsAreInformed`): the invariant adds that a socket that is connecting has sent nothing and is
  not broken, that one that is connected has sent its connect message first, and that until the
  counters are read their timer is due before the one of the ping, for any delays in that order.
  *LogFile* (`LinesAreKept`): the invariant adds what has been accounted for by the copy under way and,
  once it has ended, at the end of the log or at a failure, by everything that is about to be removed. *The process*
  (`ProcessRunsWorker`, `ProcessRunsLog`, `ProcessIsSafe`): `MainSpec` implements the specifications of both
  components, the steps of `main` and of the other threads being stuttering steps, so that what is
  proved of each holds of the process.
* **`ElbsConnectionProofs`** (`OnlyOneEdge`, `EdgeConnectionKept`). With the types
  `OneEdgeConnection` is inductive, because a socket is dialled only if neither `socket_` nor
  `socket_connecting_` points to it. `EdgeIsKept` is an action property that follows from it, action
  by action: where a connect is given up or replaced, the socket in question is not the open one.

Not proved, and left to TLC:

* the liveness properties, which need `ENABLED`;
* `SpansHoldTheirBytes` where `AdjustBeginPointer` meets spans of three and more blocks: it is false
  of the code (`span_trim`);
* packets, JSON and reports, whose values are trees read and written by `RECURSIVE`
  operators: what these compute would need induction over data. The properties are checked on
  every class of packet and of report item and on every number of members.

## 5. Plan

Done, in this order: `TcpClient`, `UniLbsConnection`, `PacketCodec`, `TcpConnection`,
`MemSliceSpan`, `UniLbsClient`, `Worker`, `ElbsConnection` and their first proofs; then what travels over
these connections: `Reports` over `CompactProtocol`, `Packets`, `Addresses`, `JsonWrapper` and
`WorkerMessages`; then `TcpServer` in front of `TcpConnection`, the missing operations of
`UniLbsClient` and `MemSliceSpan`, `LogFile` and `TurnServerMain`; then the proofs of the session, of
the reference counts, of the stream, of the pool and of the process; then those of the bytes of a span,
of the addresses and of the containers they are keys of.

Next, in order of weight:

1. `UniLbsClient` composed with its sessions: destroying a connection whose callback is
   running.
2. `RepeatedTimer` replaced inside its own callback.
3. `Unpacker` on packets that end early, once the code defines what it does there.

## 6. Running

    tlc -config MCTcpClient.cfg MCTcpClient      (and so on, see PROJECT.json)
    tlapm TcpClientProofs.tla

## 7. Findings

Shown by a run:

* `MemSliceSpan::AdjustBeginPointer` loses the order of the remaining blocks when a span of
  three or more is trimmed past its first (`span_trim`).
* `WrtcConnectProxyTurnWorker::write` gives `ingress` and `egress` the id of `userCount`, and `extend`
  that of `clientAddr`, while `read` expects ids of their own: of the three numbers that
  `SendConnectReport` sends the collector keeps the last, as `userCount` (`reports_connect`).
  `ItemSurvives` leaves these members out.

Met while modelling, and named where the model or a property steps around them:

* `packer.h:61` allows lengths up to and including 8 * 1024 * 1024, but the third byte of the
  length (`packer.h:245`) keeps eight bits, so that this value is encoded as 0.
* `PushBack` lets four blocks into a span (`mem_slice_span.h:27`); `Clone`, `ToSingleBlock`,
  `CloneSpannedMem` and `ToRawBuffer` of such a span fail their assertion (`mem_slice_span.cpp:141`, `:165`,
  `:179`). The actions have the assertions as guards, and `SpansHoldTheirBytes` speaks of
  `CloneSpannedMem` only where its assertion holds.
* A `MemSlice` covers 65536 bytes by default, so a single block built from a longer span is
  cut. `TextsFit` assumes that no text is longer than
  `SliceLimit`; without this assumption, and with `SliceLimit = 2` in the configuration of `span`, TLC
  shows `SpansHoldTheirBytes` violated.
* `SetServiceInformation` (`uni_lbs_client.h:54`) does not reach connections that are kept: they
  copied the service id when they were made (`uni_lbs_client.cpp:199`). With a service id of zero
  `UpdateLbsAddresses` stops the timer and takes no list.
* `JsonWrapper::setIntValue(name, value)` and `setDoubleValue(name, value)` change one of the two fields of
  a number that is already there, so that the text still shows the old value; `cJSON.h:144` asks for
  both. `setBooleanValue(value)` on a value that is no boolean stores a number
  (`json_wrapper.cc:548`). `TextRoundTrips` leaves numbers with differing fields out, and
  `SettersReadBack` reads with the getter of the setter's own type, so neither compares the two fields.
* The string parser of cJSON steps over the end of a text that stops behind a backslash
  (`cJSON.cc:161`), and `fromFile` hands it 65535 bytes without a terminating zero when the file is
  that long (`json_wrapper.cc:117`). The model refuses the first and does not read such a file.
* The macros `try` (`if(true)`) and `catch(...)` (`if(false)`) at `tcp_connection.cpp:31` and
  `uni_lbs_connection.cpp:26` compile the handlers at `tcp_connection.cpp:254` and
  `uni_lbs_connection.cpp:123` away: they never run, and an exception of a callback would leave
  through libevent. The models have no such step.
* `VosdkCounter::read` and three other `read` functions resize a list to a variable that `readListBegin`
  does not assign when it fails (`report_item_types.cpp:716`, `:1604`, `:1922`, `:4152`): an item cut off
  there yields a list of any length, and may abort the reader for want of memory before anybody can
  look at the error. `CutIsNoticed` names this.
* An edge address that could not be dialled is noted all the same (`turnserver_main.cc:584`) and not
  tried again until ELBS names another. The connection in use survives it (`EdgeIsKept`);
  `FollowsElbs` promises nothing for such an address.
* Replacing an item of an object by one that has a name overwrites that name without freeing it
  (`cJSON.cc:536`). The model has names as
  values and its ownership property is about nodes.
* A `TcpServer` without a callback leaves the accepted descriptor open and unread
  (`tcp_server.cpp:131`), and its destructor closes the listening descriptor a second time
  (`tcp_server.cpp:61`).
* `backupLogFile` empties the log whether or not the copy was made, also after a read error that
  ends the copy in the middle of the log (`turnserver_main.cc:211`), and what another thread prints
  between the end of the copy and the command that empties the log is lost (`turnserver_main.cc:187`).
  `LinesKept` names all of these.
* A path that fills `sun_path` is cut when an address is converted (`address_types.cpp:38`); `packet_codec`
  uses paths that just fit.

The remaining notes on hazards in `PROJECT.json` name what the models do not cover or
what depends on a peer that is not in the repository, such as edge servers that are never
dialled again after they close the connection.

## 8. Not modelled

* WebRTC, libevent, glog and gflags, and what Thrift has besides the compact protocol and the
  memory buffer: external; modelled only as far as the code above relies on them.
* `TurnFileAuth`, one lookup in a file that is loaded at the start; the numbers the printing thread prints and
  the empty visitor callbacks of `UniLbsWorker`.
* `OneShotTimer`, the rest of `EventLoop`, local address lists, logging: thin wrappers and output.
* Headers without an implementation (`fast_tcp_client.h`, `report_client.h`, `udp_socket.h` and
  others): there is no code to model.
* `thrift/turnserver/` and `new_elbs/declare_struct.h`: second copies of files that are modelled.
* Of cJSON: unicode escapes, fractions and exponents, `cJSON_Minify`, hooks; of the addresses:
  their text form.
* `SendRawData`, `Flush`, `EnableMptcp`, `EnableReusePort`: no state that a property depends on.
